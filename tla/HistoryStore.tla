---- MODULE HistoryStore ----
(***************************************************************************)
(* `governance history add`, `show` and `inspect` (cli.py, history/*.py)   *)
(* on one history file, with the artifacts its entries refer to.           *)
(*                                                                         *)
(* The commands are processes of their own and take no lock.  `add` reads  *)
(* the file and everything it refers to, and writes the file again, one    *)
(* entry longer, through a temporary file that replaces it                 *)
(* (io/atomic.py).  A command may be killed anywhere, a write may fail,    *)
(* and others may edit or delete the artifacts and the history.            *)
(***************************************************************************)
EXTENDS Evolution, SequencesExt

CONSTANTS
    Commands,      \* commands, each run once
    Paths,         \* the artifacts a request may name
    Versions,      \* for each path, the contents it may have
    Requests,      \* what `add` may be asked
    Queries,       \* what `show` may be asked
    Earlier,       \* what earlier additions may have left: artifacts, history and authors
    MaxChanges     \* bound on changes from outside

Gone == [kind |-> "gone"]
EvolutionDocument == [kind |-> "evolution"]
HistoryPath == "history"

ASSUME PathAssumption == HistoryPath \notin Paths
ASSUME VersionAssumption == MaxChanges \in Nat /\ Paths \subseteq DOMAIN Versions

\* Earlier additions came one after the other: the file has an entry of each,
\* comparable with the one before it and not the same.
ASSUME EarlierAssumption ==
    \A e \in Earlier :
        /\ e.by \in Seq(Range(e.by)) /\ Range(e.by) \cap Commands = {}
        /\ \A m, n \in DOMAIN e.by : e.by[m] = e.by[n] => m = n
        /\ e.file.status = (IF e.by = <<>> THEN "absent" ELSE "whole")
        /\ e.file.entries \in Seq(Range(e.file.entries))
        /\ Len(e.file.entries) = Len(e.by)
        /\ \A n \in 1..Len(e.file.entries) - 1 :
            LET b == e.file.entries[n].state c == e.file.entries[n + 1].state
            IN  Comparable(b.snapshot, c.snapshot, e.file.policy) /\ b # c

VARIABLES
    artifacts,     \* the content of every path
    file,          \* the history file
    temps,         \* the commands whose temporary file exists
    cmd,           \* each command: what it was asked, its next step, what it holds,
                   \* and the additions and authors before its reading (history)
    authors,       \* the commands that wrote the entries of the file (history)
    landed,        \* the additions that replaced the file, in order (history)
    meddled,       \* the file was changed from outside (history)
    changes        \* changes from outside

vars == <<artifacts, file, temps, cmd, authors, landed, meddled, changes>>

Absent == [status |-> "absent", policy |-> [source |-> FALSE, database |-> FALSE], entries |-> <<>>]
Damaged == [Absent EXCEPT !.status = "damaged"]
Whole(policy, entries) == [status |-> "whole", policy |-> policy, entries |-> entries]

NotRead == [content |-> Nothing]
Idle == [name |-> "none", asked |-> NotRead, pc |-> "idle", snapshot |-> NotRead,
         history |-> Absent, states |-> <<>>, result |-> <<>>, seen |-> <<>>,
         had |-> <<>>, outcome |-> "running"]

-----------------------------------------------------------------------------
(* Resolving a history (history/load.py, history/context.py).              *)

Files(contents, paths) == [n \in DOMAIN paths |-> contents[paths[n]]]

\* The identities of a context, with the conflicts derived from the rest.
ContextOf(form, observations, rules) ==
    [form |-> form, observations |-> observations, rules |-> rules,
     conflicts |-> IF form = "full" THEN Conflicts(observations, rules) ELSE <<>>]

ContextForm(operator) ==
    IF operator.observations = <<>> THEN "none"
    ELSE IF operator.authority = <<>> THEN "provenance" ELSE "full"

\* The documents of the context can be loaded, and what they say.
ContextLoads(contents, operator) ==
    /\ operator.observations # <<>> => ObservationsLoad(contents[operator.observations[1]])
    /\ operator.authority # <<>> => AuthorityLoads(Files(contents, operator.authority))

ContextRead(contents, operator) ==
    ContextOf(ContextForm(operator),
              IF operator.observations = <<>> THEN {}
              ELSE contents[operator.observations[1]].entries,
              IF operator.authority = <<>> THEN {}
              ELSE AuthorityOf(Files(contents, operator.authority)))

SnapshotLoads(content) == content.kind = "snapshot" /\ Loads(content.snapshot)

\* Every artifact of an entry is still what the entry recorded.
EntryIntact(contents, entry) ==
    /\ SnapshotLoads(contents[entry.operator.snapshot])
    /\ contents[entry.operator.snapshot].snapshot = entry.state.snapshot
    /\ ContextLoads(contents, entry.operator)
    /\ ContextRead(contents, entry.operator) = entry.state.context

\* resolve_history_artifacts raises no error.
Resolves(contents, history) ==
    /\ \A n \in DOMAIN history.entries :
        /\ EntryIntact(contents, history.entries[n])
        /\ Projects(history.entries[n].state.snapshot)
    /\ \A n \in 1..Len(history.entries) - 1 :
        Comparable(history.entries[n].state.snapshot,
                   history.entries[n + 1].state.snapshot, history.policy)

ResolvedState(entry) ==
    [snapshot |-> entry.state.snapshot, form |-> entry.state.context.form,
     observations |-> entry.state.context.observations, rules |-> entry.state.context.rules]

-----------------------------------------------------------------------------
(* The steps of the commands.                                              *)

Init ==
    /\ \E e \in Earlier :
        /\ artifacts = e.artifacts
        /\ file = e.file /\ authors = e.by
        /\ landed = [n \in DOMAIN e.by |-> [by |-> e.by[n], seen |-> SubSeq(e.by, 1, n - 1)]]
    /\ temps = {} /\ cmd = [c \in Commands |-> Idle] /\ meddled = FALSE /\ changes = 0

At(c, name, pc) == cmd[c].name = name /\ cmd[c].pc = pc
Step(c, record) == cmd' = [cmd EXCEPT ![c] = record]
Disk == <<artifacts, file, temps, authors, landed, meddled, changes>>

\* A command that ends keeps its answer only.
Ended(c, outcome) == [Idle EXCEPT !.name = cmd[c].name, !.asked = cmd[c].asked, !.pc = "ended",
                                  !.result = cmd[c].result, !.outcome = outcome]
Fail(c) == Step(c, Ended(c, "failed"))

StartAdd(c) ==
    \E request \in Requests :
        /\ At(c, "none", "idle")
        /\ IF request.authority # <<>> /\ request.observations = <<>>
           THEN Step(c, [Ended(c, "failed") EXCEPT !.name = "add"])
           ELSE Step(c, [Idle EXCEPT !.name = "add", !.asked = request, !.pc = "snapshot"])
        /\ UNCHANGED Disk

StartRead(c) ==
    /\ At(c, "none", "idle")
    /\ \/ \E query \in Queries :
            Step(c, [Idle EXCEPT !.name = "show", !.asked = query, !.pc = "history"])
       \/ Step(c, [Idle EXCEPT !.name = "inspect", !.pc = "history"])
    /\ UNCHANGED Disk

ReadSnapshot(c) ==
    /\ At(c, "add", "snapshot")
    /\ LET content == artifacts[cmd[c].asked.snapshot]
       IN  IF SnapshotLoads(content)
           THEN Step(c, [cmd[c] EXCEPT !.snapshot = content.snapshot, !.pc = "history"])
           ELSE Fail(c)
    /\ UNCHANGED Disk

\* Only `add` does without a history.
ReadHistory(c) ==
    /\ cmd[c].pc = "history"
    /\ IF file.status = "whole" \/ (file.status = "absent" /\ cmd[c].name = "add")
       THEN Step(c, [cmd[c] EXCEPT !.history = file, !.pc = "resolve",
                         !.seen = [n \in DOMAIN landed |-> landed[n].by], !.had = authors])
       ELSE Fail(c)
    /\ UNCHANGED Disk

PolicyConflicts(request, history) ==
    /\ history.status = "whole"
    /\ \/ request.align.source /\ ~history.policy.source
       \/ request.align.database /\ ~history.policy.database

ResolveHistory(c) ==
    /\ cmd[c].pc = "resolve"
    /\ IF ~Resolves(artifacts, cmd[c].history)
          \/ (cmd[c].name = "add" /\ PolicyConflicts(cmd[c].asked, cmd[c].history))
       THEN Fail(c)
       ELSE IF cmd[c].name = "inspect" THEN Step(c, Ended(c, "ok"))
       ELSE Step(c, [cmd[c] EXCEPT !.pc = IF cmd[c].name = "add" THEN "append" ELSE "evolve",
                         !.states = [n \in DOMAIN cmd[c].history.entries |->
                                        ResolvedState(cmd[c].history.entries[n])]])
    /\ UNCHANGED Disk

Operator(request) == [snapshot |-> request.snapshot, observations |-> request.observations,
                      authority |-> request.authority]

NewEntry(c) ==
    [operator |-> Operator(cmd[c].asked),
     state |-> [snapshot |-> cmd[c].snapshot, labels |-> cmd[c].asked.labels,
                context |-> ContextRead(artifacts, Operator(cmd[c].asked))]]

FollowsFirst(entry, history) ==
    history.entries # <<>> =>
        /\ Comparable(Head(history.entries).state.snapshot, entry.state.snapshot, history.policy)
        /\ Head(history.entries).state # entry.state

\* The new state may follow the last one: comparable with it, and not the same.
Follows(entry, history) ==
    history.entries # <<>> =>
        /\ Comparable(Last(history.entries).state.snapshot, entry.state.snapshot, history.policy)
        /\ Last(history.entries).state # entry.state

PolicyAskedLast(request, history) == request.align    \* mutant: every addition sets it

\* The stored policy, or for a new history the one that is asked for.
PolicyOf(request, history) == IF history.status = "whole" THEN history.policy ELSE request.align

\* The context is read, the entry is built and its adjacency is checked.
AppendEntry(c) ==
    /\ At(c, "add", "append")
    /\ IF /\ ContextLoads(artifacts, Operator(cmd[c].asked))
          /\ Follows(NewEntry(c), cmd[c].history)
       THEN Step(c, [cmd[c] EXCEPT !.pc = "write", !.states = <<>>,
                        !.history = Whole(PolicyOf(cmd[c].asked, cmd[c].history),
                                          Append(cmd[c].history.entries, NewEntry(c)))])
       ELSE Fail(c)
    /\ UNCHANGED Disk

WriteInPlace(c) ==
    /\ At(c, "add", "write")
    /\ Step(c, [cmd[c] EXCEPT !.pc = "replace"])
    /\ file' = Damaged
    /\ UNCHANGED <<artifacts, temps, authors, landed, meddled, changes>>

WriteTemporary(c) ==
    /\ At(c, "add", "write")
    /\ Step(c, [cmd[c] EXCEPT !.pc = "replace"])
    /\ temps' = temps \cup {c}
    /\ UNCHANGED <<artifacts, file, authors, landed, meddled, changes>>

ReplaceFile(c) ==
    /\ At(c, "add", "replace")
    /\ file' = cmd[c].history
    /\ temps' = temps \ {c}
    /\ authors' = Append(cmd[c].had, c)
    /\ landed' = Append(landed, [by |-> c, seen |-> cmd[c].seen])
    /\ Step(c, Ended(c, "ok"))
    /\ UNCHANGED <<artifacts, meddled, changes>>

\* The temporary file is removed when it cannot be written or renamed.
WriteFails(c) ==
    /\ cmd[c].pc \in {"write", "replace"}
    /\ temps' = temps \ {c}
    /\ Fail(c)
    /\ UNCHANGED <<artifacts, file, authors, landed, meddled, changes>>

\* `show` refuses an output that is one of its inputs.
Collides(output, history) ==
    \/ output = HistoryPath
    \/ \E n \in DOMAIN history.entries :
        LET operator == history.entries[n].operator
        IN  output \in {operator.snapshot} \cup Range(operator.observations)
                        \cup Range(operator.authority)

Evolve(c) ==
    /\ At(c, "show", "evolve")
    /\ LET query == cmd[c].asked
           result == Transitions(cmd[c].states, query)
       IN  IF ~Answerable(cmd[c].states, query) \/ Collides(query.output, cmd[c].history)
           THEN Fail(c)
           ELSE Step(c, IF query.output = Nothing
                        THEN [Ended(c, "ok") EXCEPT !.result = result]
                        ELSE [cmd[c] EXCEPT !.pc = "output", !.result = result])
    /\ UNCHANGED Disk

WriteEvolution(c) ==
    /\ At(c, "show", "output")
    /\ \/ /\ artifacts' = [artifacts EXCEPT ![cmd[c].asked.output] = EvolutionDocument]
          /\ Step(c, Ended(c, "ok"))
       \/ UNCHANGED artifacts /\ Step(c, [Ended(c, "failed") EXCEPT !.result = <<>>])
    /\ UNCHANGED <<file, temps, authors, landed, meddled, changes>>

Kill(c) ==
    /\ cmd[c].pc \notin {"idle", "ended"}
    /\ Step(c, [Ended(c, "killed") EXCEPT !.result = <<>>])
    /\ UNCHANGED Disk

-----------------------------------------------------------------------------
(* The outside.                                                            *)

ArtifactChanges ==
    /\ changes < MaxChanges
    /\ \E p \in Paths : \E content \in Versions[p] \ {artifacts[p]} :
        artifacts' = [artifacts EXCEPT ![p] = content]
    /\ changes' = changes + 1
    /\ UNCHANGED <<file, temps, cmd, authors, landed, meddled>>

HistoryChanges ==
    /\ changes < MaxChanges /\ file.status = "whole"
    /\ file' \in {Absent, Damaged}
    /\ authors' = <<>> /\ meddled' = TRUE
    /\ changes' = changes + 1
    /\ UNCHANGED <<artifacts, temps, cmd, landed>>

Next ==
    \/ \E c \in Commands :
        \/ StartAdd(c) \/ StartRead(c) \/ ReadSnapshot(c) \/ ReadHistory(c) \/ ResolveHistory(c)
        \/ AppendEntry(c) \/ WriteTemporary(c) \/ ReplaceFile(c) \/ WriteFails(c)
        \/ Evolve(c) \/ WriteEvolution(c) \/ Kill(c)
    \/ ArtifactChanges \/ HistoryChanges

Spec == Init /\ [][Next]_vars

-----------------------------------------------------------------------------
(* Properties.                                                             *)

\* An entry an addition has written stays in the file, in order, unless a
\* later addition read the file before it was written: with no such overlap
\* nothing is lost, whatever fails or is killed (append_history_entry reads
\* the file and replaces it without a lock, history/append.py:146).  The file
\* itself is never half written (io/atomic.py:32).
EntriesAreKept ==
    ~meddled =>
        /\ file.status = (IF landed = <<>> THEN "absent" ELSE "whole")
        /\ Len(file.entries) = Len(authors)
        /\ \A n \in DOMAIN landed :
            \/ Contains(authors, landed[n].by)
            \/ \E m \in n + 1..Len(landed) : ~Contains(landed[m].seen, landed[n].by)
        /\ \A m, n \in DOMAIN authors : m < n =>
            \E k, l \in DOMAIN landed :
                k < l /\ landed[k].by = authors[m] /\ landed[l].by = authors[n]

\* What `add` has written can be read again: while every artifact is still
\* what its entry recorded, the history resolves, and each state follows the
\* one before it.  The policy stays the one the author of its first entry asked
\* for (history/append.py:147), whoever has added to it since, overwritten it,
\* or put it back over a removal.
\* `add` accepts a first snapshot without projecting it
\* (history/append.py:192): the one history that does not resolve is one entry
\* whose snapshot names two objects alike.
AddedHistoriesResolve ==
    LET entries == file.entries
        intact == \A n \in DOMAIN entries : EntryIntact(artifacts, entries[n])
    IN  file.status = "whole" =>
            /\ intact =>
                /\ Resolves(artifacts, file)
                    \/ (Len(entries) = 1 /\ ~Projects(entries[1].state.snapshot))
                /\ \A n \in 1..Len(entries) - 1 : entries[n].state # entries[n + 1].state
            /\ authors # <<>>
            /\ authors[1] \in Commands => file.policy = cmd[authors[1]].asked.align

\* The transitions `show` reports tell one story: the value a property has at
\* the end of a transition is the one it has at the start of the next, and so
\* are the dimensions of its context that are known there
\* (history/evolution.py:82, 236), although the artifacts may have changed
\* since they were read.
TransitionsChain ==
    \A c \in Commands :
        LET told == cmd[c].result
        IN  \A n \in 1..Len(told) - 1 :
            /\ told[n].snapshot.candidate = told[n + 1].snapshot.baseline
            /\ \A x \in told[n].context, y \in told[n + 1].context :
                x.property = y.property =>
                    /\ x.provenance.available[2] = y.provenance.available[1]
                    /\ x.effective.change # <<>> /\ y.effective.change # <<>> =>
                        x.effective.change[2] = y.effective.change[1]
                    /\ x.conflict.change # <<>> /\ y.conflict.change # <<>> =>
                        x.conflict.change[2] = y.conflict.change[1]
====
