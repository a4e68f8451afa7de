---- MODULE CoreRestSync ----
(***************************************************************************)
(* The core_rest execution mode: runs of `governance sync --apply`, each   *)
(* reading the managed remote state (integrations/collibra/live.py),       *)
(* planning against the desired state and executing the plan call by call  *)
(* (integrations/collibra/sync.py), and started again after a failure.     *)
(*                                                                         *)
(* An asset is managed through its local_id attribute alone.  A write is   *)
(* one RemoteCall: it may be refused, or end with its effect unknown, and  *)
(* may then still take effect during a later run; no write is redirected,  *)
(* which the caller of a RemoteCall could not tell from success.           *)
(*                                                                         *)
(* The desired model stays the same through the runs of a behaviour: the   *)
(* governed files are scanned anew by each run, and are taken to be left   *)
(* alone until the tenant follows them.  The reading takes many            *)
(* requests: the assets of each type page by page, then the attributes of  *)
(* each asset, while such writes land and other clients create and delete  *)
(* unmanaged assets.                                                       *)
(*                                                                         *)
(* The fields of an asset: id is the value of its local_id attribute, as   *)
(* the local id whose full name it bears, name its header (name and        *)
(* displayName) and desc every other managed attribute.                    *)
(***************************************************************************)
EXTENDS Integers, Sequences, FiniteSets

CONSTANTS
    Assets,        \* local ids: a set of positive integers
    Edges,         \* pairs of local ids the model may relate
    CreateRank,    \* the order of asset creations (by kind, then local id)
    UpdateRank,    \* the order of updates (by local id)
    Types,         \* the number of asset types
    TypeOf,        \* the type of an asset, by local id
    PageSize,      \* of a listing (_page_size)
    MaxPages,      \* MAX_PAGINATION_PAGES
    Remotes,       \* remote ids: a set of positive integers (bound)
    Initial,       \* the tenant's assets a behaviour may start with
    MaxRuns,       \* bound on the runs
    MaxChanges     \* bound on the changes by other clients

Nobody == 0                       \* no local id, or no remote id
Absent == [id |-> Nobody, as |-> Nobody, name |-> "none", desc |-> "none"]
Gone == [Absent EXCEPT !.name = "gone"]      \* remote ids are not used again
Objects == {o \in [id : Assets \cup {Nobody}, as : Assets,
                   name : {"old", "new"}, desc : {"none", "old", "new"}] : o.id \in {Nobody, o.as}}

Unmanaged(a) == [id |-> Nobody, as |-> a, name |-> "old", desc |-> "old"]

ASSUME RankAssumption ==
    /\ Assets \subseteq Nat \ {0} /\ Edges \subseteq Assets \X Assets
    /\ CreateRank \in [Assets -> Nat] /\ UpdateRank \in [Assets -> Nat]
ASSUME ListingAssumption ==
    /\ Types \in Nat \ {0} /\ TypeOf \in [Assets -> 1..Types]
    /\ PageSize \in Nat \ {0} /\ MaxPages \in Nat /\ MaxRuns \in Nat /\ MaxChanges \in Nat
\* The tenant starts with at most one asset per local id.
ASSUME InitialAssumption ==
    /\ Remotes \subseteq Nat \ {0} /\ IsFiniteSet(Remotes)
    /\ \A state \in Initial :
          /\ state \in [Remotes -> Objects \cup {Absent}]
          /\ \A r, s \in Remotes : state[r].id = state[s].id => r = s \/ state[r].id = Nobody
          /\ \A r \in Remotes : state[r].id = Nobody =>
                state[r] \in {Absent} \cup {Unmanaged(a) : a \in Assets}

VARIABLES
    desired,   \* by local id: "out" of the model, or the description it wants; constant
    remote,    \* the tenant's assets, by remote id
    links,     \* the tenant's relations: pairs of remote ids
    late,      \* writes whose effect is unknown
    pc,        \* where the run is
    kind,      \* the type being listed
    offset,    \* of the next page
    listed,    \* the assets listed whose attributes are not read yet, else Absent
    seen,      \* the assets read; Absent where there is none, or no managed one
    todo,      \* the mutating actions of the plan not applied yet
    action,    \* the action being executed; failed_action after a failure
    calls,     \* the calls left of it
    ids,       \* local_to_remote
    applied,   \* the actions applied; applied_count is their number
    outcome,   \* of the run
    runs,      \* runs started
    changes,   \* the changes by other clients
    foreign,   \* the unmanaged assets of other clients (history)
    doubted,   \* local ids whose attribute was once written with unknown effect (history)
    shifted    \* types of which a listed asset was deleted during their listing (history)

constants == desired
tenant == <<remote, links>>
others == <<foreign, changes, shifted>>
listing == <<kind, offset, listed>>
vars == <<constants, tenant, others, late, pc, listing, seen, todo, action, calls, ids,
          applied, outcome, runs, doubted>>

NoAction == <<"none", Nobody>>
Actions == ({"create", "update"} \X Assets) \cup ({"link"} \X Edges)
Call(op, r, of) == [op |-> op, at |-> r, of |-> of]

Exists(r) == remote[r] \notin {Absent, Gone}

Init ==
    /\ desired \in [Assets -> {"out", "none", "new"}]
    /\ remote \in Initial
    /\ links = {}
    /\ foreign = {r \in Remotes : Exists(r) /\ remote[r].id = Nobody}
    /\ late = {} /\ doubted = {} /\ changes = 0 /\ shifted = {}
    /\ pc = "list" /\ outcome = "none" /\ runs = 1
    /\ kind = 1 /\ offset = 0 /\ listed = [r \in Remotes |-> Absent]
    /\ seen = [r \in Remotes |-> Absent]
    /\ todo = {} /\ action = NoAction /\ calls = <<>> /\ applied = {}
    /\ ids = [a \in Assets |-> Nobody]

-----------------------------------------------------------------------------
(* Planning.                                                               *)

InModel(a) == desired[a] # "out"
Wanted == {e \in Edges : InModel(e[1]) /\ InModel(e[2])}

\* The remote asset a local id is matched with: the last one read.
Match(state, a) ==
    LET managed == {r \in Remotes : state[r].id = a}
    IN  IF managed = {} THEN Nobody ELSE CHOOSE r \in managed : \A s \in managed : s <= r

DiffersInName(state, a) ==          \* mutant: compares the header only
    Match(state, a) # Nobody /\ state[Match(state, a)].name # "new"

\* _asset_changed_fields.
Differs(state, a) ==
    LET r == Match(state, a)
    IN  r # Nobody /\ (state[r].name # "new" \/ state[r].desc # desired[a])

Linked(state, relations) ==
    {e \in Edges : \E l \in relations : state[l[1]].id = e[1] /\ state[l[2]].id = e[2]}

\* build_sync_plan, without UNCHANGED and REMOTE_ONLY; never a deletion.
PlanOf(state, relations) ==
    {<<"create", a>> : a \in {b \in Assets : InModel(b) /\ Match(state, b) = Nobody}}
    \cup {<<"update", a>> : a \in {b \in Assets : InModel(b) /\ Differs(state, b)}}
    \cup {<<"link", e>> : e \in Wanted \ Linked(state, relations)}

-----------------------------------------------------------------------------
(* Reading.                                                                *)

\* The tenant lists the assets of a type in one order, which nobody changes.
OfType(t) == {r \in Remotes : Exists(r) /\ TypeOf[remote[r].as] = t}
Place(r, t) == Cardinality({s \in OfType(t) : s < r})
Page == {r \in OfType(kind) : Place(r, kind) \in offset..offset + PageSize - 1}

\* What an item of a listing says of its asset.
Header(r) == [remote[r] EXCEPT !.id = Nobody, !.desc = "none"]

FirstPageOnly ==                    \* mutant: a full page is taken for the last
    /\ pc = "list"
    /\ listed' = [r \in Remotes |-> IF r \in Page THEN Header(r) ELSE listed[r]]
    /\ kind' = kind + 1 /\ offset' = 0
    /\ pc' = IF kind = Types THEN "attributes" ELSE "list"
    /\ UNCHANGED <<constants, tenant, others, late, seen, todo, action, calls, ids, applied,
                   outcome, runs, doubted>>

\* _paginate, for one type after the other: a page that is not full is the last.
ListPage ==
    /\ pc = "list" /\ offset < PageSize * MaxPages
    /\ listed' = [r \in Remotes |-> IF r \in Page THEN Header(r) ELSE listed[r]]
    /\ IF Cardinality(Page) = PageSize
       THEN offset' = offset + PageSize /\ UNCHANGED <<kind, pc>>
       ELSE /\ kind' = kind + 1 /\ offset' = 0
            /\ pc' = IF kind = Types THEN "attributes" ELSE "list"
    /\ UNCHANGED <<constants, tenant, others, late, seen, todo, action, calls, ids, applied,
                   outcome, runs, doubted>>

AdoptedByName(r) ==                 \* mutant: manages assets by their name
    IF Exists(r) THEN [remote[r] EXCEPT !.id = remote[r].as, !.name = listed[r].name] ELSE Absent

\* An asset in scope is managed if it carries a local_id; its name is the listed
\* one, its attributes are those of now.
AsRead(r) ==
    IF remote[r].id # Nobody THEN [remote[r] EXCEPT !.name = listed[r].name] ELSE Absent

\* An asset listed twice is read twice, at the place of its remote id.
ReadAttributes(r) ==
    /\ pc = "attributes" /\ listed[r] # Absent
    /\ \A s \in Remotes : listed[s] # Absent => r <= s
    /\ seen' = [seen EXCEPT ![r] = AsRead(r)]
    /\ listed' = [listed EXCEPT ![r] = Absent]
    /\ UNCHANGED <<constants, tenant, others, late, pc, kind, offset, todo, action, calls, ids,
                   applied, outcome, runs, doubted>>

\* After the attributes of all assets the relations between them; the plan
\* follows at once.
ReadRelationsAndPlan ==
    /\ pc = "attributes" /\ \A r \in Remotes : listed[r] = Absent
    /\ todo' = PlanOf(seen, links)
    /\ ids' = [a \in Assets |-> Match(seen, a)]
    /\ pc' = "execute"
    /\ UNCHANGED <<constants, tenant, others, late, listing, seen, action, calls, applied,
                   outcome, runs, doubted>>

Fail == pc' = "done" /\ outcome' = "failure"

\* A request fails, or a listing has more than MaxPages pages: a listing is
\* complete or none.
ReadFails ==
    /\ pc \in {"list", "attributes"}
    /\ Fail
    /\ UNCHANGED <<constants, tenant, others, late, listing, seen, todo, action, calls, ids,
                   applied, runs, doubted>>

-----------------------------------------------------------------------------
(* Executing.                                                              *)

\* _ordered_mutating_actions: creations, updates, then relations.
Before(x, y) ==
    \/ x[1] = "create" /\ y[1] # "create"
    \/ x[1] = "update" /\ y[1] = "link"
    \/ x[1] = "create" /\ y[1] = "create" /\ CreateRank[x[2]] < CreateRank[y[2]]
    \/ x[1] = "update" /\ y[1] = "update" /\ UpdateRank[x[2]] < UpdateRank[y[2]]

\* The first calls of an action; the others follow from the answers.
FirstCalls(x) ==
    CASE x[1] = "create" -> <<Call("create", Nobody, x[2])>>
      [] x[1] = "update" ->
            LET r == ids[x[2]]
            IN  IF seen[r].name = "new" THEN <<Call("list", r, x[2])>>
                ELSE <<Call("name", r, x[2]), Call("list", r, x[2])>>
      [] x[1] = "link" -> <<Call("link", <<ids[x[2][1]], ids[x[2][2]]>>, x[2])>>

\* create_asset posts the attributes of the new asset in the order of their
\* types, which is the tenant's.
AttributeCalls(r, a) ==
    IF desired[a] = "new"
    THEN {<<Call("id", r, a), Call("desc", r, a)>>, <<Call("desc", r, a), Call("id", r, a)>>}
    ELSE {<<Call("id", r, a)>>}

\* Both ends of a planned relation are in the model, so they were matched or
\* created: the code's error for unresolved endpoints is never raised.
Begin(x) ==
    /\ pc = "execute" /\ x \in todo
    /\ \A y \in todo : ~Before(y, x)
    /\ action' = x
    /\ calls' = FirstCalls(x)
    /\ pc' = "calling"
    /\ UNCHANGED <<constants, tenant, others, late, listing, seen, todo, ids, applied, outcome, runs, doubted>>

\* The effect of a write; a creation takes the remote id r.
Effect(w, r) ==
    /\ w.op = "create" =>
          /\ r \in Remotes /\ remote[r] = Absent
          /\ remote' = [remote EXCEPT ![r] =
                [id |-> Nobody, as |-> w.of, name |-> "new", desc |-> "none"]]
    /\ w.op = "name" => remote' = [remote EXCEPT ![w.at].name = "new"]
    /\ w.op = "id"   => remote' = [remote EXCEPT ![w.at].id = w.of]
    /\ w.op = "desc" => remote' = [remote EXCEPT ![w.at].desc = "new"]
    /\ w.op = "link" => links' = links \cup {w.at} /\ UNCHANGED remote
    /\ w.op # "link" => UNCHANGED links

Calling == pc = "calling" /\ calls # <<>>
IsWrite == Calling /\ Head(calls).op # "list"

CallCreates(r) ==
    /\ Calling /\ Head(calls).op = "create"
    /\ Effect(Head(calls), r)
    /\ calls' \in AttributeCalls(r, Head(calls).of)
    /\ ids' = [ids EXCEPT ![Head(calls).of] = r]
    /\ UNCHANGED <<constants, others, late, pc, listing, seen, todo, action, applied, outcome, runs, doubted>>

CallSucceeds ==
    /\ IsWrite /\ Head(calls).op # "create"
    /\ Effect(Head(calls), Nobody)
    /\ calls' = Tail(calls)
    /\ UNCHANGED <<constants, others, late, pc, listing, seen, todo, action, ids, applied, outcome, runs, doubted>>

ListPatchesOnly ==                  \* mutant: a missing attribute is not created
    /\ Calling /\ Head(calls).op = "list"
    /\ LET r == Head(calls).at
           a == Head(calls).of
       IN  calls' = IF desired[a] = "new" /\ remote[r].desc = "old"
                    THEN <<Call("desc", r, a)>> ELSE <<>>
    /\ UNCHANGED <<constants, tenant, others, late, pc, listing, seen, todo, action, ids, applied, outcome, runs, doubted>>

\* update_asset reads the attributes again, and creates or patches the one that
\* is missing or differs; an attribute the model does not want stays.
ListSucceeds ==
    /\ Calling /\ Head(calls).op = "list"
    /\ LET r == Head(calls).at
           a == Head(calls).of
       IN  calls' = IF desired[a] = "new" /\ remote[r].desc # "new"
                    THEN <<Call("desc", r, a)>> ELSE <<>>
    /\ UNCHANGED <<constants, tenant, others, late, pc, listing, seen, todo, action, ids, applied, outcome, runs, doubted>>

UnknownIsIgnored ==              \* mutant: an unknown effect counts as done
    /\ IsWrite /\ Head(calls).op # "create"
    /\ late' = late \cup {Head(calls)}
    /\ calls' = Tail(calls)
    /\ UNCHANGED <<constants, tenant, others, pc, listing, seen, todo, action, ids, applied, outcome, runs, doubted>>

\* The call raised an adapter error: the run stops at this action, without
\* repairing or taking back what the action already did.
CallFails ==
    /\ Calling
    /\ Fail
    /\ UNCHANGED <<constants, tenant, others, late, listing, seen, todo, action, calls, ids, applied, runs, doubted>>

CallUnknown ==
    /\ IsWrite
    /\ late' = late \cup {Head(calls)}
    /\ doubted' = IF Head(calls).op = "id" THEN doubted \cup {Head(calls).of} ELSE doubted
    /\ Fail
    /\ UNCHANGED <<constants, tenant, others, listing, seen, todo, action, calls, ids, applied, runs>>

ActionApplied ==
    /\ pc = "calling" /\ calls = <<>>
    /\ applied' = applied \cup {action}
    /\ todo' = todo \ {action}
    /\ action' = NoAction
    /\ pc' = "execute"
    /\ UNCHANGED <<constants, tenant, others, late, listing, seen, calls, ids, outcome, runs, doubted>>

RunSucceeds ==
    /\ pc = "execute" /\ todo = {}
    /\ pc' = "done" /\ outcome' = "success"
    /\ UNCHANGED <<constants, tenant, others, late, listing, seen, todo, action, calls, ids, applied, runs, doubted>>

\* The same model is applied once more.
RunAgain ==
    /\ pc = "done" /\ runs < MaxRuns
    /\ pc' = "list" /\ outcome' = "none" /\ runs' = runs + 1
    /\ kind' = 1 /\ offset' = 0 /\ listed' = [r \in Remotes |-> Absent]
    /\ seen' = [r \in Remotes |-> Absent]
    /\ todo' = {} /\ action' = NoAction /\ calls' = <<>> /\ applied' = {}
    /\ UNCHANGED <<constants, tenant, others, late, ids, doubted>>

-----------------------------------------------------------------------------
(* The network (external): a write of unknown effect lands, or is lost.    *)
(* Other clients (external) create and delete assets of their own.         *)

Lands(w, r) ==
    /\ w \in late
    /\ (r = Nobody) = (w.op # "create")
    /\ Effect(w, r)
    /\ late' = late \ {w}
    /\ UNCHANGED <<constants, others, pc, listing, seen, todo, action, calls, ids, applied, outcome, runs, doubted>>

IsLost(w) ==
    /\ w \in late
    /\ late' = late \ {w}
    /\ UNCHANGED <<constants, tenant, others, pc, listing, seen, todo, action, calls, ids, applied, outcome, runs, doubted>>

OtherCreates(r, a) ==
    /\ changes < MaxChanges /\ remote[r] = Absent
    /\ remote' = [remote EXCEPT ![r] = Unmanaged(a)]
    /\ foreign' = foreign \cup {r}
    /\ changes' = changes + 1
    /\ UNCHANGED <<constants, links, shifted, late, pc, listing, seen, todo, action, calls, ids,
                   applied, outcome, runs, doubted>>

\* The assets after the deleted one move up; a listing that is past it misses one.
OtherDeletes(r) ==
    LET t == TypeOf[remote[r].as]
    IN  /\ changes < MaxChanges /\ r \in foreign
        /\ remote' = [remote EXCEPT ![r] = Gone]
        /\ foreign' = foreign \ {r}
        /\ changes' = changes + 1
        /\ shifted' = IF pc = "list" /\ kind = t /\ Place(r, t) < offset
                      THEN shifted \cup {t} ELSE shifted
        /\ UNCHANGED <<constants, links, late, pc, listing, seen, todo, action, calls, ids,
                       applied, outcome, runs, doubted>>

-----------------------------------------------------------------------------

Run == \/ ListPage \/ (\E r \in Remotes : ReadAttributes(r))
       \/ ReadRelationsAndPlan \/ ReadFails
       \/ \E x \in todo : Begin(x)
       \/ \E r \in Remotes : CallCreates(r)
       \/ CallSucceeds \/ ListSucceeds \/ CallFails \/ CallUnknown
       \/ ActionApplied \/ RunSucceeds

Network == \E w \in late : IsLost(w) \/ \E r \in Remotes \cup {Nobody} : Lands(w, r)

Others == \E r \in Remotes : OtherDeletes(r) \/ \E a \in Assets : OtherCreates(r, a)

Terminated == pc = "done" /\ late = {} /\ UNCHANGED vars

Next == Run \/ RunAgain \/ Network \/ Others \/ Terminated

\* Within a run every call returns (RemoteCall); nobody has to start a run again.
Spec == Init /\ [][Next]_vars /\ WF_vars(Run)

-----------------------------------------------------------------------------
(* Properties.                                                             *)

Managed(a) == {r \in Remotes : remote[r].id = a}

\* What the model wants of an asset, and of an edge, is in the tenant.
AssetDone(a) == \E r \in Managed(a) : /\ remote[r].name = "new"
                                      /\ desired[a] = "new" => remote[r].desc = "new"
EdgeDone(e) == \E l \in links : l[1] \in Managed(e[1]) /\ l[2] \in Managed(e[2])

Done(x) == IF x[1] = "link" THEN EdgeDone(x[2]) ELSE AssetDone(x[2])

\* applied_count counts complete actions only, in a failed run too: a counted
\* creation has all its attributes and a counted update all its fields, whatever
\* call failed and whatever lands late; and nothing counted is still to do.
AppliedIsDone == (\A x \in applied : Done(x)) /\ applied \cap todo = {}

\* A run that reports success leaves the tenant with everything the model wants,
\* even after failed runs and writes of them that landed in between.
SuccessMeansConverged ==
    outcome = "success" =>
        /\ \A a \in Assets : InModel(a) => AssetDone(a)
        /\ \A e \in Wanted : EdgeDone(e)

\* After a success the next plan is empty, but for updates that can never end:
\* a managed attribute the model does not want is a difference for
\* _asset_changed_fields, and no call of update_asset removes it.
Quiet == late = {} /\ \A a \in Assets : \A r, s \in Managed(a) : r = s
RerunPlansNothing ==
    outcome = "success" /\ Quiet =>
        \A x \in PlanOf(remote, links) :
            /\ x[1] = "update"
            /\ desired[x[2]] = "none"
            /\ remote[Match(remote, x[2])].desc # "none"

\* Two assets carry the same local id only after a write of that very attribute
\* ended with its effect unknown, or after somebody deleted an asset of the type
\* from the pages already read while the rest was still to be listed: no other
\* failure, at whatever call, and no creation makes a later run duplicate a
\* managed asset (_paginate, live.py:576).
DuplicateOnlyAfterDoubt ==
    \A a \in Assets : \A r, s \in Managed(a) :
        r # s => a \in doubted \/ TypeOf[a] \in shifted

\* An asset of another client is never adopted, changed or related, whatever
\* name it bears.
ForeignUntouched ==
    \A r \in foreign : /\ remote[r] \in {Unmanaged(a) : a \in Assets}
                       /\ \A l \in links : r \notin {l[1], l[2]}
====
