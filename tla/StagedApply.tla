---- MODULE StagedApply ----
(***************************************************************************)
(* What an execution of a compiled plan promises the owner of the tenant,  *)
(* without jobs, requests or observations: the stages of the plan take     *)
(* effect strictly one after the other, a stage is opened only when the    *)
(* previous one is complete and no verdict was given, and the verdict      *)
(* "success" is given only when every stage is complete.  The stage that   *)
(* was open when another verdict was given may still take effect later.    *)
(***************************************************************************)
EXTENDS Integers

CONSTANTS N, Cut
\* N \in Nat and Cut an increasing function from 0..N to Nat with Cut[0] = 0, as
\* SyncLifecycle assumes of its own constants.

Stage(k) == (Cut[k-1] + 1)..Cut[k]

VARIABLES
    last,      \* the number of stages of the plan
    open,      \* the last stage opened, 0 before the first
    effects,   \* commands that have taken effect
    verdict    \* "pending", "success", or "no_claim"

vars == <<last, open, effects, verdict>>

Init == last \in 0..N /\ open = 0 /\ effects = {} /\ verdict = "pending"

OpenStage ==
    /\ verdict = "pending"
    /\ open < last
    /\ open > 0 => Stage(open) \subseteq effects
    /\ open' = open + 1
    /\ UNCHANGED <<last, effects, verdict>>

TakeEffect(part) ==
    /\ open > 0
    /\ part \subseteq Stage(open)
    /\ effects' = effects \cup part
    /\ UNCHANGED <<last, open, verdict>>

Succeed ==
    /\ verdict = "pending"
    /\ effects = 1..Cut[last]
    /\ verdict' = "success"
    /\ UNCHANGED <<last, open, effects>>

GiveUp ==
    /\ verdict = "pending"
    /\ verdict' = "no_claim"
    /\ UNCHANGED <<last, open, effects>>

Next == OpenStage \/ Succeed \/ GiveUp
        \/ \E k \in 1..N : \E part \in SUBSET Stage(k) : TakeEffect(part)

\* Some verdict is always given.
Spec == Init /\ [][Next]_vars /\ WF_vars(Succeed \/ GiveUp)
====
