---- MODULE MCSavedPlanApply ----
(***************************************************************************)
(* The worlds two runs start in: one asset with changes from outside, and  *)
(* two assets, one without evidence, with a plan applied again.            *)
(***************************************************************************)
EXTENDS SavedPlanApply

Titled(v, d) == [p \in Properties |-> IF p = DisplayName THEN v ELSE d]
Managed(has) == [exists |-> TRUE, managed |-> TRUE, has |-> has]

World(base, evidence, assets) ==
    [base |-> base, evidence |-> evidence, policy |-> {}, settings |-> "s1", target |-> "t1",
     tenant |-> [t \in Targets |-> IF t = "t1" THEN assets ELSE [a \in Assets |-> Gone]]]

mcEvidence == {NoDecision, Unsafe, Safe(None), Safe("v")}

\* The model, the evidence and the remote description of the asset vary.
mcOneAsset ==
    {World(<<Titled("u", b)>>, <<Titled(NoDecision, d)>>, <<r>>) :
        b \in {"u", None}, d \in mcEvidence,
        r \in {Gone} \cup {Managed(Titled("v", y)) : y \in {None, "u"}}}

\* The second asset is missing, or equal to its model.
mcTwoAssets ==
    {World(<<Titled("u", b), Titled("u", "u")>>,
           <<Titled(d, d), Titled(NoDecision, NoDecision)>>, <<r, s>>) :
        b \in {"u", None}, d \in mcEvidence,
        r \in {Gone} \cup {Managed(Titled(x, y)) : x \in {"u", "v"}, y \in {None, "u"}},
        s \in {Gone, Managed(Titled("u", "u"))}}
====
