---- MODULE RemoteCall ----
(***************************************************************************)
(* What one call of the Collibra adapter promises its caller, whatever the *)
(* attempts, waits and re-authorizations it is made of: a write takes      *)
(* effect at most once, and an error marked as certain means that it did   *)
(* not and never will.  Any other error leaves the effect open: it may     *)
(* even take place afterwards.  "ok" is answered after the effect, or when *)
(* the request was redirected: then it never takes effect, and nothing in  *)
(* the verdict tells the caller so.                                        *)
(***************************************************************************)
EXTENDS Integers

VARIABLES
    write,     \* TRUE for POST, PATCH, PUT and DELETE
    effects,   \* how often a write took effect; 0 for a read
    verdict,   \* "pending", "ok", "no_effect" or "unknown"
    redirected \* "ok" was answered for a redirection, which the caller cannot see

vars == <<write, effects, verdict, redirected>>

Init == write \in BOOLEAN /\ effects = 0 /\ verdict = "pending" /\ redirected = FALSE

TakeEffect ==
    /\ write /\ effects = 0
    /\ verdict \in {"pending", "unknown"}
    /\ effects' = 1
    /\ UNCHANGED <<write, verdict, redirected>>

Return ==
    /\ verdict = "pending"
    /\ \/ verdict' = "ok" /\ (write => effects = 1) /\ UNCHANGED redirected
       \/ verdict' = "ok" /\ effects = 0 /\ redirected' = TRUE
       \/ verdict' = "no_effect" /\ effects = 0 /\ UNCHANGED redirected
       \/ verdict' = "unknown" /\ UNCHANGED redirected
    /\ UNCHANGED <<write, effects>>

Next == TakeEffect \/ Return

\* Every call returns.
Spec == Init /\ [][Next]_vars /\ WF_vars(Return)
====
