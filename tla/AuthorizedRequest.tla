---- MODULE AuthorizedRequest ----
(***************************************************************************)
(* The call of HttpRequest with the token it carries                       *)
(* (integrations/collibra/auth.py): taken from the cache or fetched for    *)
(* every call of the executor, kept through all its attempts, and dropped  *)
(* from the cache when the server refuses it.                              *)
(*                                                                         *)
(* Every action is one of HttpRequest, with what it means for the token.   *)
(* The server (external) may refuse a token when it has expired, and may   *)
(* revoke one at any time.                                                 *)
(***************************************************************************)
EXTENDS HttpRequest, Sequences

CONSTANTS
    Lifetimes,      \* the expires_in a token may come with
    DefaultSkew     \* DEFAULT_SKEW_SECONDS

\* A token lives longer than it takes to fetch it.
ASSUME LifetimesAssumption ==
    Lifetimes \subseteq Nat /\ (\A ttl \in Lifetimes : ttl > Slow) /\ DefaultSkew \in Nat

VARIABLES
    token,          \* the latest: its number, its lifetime, its age up to that
    cached,         \* it is in the cache
    refusals        \* the tokens this call was refused for, and why (history)

tokens == <<token, cached, refusals>>
authVars == <<vars, tokens>>

NoToken == [number |-> 0, ttl |-> 0, age |-> 0]

\* An earlier call may have left a token of any age.
InitAuth ==
    /\ Init
    /\ \/ token = NoToken /\ cached = FALSE
       \/ /\ oauth /\ cached = TRUE
          /\ \E ttl \in Lifetimes : \E age \in 0..ttl :
                token = [number |-> 0, ttl |-> ttl, age |-> age]
    /\ refusals = <<>>

-----------------------------------------------------------------------------

\* effective_skew_seconds: a tenth of the lifetime at most.
EffectiveSkew(ttl) == IF 10 * DefaultSkew < ttl THEN DefaultSkew ELSE ttl \div 10

ReusedWhenCached == cached          \* mutant: the lifetime is not looked at

Reusable == cached /\ token.age < token.ttl - EffectiveSkew(token.ttl)

\* get_access_token.  The age of a token counts from before its request.
GetAccessToken ==
    IF ~oauth \/ Reusable THEN UNCHANGED tokens
    ELSE /\ \E ttl \in Lifetimes, age \in 0..Slow :
               token' = [number |-> token.number + 1, ttl |-> ttl, age |-> age]
         /\ cached' = TRUE
         /\ UNCHANGED refusals

Older ==
    LET age == token.age + (elapsed' - elapsed)
    IN  [token EXCEPT !.age = IF age < token.ttl THEN age ELSE token.ttl]

KeptInCache == UNCHANGED cached     \* mutant: the next call finds it again

Invalidate == cached' = FALSE

\* A 401 for the token.
Refused(d) ==
    \E why \in {"revoked"} \cup (IF token.age + d >= token.ttl THEN {"expired"} ELSE {}) :
        refusals' = Append(refusals, [number |-> token.number, ttl |-> token.ttl, why |-> why])

AuthorizeWithToken == Authorize /\ GetAccessToken

TokenFails == AuthorizeFails /\ ~Reusable /\ UNCHANGED tokens

SendWithToken == Send /\ UNCHANGED tokens

TokenRefused(d) ==
    /\ Unauthorized(d)
    /\ Refused(d) /\ Invalidate /\ token' = Older

\* The second refusal of a call is an error like any other 4xx.
RefusedAgain(d) ==
    /\ Rejected(d) /\ oauth /\ retried_oauth
    /\ Refused(d) /\ token' = Older /\ UNCHANGED cached

TokenAccepted(d) ==
    /\ \/ ConnectFails(d) \/ TimesOut(d) \/ TransportBreaks(d) \/ RateLimited(d)
       \/ ServerError(d) \/ Rejected(d) \/ Answered(d) \/ Malformed(d)
       \/ Redirected(d)
    /\ token' = Older /\ UNCHANGED <<cached, refusals>>

AuthClient ==
    \/ AuthorizeWithToken \/ TokenFails \/ SendWithToken
    \/ \E d \in 0..Slow : TokenRefused(d) \/ RefusedAgain(d) \/ TokenAccepted(d)

NextAuth ==
    \/ AuthClient
    \/ \E i \in Sends : (ServerActs(i) \/ NetworkLoses(i)) /\ UNCHANGED tokens
    \/ Terminated /\ UNCHANGED tokens

AuthSpec == InitAuth /\ [][NextAuth]_authVars /\ WF_authVars(AuthClient)

-----------------------------------------------------------------------------

\* A call never starts with a token that has expired, never sends a token
\* again that was refused, and never fails for a token that expired while it
\* was waiting, if tokens outlive a retry window: what is refused in spite of
\* the renewal was revoked.
\* (get_access_token, invalidate and the retry of _request.)
TokensAreRenewed ==
    /\ oauth /\ pc = "attempt" /\ attempt = 1 => token.age < token.ttl
    /\ \A m, n \in DOMAIN refusals : refusals[m].number = refusals[n].number => m = n
    /\ Len(refusals) = 2 /\ refusals[2].why = "expired" =>
           refusals[2].ttl <= MaxElapsed + 2 * Slow
====
