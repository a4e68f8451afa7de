---- MODULE HttpRequest ----
(***************************************************************************)
(* One call of LiveCollibraAdapter._request (integrations/collibra/live.py)*)
(* over CollibraHttpExecutor.request (integrations/collibra/http.py): the  *)
(* attempts, the back-off inside the retry window, and the single          *)
(* re-authorization after a 401.                                           *)
(*                                                                         *)
(* Time is counted in whole units from the start of the executor's call.   *)
(* It passes during an attempt and during a wait; the few instructions     *)
(* between two readings of the clock take no time.                         *)
(***************************************************************************)
EXTENDS Integers, FiniteSets

CONSTANTS
    MaxAttempts,    \* RetryPolicy.max_attempts
    MaxElapsed,     \* RetryPolicy.max_elapsed_seconds
    Backoff,        \* RetryPolicy.backoff_seconds, by failed attempt
    RetryAfter,     \* the delays a Retry-After header may ask for
    Slow            \* the longest attempt (the timeouts of httpx)

ASSUME PolicyAssumption ==
    /\ MaxAttempts \in Nat \ {0}
    /\ MaxElapsed \in Nat \ {0}
    /\ Backoff \in [1..MaxAttempts -> Nat]
    /\ RetryAfter \subseteq Nat
    /\ Slow \in Nat

Sends == 1..(2 * MaxAttempts)     \* the copies of the request one call may send

\* What may become of a copy.
Fates == {"unsent", "travelling", "acted", "refused", "redirected", "not_sent", "lost"}

VARIABLES
    isWrite,        \* the method is POST, PATCH, PUT or DELETE
    oauth,          \* auth_mode is "oauth": a 401 renews the token once
    pc,             \* where the call is
    retried_oauth,  \* the token was renewed
    attempt,        \* attempts of the executor's call
    elapsed,        \* time since the executor's call started
    sent,           \* copies sent so far
    copy,           \* what became of each copy
    result,         \* "pending", "ok", or "error"
    exhausted       \* CollibraAdapterError.exhausted

call == <<isWrite, oauth>>
client == <<pc, retried_oauth, attempt, elapsed, sent, result, exhausted>>
vars == <<call, client, copy>>

TypeOK ==
    /\ isWrite \in BOOLEAN /\ oauth \in BOOLEAN
    /\ pc \in {"authorize", "attempt", "sent", "done"}
    /\ retried_oauth \in BOOLEAN
    /\ attempt \in 0..MaxAttempts
    /\ elapsed \in Nat
    /\ sent \in Sends \cup {0}
    /\ copy \in [Sends -> Fates]
    /\ result \in {"pending", "ok", "error"}
    /\ exhausted \in BOOLEAN

Init ==
    /\ isWrite \in BOOLEAN /\ oauth \in BOOLEAN
    /\ pc = "authorize"
    /\ retried_oauth = FALSE
    /\ attempt = 0
    /\ elapsed = 0
    /\ sent = 0
    /\ copy = [i \in Sends |-> "unsent"]
    /\ result = "pending"
    /\ exhausted = FALSE

-----------------------------------------------------------------------------
(* How an attempt that ended at time e goes on.                            *)

AttemptsUnlimited(e) == e < MaxElapsed         \* mutant: no bound on the attempts

ShouldRetry(e) == attempt < MaxAttempts /\ e < MaxElapsed

UncappedWait(delay, e) == delay                \* mutant: Retry-After is obeyed

\* _cap_delay: never past the end of the retry window.
CapDelay(delay, e) == IF delay < MaxElapsed - e THEN delay ELSE MaxElapsed - e

Raise(e, ex) ==
    /\ pc' = "done" /\ result' = "error" /\ exhausted' = ex
    /\ elapsed' = e
    /\ UNCHANGED <<call, retried_oauth, attempt, sent>>

RetryOrRaise(e, delay) ==
    \/ ~ShouldRetry(e) /\ Raise(e, TRUE)
    \/ /\ ShouldRetry(e)
       /\ pc' = "attempt"
       /\ attempt' = attempt + 1
       /\ elapsed' = e + CapDelay(delay, e)
       /\ UNCHANGED <<call, retried_oauth, sent, result, exhausted>>

\* The fate of the copy just sent.
Current(fate) == sent > 0 /\ copy[sent] = fate
Becomes(fate) == Current("travelling") /\ copy' = [copy EXCEPT ![sent] = fate]

-----------------------------------------------------------------------------
(* The call.  Each outcome of an attempt takes d units of time.            *)

\* The authorization header is computed anew for every call of the executor.
Authorize ==
    /\ pc = "authorize"
    /\ pc' = "attempt" /\ attempt' = 1 /\ elapsed' = 0
    /\ UNCHANGED <<call, retried_oauth, sent, copy, result, exhausted>>

\* get_access_token had to fetch a token, and could not.
AuthorizeFails ==
    /\ pc = "authorize" /\ oauth
    /\ Raise(elapsed, FALSE)
    /\ UNCHANGED copy

Send ==
    /\ pc = "attempt"
    /\ pc' = "sent" /\ sent' = sent + 1
    /\ copy' = [copy EXCEPT ![sent'] = "travelling"]
    /\ UNCHANGED <<call, retried_oauth, attempt, elapsed, result, exhausted>>

\* ConnectError, ConnectTimeout: nothing was sent.  Retried for writes too.
ConnectFails(d) ==
    /\ pc = "sent"
    /\ Becomes("not_sent")
    /\ RetryOrRaise(elapsed + d, Backoff[attempt])

TimesOutIsRetried(d) ==          \* mutant: writes too
    /\ pc = "sent"
    /\ RetryOrRaise(elapsed + d, Backoff[attempt])
    /\ UNCHANGED copy

\* ReadTimeout, WriteTimeout, PoolTimeout: the copy may have arrived.
TimesOut(d) ==
    /\ pc = "sent"
    /\ \/ isWrite /\ Raise(elapsed + d, FALSE)
       \/ ~isWrite /\ RetryOrRaise(elapsed + d, Backoff[attempt])
    /\ UNCHANGED copy

\* Any other httpx.HTTPError.
TransportBreaks(d) ==
    /\ pc = "sent"
    /\ Raise(elapsed + d, FALSE)
    /\ UNCHANGED copy

\* 429, for writes too: the delay is the Retry-After header's, or the back-off
\* when the header is absent or malformed.
RateLimited(d) ==
    /\ pc = "sent"
    /\ Becomes("refused")
    /\ \E delay \in RetryAfter \cup {Backoff[attempt]} : RetryOrRaise(elapsed + d, delay)

ServerErrorIsCertain(d) ==       \* mutant: a 5xx answer is reported as exhausted
    /\ pc = "sent"
    /\ \/ isWrite /\ Raise(elapsed + d, TRUE)
       \/ ~isWrite /\ RetryOrRaise(elapsed + d, Backoff[attempt])
    /\ UNCHANGED copy

\* 5xx: the server, or a proxy before it, says nothing about the effect.
ServerError(d) ==
    /\ pc = "sent"
    /\ \/ isWrite /\ Raise(elapsed + d, FALSE)
       \/ ~isWrite /\ RetryOrRaise(elapsed + d, Backoff[attempt])
    /\ UNCHANGED copy

\* The first 401 of an oauth adapter: invalidate the token and call again.
Unauthorized(d) ==
    /\ pc = "sent"
    /\ oauth /\ ~retried_oauth
    /\ Becomes("refused")
    /\ pc' = "authorize" /\ retried_oauth' = TRUE /\ elapsed' = elapsed + d
    /\ UNCHANGED <<call, attempt, sent, result, exhausted>>

\* Any other 4xx, a second 401 included.
Rejected(d) ==
    /\ pc = "sent"
    /\ Becomes("refused")
    /\ Raise(elapsed + d, FALSE)

\* Any answer below 400 that is empty, a 204, or JSON.
Succeed(e) ==
    /\ pc' = "done" /\ result' = "ok" /\ elapsed' = e
    /\ UNCHANGED <<call, retried_oauth, attempt, sent, exhausted>>

Answered(d) ==
    /\ pc = "sent" /\ Current("acted")
    /\ Succeed(elapsed + d)
    /\ UNCHANGED copy

\* An answer below 400 whose body is not JSON.
Malformed(d) ==
    /\ pc = "sent" /\ Current("acted")
    /\ Raise(elapsed + d, FALSE)
    /\ UNCHANGED copy

\* A 3xx instead of acting on the request.  The client does not follow it, and
\* only a status of 400 or more is an error, so it is an answer like a 2xx.
Redirected(d) ==
    /\ pc = "sent"
    /\ Becomes("redirected")
    /\ Succeed(elapsed + d) \/ Raise(elapsed + d, FALSE)

-----------------------------------------------------------------------------
(* The network and the server (external): a copy on its way is acted on,   *)
(* however late, or lost.  An answer 429 or 4xx says that it was not; so   *)
(* does a 3xx, unless it follows the action (Answered, Malformed).         *)

ServerActs(i) ==
    /\ copy[i] = "travelling"
    /\ copy' = [copy EXCEPT ![i] = "acted"]
    /\ UNCHANGED <<call, client>>

NetworkLoses(i) ==
    /\ copy[i] = "travelling"
    /\ copy' = [copy EXCEPT ![i] = "lost"]
    /\ UNCHANGED <<call, client>>

-----------------------------------------------------------------------------

Outcome(d) ==
    \/ ConnectFails(d) \/ TimesOut(d) \/ TransportBreaks(d)
    \/ RateLimited(d) \/ ServerError(d) \/ Unauthorized(d)
    \/ Rejected(d) \/ Answered(d) \/ Malformed(d) \/ Redirected(d)

Client == Authorize \/ AuthorizeFails \/ Send \/ \E d \in 0..Slow : Outcome(d)

Terminated == pc = "done" /\ UNCHANGED vars

Next == \/ Client
        \/ \E i \in Sends : ServerActs(i) \/ NetworkLoses(i)
        \/ Terminated

\* The call runs in one thread and httpx ends every attempt.
Spec == Init /\ [][Next]_vars /\ WF_vars(Client)

-----------------------------------------------------------------------------
(* Properties.                                                             *)

\* No attempt begins after the retry window has closed or beyond the allowed
\* number, whatever Retry-After asks for, so one executor's call waits and tries
\* for MaxElapsed and one attempt at most.
AttemptsStayInWindow ==
    /\ pc \in {"attempt", "sent"} => elapsed <= MaxElapsed
    /\ elapsed <= MaxElapsed + Slow
    /\ sent <= (IF retried_oauth THEN 2 ELSE 1) * MaxAttempts

Effects == {i \in Sends : copy[i] = "acted"}

\* A write is acted on at most once over all attempts, waits and the resending
\* after a 401, the late arrival of a copy the client gave up on included; so a
\* batch or an asset is never imported twice by one call.
AtMostOneEffect == isWrite => Cardinality(Effects) <= 1

\* README.md: "Writes retry connect-before-send only."  A copy of a write is sent
\* again only when the previous one was never sent.
WritesResentOnlyUnsent ==
    [][isWrite /\ sent' > sent /\ sent > 0 => copy[sent] = "not_sent"]_vars

Abstract == INSTANCE RemoteCall WITH
    write <- isWrite,
    effects <- IF isWrite THEN Cardinality(Effects) ELSE 0,
    verdict <- CASE result = "pending"    -> "pending"
                 [] result = "ok"         -> "ok"
                 [] result = "error"      -> IF exhausted THEN "no_effect" ELSE "unknown",
    redirected <- result = "ok" /\ Current("redirected")

\* The call keeps the promise of RemoteCall: it returns, "ok" is answered only
\* for a write that took effect or was redirected (_request rejects a status of
\* 400 or more, and nothing else), and neither a redirected nor an exhausted
\* write ever takes effect.
ImplementsRemoteCall == Abstract!Spec

-----------------------------------------------------------------------------
(* The inductive invariant behind the safety properties.                   *)

\* Sent by the executor's earlier call, the one the 401 ended.
SentBefore == IF retried_oauth THEN MaxAttempts ELSE 0

Window ==
    /\ pc \in {"attempt", "sent"} => elapsed <= MaxElapsed /\ attempt >= 1
    /\ elapsed <= MaxElapsed + Slow
    /\ pc = "authorize" => sent <= SentBefore
    /\ pc = "attempt" => sent <= SentBefore + attempt - 1
    /\ pc = "sent" => sent <= SentBefore + attempt /\ sent >= 1
    /\ sent <= SentBefore + MaxAttempts

\* A copy that has not been acted on and never will be.
Gone == {"refused", "redirected", "not_sent"}

Copies ==
    /\ \A i \in Sends : i > sent => copy[i] = "unsent"
    /\ isWrite => \A i \in Sends : i < sent => copy[i] \in Gone
    /\ isWrite /\ pc \in {"authorize", "attempt"} /\ sent > 0 => copy[sent] \in Gone

Outcomes ==
    /\ result = "pending" <=> pc # "done"
    /\ exhausted => result = "error"
    /\ isWrite /\ exhausted => sent > 0 /\ copy[sent] \in Gone
    /\ isWrite /\ result = "ok" => sent > 0 /\ copy[sent] \in {"acted", "redirected"}

IInv == TypeOK /\ Window /\ Copies /\ Outcomes
====
