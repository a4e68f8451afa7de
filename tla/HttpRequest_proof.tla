---- MODULE HttpRequest_proof ----
(***************************************************************************)
(* Proofs about HttpRequest, for every retry policy and every attempt      *)
(* duration: what one call of the adapter does to the tenant, and when.    *)
(*                                                                         *)
(* Then about AuthorizedRequest, for every lifetime of a token and every   *)
(* skew: the tokens a call carries, and that with them it is still the     *)
(* call of HttpRequest.                                                    *)
(***************************************************************************)
EXTENDS AuthorizedRequest, FiniteSetTheorems, TLAPS

\* The policy as arithmetic needs it.
LEMMA Policy ==
    /\ MaxAttempts \in Nat /\ MaxAttempts >= 1
    /\ MaxElapsed \in Nat /\ MaxElapsed >= 1
    /\ Slow \in Nat
    /\ Sends = 1..(2 * MaxAttempts)
    /\ \A a \in 1..MaxAttempts : Backoff[a] \in Nat
    /\ \A delay \in RetryAfter : delay \in Nat
  BY PolicyAssumption DEF Sends

\* A wait ends inside the retry window.
LEMMA CapDelayFits ==
    ASSUME NEW delay \in Nat, NEW e \in Nat, e < MaxElapsed
    PROVE  /\ CapDelay(delay, e) \in Nat
           /\ e + CapDelay(delay, e) \in Nat
           /\ e + CapDelay(delay, e) <= MaxElapsed
  BY Policy DEF CapDelay

LEMMA InitIInv == Init => IInv
  <1> SUFFICES ASSUME Init PROVE IInv OBVIOUS
  <1> USE Policy DEF Init
  <1>1. TypeOK
    <2>1. 0 \in 0..MaxAttempts OBVIOUS
    <2>2. copy \in [Sends -> Fates]
      BY Zenon DEF Fates
    <2> QED BY <2>1, <2>2, Zenon DEF TypeOK
  <1>2. Window BY DEF Window, SentBefore
  <1>3. Copies BY DEF Copies
  <1>4. Outcomes BY DEF Outcomes
  <1> QED BY <1>1, <1>2, <1>3, <1>4 DEF IInv

-----------------------------------------------------------------------------
(* How an attempt goes on.                                                 *)

\* Raising keeps the types and the window; the copy must be gone if the error of
\* a write says it is certain.
LEMMA RaiseStep ==
    ASSUME IInv, pc = "sent", NEW d \in 0..Slow, NEW ex \in BOOLEAN,
           Raise(elapsed + d, ex),
           copy' \in [Sends -> Fates],
           \A i \in Sends : i # sent => copy'[i] = copy[i],
           isWrite /\ ex => copy'[sent] \in Gone
    PROVE  IInv'
  <1> USE Policy DEF IInv, Raise, call
  <1>1. TypeOK' BY DEF TypeOK, Window
  <1>2. Window' BY DEF TypeOK, Window, SentBefore
  <1>3. Copies' BY DEF TypeOK, Window, Copies
  <1>4. Outcomes' BY DEF TypeOK, Window, Outcomes
  <1> QED BY <1>1, <1>2, <1>3, <1>4

\* So does the retry of an attempt whose copy, if it is a write's, is gone.
LEMMA RetryStep ==
    ASSUME IInv, pc = "sent", NEW d \in 0..Slow, NEW delay \in Nat,
           RetryOrRaise(elapsed + d, delay),
           copy' \in [Sends -> Fates],
           \A i \in Sends : i # sent => copy'[i] = copy[i],
           isWrite => copy'[sent] \in Gone
    PROVE  IInv'
  <1>1. CASE Raise(elapsed + d, TRUE)
    BY <1>1, RaiseStep
  <1>2. CASE ~Raise(elapsed + d, TRUE)
    <2> DEFINE e == elapsed + d
    <2> USE Policy
    <2>1. /\ ShouldRetry(e)
          /\ pc' = "attempt" /\ attempt' = attempt + 1
          /\ elapsed' = e + CapDelay(delay, e)
          /\ UNCHANGED <<call, retried_oauth, sent, result, exhausted>>
      BY <1>2 DEF RetryOrRaise
    <2>2. e \in Nat /\ e < MaxElapsed /\ attempt < MaxAttempts
      BY <2>1 DEF ShouldRetry, IInv, TypeOK
    <2>3. elapsed' \in Nat /\ elapsed' <= MaxElapsed
      BY <2>1, <2>2, CapDelayFits
    <2> HIDE DEF e
    <2> USE DEF IInv, call
    <2>4. TypeOK' BY <2>1, <2>2, <2>3 DEF TypeOK
    <2>5. Window' BY <2>1, <2>2, <2>3 DEF TypeOK, Window, SentBefore
    <2>6. Copies' BY <2>1 DEF TypeOK, Window, Copies
    <2>7. Outcomes' BY <2>1 DEF TypeOK, Window, Outcomes
    <2> QED BY <2>4, <2>5, <2>6, <2>7
  <1> QED BY <1>1, <1>2

\* What an outcome may do to the current copy.
LEMMA BecomesStep ==
    ASSUME TypeOK, NEW fate \in Gone, Becomes(fate)
    PROVE  /\ sent \in Sends
           /\ copy' \in [Sends -> Fates]
           /\ \A i \in Sends : i # sent => copy'[i] = copy[i]
           /\ copy'[sent] = fate
  BY Policy DEF TypeOK, Becomes, Current, Gone, Fates

-----------------------------------------------------------------------------

LEMMA AuthorizeIInv ==
    ASSUME IInv, Authorize \/ AuthorizeFails
    PROVE  IInv'
  <1> USE Policy DEF IInv, Raise, call
  <1>1. CASE Authorize
    <2> USE <1>1 DEF Authorize
    <2>1. TypeOK' BY DEF TypeOK
    <2>2. Window' BY DEF TypeOK, Window, SentBefore
    <2>3. Copies' BY DEF TypeOK, Copies
    <2>4. Outcomes' BY DEF TypeOK, Outcomes
    <2> QED BY <2>1, <2>2, <2>3, <2>4
  <1>2. CASE AuthorizeFails
    <2> USE <1>2 DEF AuthorizeFails
    <2>1. TypeOK' BY DEF TypeOK
    <2>2. Window' BY DEF TypeOK, Window, SentBefore
    <2>3. Copies' BY DEF TypeOK, Copies
    <2>4. Outcomes' BY DEF TypeOK, Outcomes
    <2> QED BY <2>1, <2>2, <2>3, <2>4
  <1> QED BY <1>1, <1>2

LEMMA SendIInv ==
    ASSUME IInv, Send
    PROVE  IInv'
  <1> USE Policy DEF IInv, Send, call
  <1>1. sent' = sent + 1 /\ sent' \in Sends /\ sent \in Nat
    BY DEF TypeOK, Window, SentBefore
  <1>2. copy' = [copy EXCEPT ![sent'] = "travelling"]
    OBVIOUS
  <1>3. TypeOK' BY <1>1, <1>2 DEF TypeOK, Fates
  <1>4. Window' BY <1>1 DEF TypeOK, Window, SentBefore
  <1>5. Copies' BY <1>1, <1>2 DEF TypeOK, Copies
  <1>6. Outcomes' BY <1>1, <1>2 DEF TypeOK, Outcomes
  <1> QED BY <1>3, <1>4, <1>5, <1>6

LEMMA OutcomeIInv ==
    ASSUME IInv, NEW d \in 0..Slow, Outcome(d)
    PROVE  IInv'
  <1> USE Policy
  <1>0. TypeOK /\ Window /\ Copies /\ Outcomes BY DEF IInv
  <1>1. CASE ConnectFails(d)
    <2>1. pc = "sent" /\ Becomes("not_sent") /\ RetryOrRaise(elapsed + d, Backoff[attempt])
      BY <1>1 DEF ConnectFails
    <2>2. Backoff[attempt] \in Nat BY <1>0, <2>1 DEF TypeOK, Window
    <2>3. copy'[sent] \in Gone BY <1>0, <2>1, BecomesStep DEF Gone
    <2> QED BY <1>0, <2>1, <2>2, <2>3, RetryStep, BecomesStep DEF Gone
  <1>2. CASE TimesOut(d) \/ ServerError(d)
    <2>1. /\ pc = "sent" /\ copy' = copy
          /\ \/ isWrite /\ Raise(elapsed + d, FALSE)
             \/ ~isWrite /\ RetryOrRaise(elapsed + d, Backoff[attempt])
      BY <1>2 DEF TimesOut, ServerError
    <2>2. Backoff[attempt] \in Nat BY <1>0, <2>1 DEF TypeOK, Window
    <2>3. copy \in [Sends -> Fates]
      BY <1>0 DEF TypeOK
    <2>4. CASE isWrite /\ Raise(elapsed + d, FALSE)
      BY <2>1, <2>3, <2>4, RaiseStep
    <2>5. CASE ~isWrite /\ RetryOrRaise(elapsed + d, Backoff[attempt])
      BY <2>1, <2>2, <2>3, <2>5, RetryStep
    <2> QED BY <2>1, <2>4, <2>5
  <1>3. CASE TransportBreaks(d) \/ Malformed(d)
    <2>1. pc = "sent" /\ copy' = copy /\ Raise(elapsed + d, FALSE)
      BY <1>3 DEF TransportBreaks, Malformed
    <2>2. copy \in [Sends -> Fates]
      BY <1>0 DEF TypeOK
    <2> QED BY <2>1, <2>2, RaiseStep
  <1>4. CASE RateLimited(d)
    <2>1. pc = "sent" /\ Becomes("refused") BY <1>4 DEF RateLimited
    <2>2. PICK delay \in RetryAfter \cup {Backoff[attempt]} : RetryOrRaise(elapsed + d, delay)
      BY <1>4 DEF RateLimited
    <2>3. delay \in Nat BY <1>0, <2>1 DEF TypeOK, Window
    <2>4. copy'[sent] \in Gone BY <1>0, <2>1, BecomesStep DEF Gone
    <2> QED BY <1>0, <2>1, <2>2, <2>3, <2>4, RetryStep, BecomesStep DEF Gone
  <1>5. CASE Rejected(d)
    <2>1. pc = "sent" /\ Becomes("refused") /\ Raise(elapsed + d, FALSE)
      BY <1>5 DEF Rejected
    <2> QED BY <1>0, <2>1, RaiseStep, BecomesStep DEF Gone
  <1>6. CASE Unauthorized(d)
    <2>1. /\ pc = "sent" /\ ~retried_oauth
          /\ pc' = "authorize" /\ retried_oauth' = TRUE /\ elapsed' = elapsed + d
          /\ UNCHANGED <<call, attempt, sent, result, exhausted>>
          /\ Becomes("refused")
      BY <1>6 DEF Unauthorized
    <2>2. /\ copy' \in [Sends -> Fates]
          /\ \A i \in Sends : i # sent => copy'[i] = copy[i]
          /\ copy'[sent] = "refused" /\ sent \in Sends
      BY <1>0, <2>1, BecomesStep DEF Gone
    <2> USE <1>0, <2>1, <2>2 DEF call
    <2>3. TypeOK' BY DEF TypeOK
    <2>4. Window' BY DEF TypeOK, Window, SentBefore
    <2>5. Copies' BY DEF TypeOK, Window, Copies, Gone
    <2>6. Outcomes' BY DEF TypeOK, Outcomes, Gone
    <2> QED BY <2>3, <2>4, <2>5, <2>6 DEF IInv
  <1>7. CASE Answered(d)
    <2> USE <1>0, <1>7 DEF Answered, Succeed, call, Current
    <2>1. TypeOK' BY DEF TypeOK
    <2>2. Window' BY DEF TypeOK, Window, SentBefore
    <2>3. Copies' BY DEF TypeOK, Copies
    <2>4. Outcomes' BY DEF TypeOK, Outcomes
    <2> QED BY <2>1, <2>2, <2>3, <2>4 DEF IInv
  <1>8. CASE Redirected(d)
    <2>1. pc = "sent" /\ Becomes("redirected")
      BY <1>8 DEF Redirected
    <2>2. /\ copy' \in [Sends -> Fates] /\ sent \in Sends
          /\ \A i \in Sends : i # sent => copy'[i] = copy[i]
          /\ copy'[sent] = "redirected"
      BY <1>0, <2>1, BecomesStep DEF Gone
    <2>3. CASE Raise(elapsed + d, FALSE)
      BY <2>1, <2>2, <2>3, RaiseStep
    <2>4. CASE Succeed(elapsed + d)
      <3> USE <1>0, <2>1, <2>2, <2>4 DEF Succeed, call
      <3>1. TypeOK' BY DEF TypeOK
      <3>2. Window' BY DEF TypeOK, Window, SentBefore
      <3>3. Copies' BY DEF TypeOK, Copies
      <3>4. Outcomes' BY DEF TypeOK, Outcomes
      <3> QED BY <3>1, <3>2, <3>3, <3>4 DEF IInv
    <2> QED BY <1>8, <2>3, <2>4 DEF Redirected
  <1> QED BY <1>1, <1>2, <1>3, <1>4, <1>5, <1>6, <1>7, <1>8 DEF Outcome

LEMMA NetworkIInv ==
    ASSUME IInv, NEW i \in Sends, ServerActs(i) \/ NetworkLoses(i)
    PROVE  IInv'
  <1> USE Policy DEF IInv, call, client, ServerActs, NetworkLoses
  <1>1. TypeOK' BY DEF TypeOK, Fates
  <1>2. Window' BY DEF Window, SentBefore
  <1>3. Copies' BY DEF TypeOK, Copies, Gone
  <1>4. Outcomes' BY DEF TypeOK, Outcomes, Gone
  <1> QED BY <1>1, <1>2, <1>3, <1>4

LEMMA StepIInv == IInv /\ [Next]_vars => IInv'
  <1> SUFFICES ASSUME IInv, [Next]_vars PROVE IInv' OBVIOUS
  <1>1. CASE Client
    BY <1>1, AuthorizeIInv, SendIInv, OutcomeIInv DEF Client
  <1>2. CASE \E i \in Sends : ServerActs(i) \/ NetworkLoses(i)
    BY <1>2, NetworkIInv
  <1>3. CASE UNCHANGED vars
    BY <1>3 DEF vars, call, client, IInv, TypeOK, Window, SentBefore, Copies, Outcomes
  <1> QED BY <1>1, <1>2, <1>3 DEF Next, Terminated

\* What holds throughout a call: where its attempts may be in time and number,
\* and what became of every copy it sent.
THEOREM InductiveInvariant == Spec => []IInv
  BY InitIInv, StepIInv, PTL DEF Spec

\* The state of a call keeps its types.
THEOREM TypeCorrect == Spec => []TypeOK
  <1>1. IInv => TypeOK BY DEF IInv
  <1> QED BY <1>1, InductiveInvariant, PTL

\* Every executor's call tries and waits for MaxElapsed and one attempt at most,
\* whatever Retry-After asks for, and sends MaxAttempts copies at most.
THEOREM WindowTheorem == Spec => []AttemptsStayInWindow
  <1>1. IInv => AttemptsStayInWindow
    BY Policy DEF IInv, TypeOK, Window, SentBefore, AttemptsStayInWindow
  <1> QED BY <1>1, InductiveInvariant, PTL

-----------------------------------------------------------------------------
(* Effects.                                                                *)

\* Only the last copy of a write may have been acted on.
LEMMA OneEffect ==
    ASSUME IInv, isWrite
    PROVE  /\ Effects \in {{}, {sent}}
           /\ Effects = {sent} <=> sent > 0 /\ copy[sent] = "acted"
           /\ Cardinality(Effects) = IF Effects = {} THEN 0 ELSE 1
  <1>1. \A i \in Sends : copy[i] = "acted" => i = sent
    BY Policy DEF IInv, TypeOK, Copies, Gone
  <1>2. Effects \subseteq {sent}
    BY <1>1 DEF Effects
  <1>3. Effects \in {{}, {sent}}
    BY <1>2
  <1>4. sent > 0 => sent \in Sends
    BY Policy DEF IInv, TypeOK
  <1>5. Effects = {sent} <=> sent > 0 /\ copy[sent] = "acted"
    BY <1>1, <1>4, Policy DEF Effects, Sends
  <1>6. Cardinality({sent}) = 1 /\ Cardinality({}) = 0
    BY FS_Singleton, FS_EmptySet
  <1> QED BY <1>3, <1>5, <1>6

\* A write is acted on once at most, over all its attempts, the resending after a
\* 401 and the late arrival of abandoned copies.
THEOREM AtMostOneEffectTheorem == Spec => []AtMostOneEffect
  <1>1. IInv => AtMostOneEffect
    BY OneEffect DEF AtMostOneEffect
  <1> QED BY <1>1, InductiveInvariant, PTL

-----------------------------------------------------------------------------
(* The call implements RemoteCall, step by step.                           *)

\* The mapped state, in terms of the last copy.
AbstractEffects == IF isWrite THEN Cardinality(Effects) ELSE 0
AbstractVerdict == CASE result = "pending" -> "pending"
                     [] result = "ok"      -> "ok"
                     [] result = "error"   -> IF exhausted THEN "no_effect" ELSE "unknown"
AbstractRedirected == result = "ok" /\ Current("redirected")

LEMMA MappedState ==
    /\ Abstract!Next <=>
         \/ /\ isWrite /\ AbstractEffects = 0
            /\ AbstractVerdict \in {"pending", "unknown"}
            /\ AbstractEffects' = 1
            /\ isWrite' = isWrite /\ AbstractVerdict' = AbstractVerdict
            /\ AbstractRedirected' = AbstractRedirected
         \/ /\ AbstractVerdict = "pending"
            /\ \/ /\ AbstractVerdict' = "ok" /\ (isWrite => AbstractEffects = 1)
                  /\ AbstractRedirected' = AbstractRedirected
               \/ AbstractVerdict' = "ok" /\ AbstractEffects = 0 /\ AbstractRedirected' = TRUE
               \/ /\ AbstractVerdict' = "no_effect" /\ AbstractEffects = 0
                  /\ AbstractRedirected' = AbstractRedirected
               \/ AbstractVerdict' = "unknown" /\ AbstractRedirected' = AbstractRedirected
            /\ isWrite' = isWrite /\ AbstractEffects' = AbstractEffects
    /\ UNCHANGED Abstract!vars <=>
         /\ UNCHANGED isWrite /\ UNCHANGED AbstractEffects /\ UNCHANGED AbstractVerdict
         /\ UNCHANGED AbstractRedirected
  BY DEF Abstract!Next, Abstract!TakeEffect, Abstract!Return, Abstract!vars,
     AbstractEffects, AbstractVerdict, AbstractRedirected

LEMMA AbstractInit == Init => Abstract!Init
  <1> SUFFICES ASSUME Init PROVE Abstract!Init OBVIOUS
  <1>1. Effects = {} BY DEF Init, Effects
  <1>2. Cardinality(Effects) = 0 BY <1>1, FS_EmptySet
  <1>3. isWrite \in BOOLEAN BY DEF Init
  <1> QED BY <1>2, <1>3 DEF Init, Abstract!Init

\* No step of the client changes what the server did.
LEMMA ClientEffects ==
    ASSUME IInv, Client
    PROVE  Effects' = Effects /\ isWrite' = isWrite /\ result = "pending"
  <1> USE DEF call
  <1>1. result = "pending"
    BY DEF IInv, Outcomes, Client, Authorize, AuthorizeFails, Send, Outcome, ConnectFails,
       TimesOut, TransportBreaks, RateLimited, ServerError, Unauthorized, Rejected, Answered,
       Malformed, Redirected
  <1>2. ASSUME copy' = copy PROVE Effects' = Effects BY <1>2 DEF Effects
  <1>3. ASSUME NEW fate \in Gone, Becomes(fate) PROVE Effects' = Effects
    BY <1>3 DEF IInv, TypeOK, Becomes, Current, Effects, Gone
  <1>4. CASE Authorize \/ AuthorizeFails
    BY <1>1, <1>2, <1>4 DEF Authorize, AuthorizeFails, Raise
  <1>5. CASE Send
    <2>1. sent + 1 \in Sends => copy[sent + 1] = "unsent"
      BY Policy DEF IInv, TypeOK, Copies
    <2>2. Effects' = Effects
      BY <1>5, <2>1 DEF IInv, TypeOK, Send, Effects
    <2> QED BY <1>1, <1>5, <2>2 DEF Send
  <1>6. ASSUME NEW d \in 0..Slow, Outcome(d) PROVE Effects' = Effects /\ isWrite' = isWrite
    <2> USE DEF Raise, RetryOrRaise, Succeed
    <2>1. CASE ConnectFails(d) \/ RateLimited(d) \/ Unauthorized(d) \/ Rejected(d)
               \/ Redirected(d)
      <3>1. Becomes("not_sent") \/ Becomes("refused") \/ Becomes("redirected")
        BY <2>1 DEF ConnectFails, RateLimited, Unauthorized, Rejected, Redirected
      <3>2. Effects' = Effects BY <1>3, <3>1 DEF Gone
      <3> QED BY <2>1, <3>2 DEF ConnectFails, RateLimited, Unauthorized, Rejected, Redirected
    <2>2. CASE TimesOut(d) \/ TransportBreaks(d) \/ ServerError(d) \/ Answered(d) \/ Malformed(d)
      BY <1>2, <2>2 DEF TimesOut, TransportBreaks, ServerError, Answered, Malformed
    <2> QED BY <1>6, <2>1, <2>2 DEF Outcome
  <1> QED BY <1>1, <1>4, <1>5, <1>6 DEF Client

\* OneEffect, after a step.
LEMMA OneEffectNext ==
    ASSUME IInv', isWrite'
    PROVE  Effects' = IF sent' > 0 /\ copy'[sent'] = "acted" THEN {sent'} ELSE {}
  <1>1. \A i \in Sends : copy'[i] = "acted" => i = sent'
    BY Policy DEF IInv, TypeOK, Copies, Gone
  <1>2. sent' \in Sends \cup {0}
    BY DEF IInv, TypeOK
  <1> QED BY <1>1, <1>2, Policy DEF Effects

LEMMA AbstractStep == IInv /\ IInv' /\ [Next]_vars => [Abstract!Next]_Abstract!vars
  <1> SUFFICES ASSUME IInv, IInv', [Next]_vars PROVE [Abstract!Next]_Abstract!vars OBVIOUS
  <1>1. CASE Client
    <2>1. /\ isWrite' = isWrite /\ result = "pending" /\ AbstractEffects' = AbstractEffects
          /\ AbstractVerdict = "pending" /\ AbstractRedirected = FALSE
      BY <1>1, ClientEffects DEF AbstractEffects, AbstractVerdict, AbstractRedirected
    <2>0. result' # "ok" => AbstractRedirected' = FALSE
      BY DEF AbstractRedirected
    <2>2. CASE result' = "pending"
      BY <2>0, <2>1, <2>2, MappedState DEF AbstractVerdict
    <2>6. CASE result' = "ok" /\ Current("redirected")'
      <3>1. AbstractRedirected' = TRUE /\ AbstractVerdict' = "ok"
        BY <2>6 DEF AbstractRedirected, AbstractVerdict
      <3>2. AbstractEffects' = 0
        <4>1. CASE isWrite'
          <5>1. Effects' = {}
            BY <2>6, <4>1, OneEffectNext DEF Current
          <5> QED BY <5>1, FS_EmptySet DEF AbstractEffects
        <4> QED BY <4>1 DEF AbstractEffects
      <3> QED BY <2>1, <3>1, <3>2, MappedState
    <2>3. CASE result' = "ok" /\ ~Current("redirected")'
      <3>1. isWrite' => Effects' = {sent'} /\ Cardinality(Effects') = 1
        <4> SUFFICES ASSUME isWrite' PROVE Effects' = {sent'} /\ Cardinality(Effects') = 1
          OBVIOUS
        <4>1. Effects' = {sent'}
          BY <2>3, OneEffectNext DEF IInv, Outcomes, Current
        <4> QED BY <4>1, FS_Singleton
      <3>2. isWrite => AbstractEffects = 1 BY <2>1, <3>1 DEF AbstractEffects
      <3>3. AbstractRedirected' = FALSE BY <2>3 DEF AbstractRedirected
      <3> QED BY <2>1, <2>3, <3>2, <3>3, MappedState DEF AbstractVerdict
    <2>4. CASE result' = "error" /\ exhausted'
      <3>1. AbstractEffects' = 0
        <4>1. CASE isWrite'
          <5>1. Effects' = {}
            BY <2>4, <4>1, OneEffectNext DEF IInv, Outcomes, Gone
          <5> QED BY <4>1, <5>1, FS_EmptySet DEF AbstractEffects
        <4> QED BY <4>1 DEF AbstractEffects
      <3> QED BY <2>0, <2>1, <2>4, <3>1, MappedState DEF AbstractVerdict
    <2>5. CASE result' = "error" /\ ~exhausted'
      BY <2>0, <2>1, <2>5, MappedState DEF AbstractVerdict
    <2> QED BY <2>2, <2>3, <2>4, <2>5, <2>6 DEF IInv, TypeOK
  <1>2. ASSUME NEW i \in Sends, ServerActs(i) \/ NetworkLoses(i)
        PROVE  [Abstract!Next]_Abstract!vars
    <2>1. /\ isWrite' = isWrite /\ AbstractVerdict' = AbstractVerdict
          /\ sent' = sent /\ result' = result /\ exhausted' = exhausted
          /\ AbstractRedirected' = AbstractRedirected
      <3>1. /\ isWrite' = isWrite /\ sent' = sent
            /\ result' = result /\ exhausted' = exhausted
        BY <1>2 DEF ServerActs, NetworkLoses, call, client
      <3>2. AbstractVerdict' = AbstractVerdict BY <3>1, Zenon DEF AbstractVerdict
      <3>3. Current("redirected")' <=> Current("redirected")
        BY <1>2, <3>1, Policy DEF ServerActs, NetworkLoses, Current, IInv, TypeOK
      <3>4. AbstractRedirected' = AbstractRedirected
        BY <3>1, <3>3 DEF AbstractRedirected
      <3> QED BY <3>1, <3>2, <3>4
    <2>2. CASE ~isWrite
      BY <2>1, <2>2, MappedState DEF AbstractEffects
    <2>3. CASE isWrite /\ NetworkLoses(i)
      <3>1. Effects' = Effects
        BY <2>3 DEF NetworkLoses, Effects, IInv, TypeOK
      <3> QED BY <2>1, <3>1, MappedState DEF AbstractEffects
    <2>4. CASE isWrite /\ ServerActs(i)
      <3>1. i = sent
        BY <2>4, Policy DEF ServerActs, IInv, TypeOK, Copies, Gone
      <3>2. Effects = {} /\ Effects' = {sent}
        <4>1. Effects = {} BY <2>4, <3>1, OneEffect DEF ServerActs
        <4>2. copy'[i] = "acted" /\ sent' > 0
          BY <2>1, <2>4, <3>1, Policy DEF ServerActs, IInv, TypeOK
        <4> QED BY <2>1, <2>4, <3>1, <4>1, <4>2, OneEffectNext
      <3>3. AbstractEffects = 0 /\ AbstractEffects' = 1
        BY <2>1, <2>4, <3>2, FS_EmptySet, FS_Singleton DEF AbstractEffects
      <3>4. AbstractVerdict \in {"pending", "unknown"}
        BY <2>4, <3>1 DEF ServerActs, AbstractVerdict, IInv, TypeOK, Outcomes, Gone
      <3> QED BY <2>1, <2>4, <3>3, <3>4, MappedState
    <2> QED BY <1>2, <2>2, <2>3, <2>4
  <1>3. CASE UNCHANGED vars
    BY <1>3, MappedState
       DEF vars, call, client, AbstractEffects, AbstractVerdict, AbstractRedirected, Current, Effects
  <1> QED BY <1>1, <1>2, <1>3 DEF Next, Terminated

\* Every behaviour of a call is, step by step, one of RemoteCall: the safety part
\* of ImplementsRemoteCall.
THEOREM RemoteCallRefinement == Spec => Abstract!Init /\ [][Abstract!Next]_Abstract!vars
  BY AbstractInit, AbstractStep, InductiveInvariant, PTL DEF Spec

-----------------------------------------------------------------------------
(* The tokens of a call.                                                   *)

Refusals == [number : Nat, ttl : Nat, why : {"revoked", "expired"}]

TokenTypes ==
    /\ token \in [number : Nat, ttl : Nat, age : Nat]
    /\ cached \in BOOLEAN
    /\ refusals \in Seq(Refusals)

\* The tokens refused so far: one per renewal, and each replaced by a later one.
Renewals ==
    /\ retried_oauth => oauth
    /\ pc # "done" => Len(refusals) = IF retried_oauth THEN 1 ELSE 0
    /\ Len(refusals) \in 0..2
    /\ retried_oauth /\ pc = "authorize" => ~cached /\ refusals[1].number = token.number
    /\ retried_oauth /\ pc \in {"attempt", "sent"} => refusals[1].number < token.number
    /\ Len(refusals) = 2 => refusals[1].number < refusals[2].number

\* How old they are: one fetched by a renewal was new when the executor's call began.
Ages ==
    /\ oauth /\ pc = "attempt" /\ attempt = 1 => token.age < token.ttl
    /\ retried_oauth /\ pc \in {"attempt", "sent"} => token.age <= elapsed + Slow
    /\ Len(refusals) = 2 /\ refusals[2].why = "expired" =>
           refusals[2].ttl <= MaxElapsed + 2 * Slow

AuthInv == IInv /\ TokenTypes /\ Renewals /\ Ages

-----------------------------------------------------------------------------
(* The call is the one of HttpRequest.                                     *)

\* Every step of a call with its tokens is a step of the call, or none.
LEMMA CallStep == [NextAuth]_authVars => [Next]_vars
  <1> SUFFICES ASSUME [NextAuth]_authVars PROVE [Next]_vars OBVIOUS
  <1>1. CASE AuthorizeWithToken \/ TokenFails \/ SendWithToken
    BY <1>1 DEF AuthorizeWithToken, TokenFails, SendWithToken, Next, Client
  <1>2. ASSUME NEW d \in 0..Slow, TokenRefused(d) \/ RefusedAgain(d) \/ TokenAccepted(d)
        PROVE  Outcome(d)
    BY <1>2 DEF TokenRefused, RefusedAgain, TokenAccepted, Outcome
  <1>3. CASE \E i \in Sends : ServerActs(i) \/ NetworkLoses(i)
    BY <1>3 DEF Next
  <1>4. CASE Terminated \/ UNCHANGED authVars
    BY <1>4 DEF Terminated, authVars
  <1> QED BY <1>1, <1>2, <1>3, <1>4 DEF NextAuth, AuthClient, Next, Client

\* A call with its tokens is, step by step, one of HttpRequest, whatever the
\* tokens' lifetimes and whatever the server refuses (LiveCollibraAdapter._request).
THEOREM HttpRequestRefinement == AuthSpec => Init /\ [][Next]_vars
  <1>1. InitAuth => Init BY DEF InitAuth
  <1> QED BY <1>1, CallStep, PTL DEF AuthSpec

\* What HttpRequest keeps, it keeps with its tokens.
THEOREM CallInvariant == AuthSpec => []IInv
  BY HttpRequestRefinement, InitIInv, StepIInv, PTL

-----------------------------------------------------------------------------
(* Time passes for the token as for the call.                              *)

\* An attempt goes on later, and a retry is not the first attempt.
LEMMA RetryTime ==
    ASSUME IInv, pc = "sent", NEW d \in 0..Slow, NEW delay \in Nat,
           RetryOrRaise(elapsed + d, delay)
    PROVE  elapsed' \in Nat /\ elapsed' >= elapsed /\ UNCHANGED <<call, retried_oauth>>
           /\ ((pc' = "attempt" /\ attempt' >= 2) \/ pc' = "done")
  <1>1. elapsed \in Nat /\ elapsed + d \in Nat /\ attempt \in Nat /\ attempt >= 1
    BY Policy DEF IInv, TypeOK, Window
  <1>2. CASE ~ShouldRetry(elapsed + d)
    BY <1>1, <1>2 DEF RetryOrRaise, Raise
  <1>3. CASE ShouldRetry(elapsed + d)
    <2>1. /\ CapDelay(delay, elapsed + d) \in Nat
          /\ elapsed' = elapsed + d + CapDelay(delay, elapsed + d)
          /\ pc' = "attempt" /\ attempt' = attempt + 1 /\ UNCHANGED <<call, retried_oauth>>
      BY <1>1, <1>3, CapDelayFits DEF RetryOrRaise, ShouldRetry
    <2> QED BY <1>1, <2>1
  <1> QED BY <1>2, <1>3

\* What an outcome that is no renewal leaves of the call.
LEMMA OutcomeTime ==
    ASSUME IInv, NEW d \in 0..Slow, Outcome(d), ~Unauthorized(d)
    PROVE  pc = "sent" /\ elapsed' \in Nat /\ elapsed' >= elapsed
           /\ UNCHANGED <<call, retried_oauth>>
           /\ ((pc' = "attempt" /\ attempt' >= 2) \/ pc' = "done")
  <1>1. pc = "sent"
    BY DEF Outcome, ConnectFails, TimesOut, TransportBreaks, RateLimited, ServerError,
           Rejected, Answered, Malformed, Redirected
  <1>2. elapsed \in Nat /\ Backoff[attempt] \in Nat
    BY <1>1, Policy DEF IInv, TypeOK, Window
  <1>3. ASSUME NEW ex \in BOOLEAN, Raise(elapsed + d, ex)
        PROVE  elapsed' \in Nat /\ elapsed' >= elapsed /\ UNCHANGED <<call, retried_oauth>>
               /\ pc' = "done"
    BY <1>2, <1>3, Policy DEF Raise
  <1>4. CASE RateLimited(d)
    <2>1. PICK delay \in RetryAfter \cup {Backoff[attempt]} : RetryOrRaise(elapsed + d, delay)
      BY <1>4 DEF RateLimited
    <2> QED BY <1>1, <1>2, <2>1, RetryTime, Policy
  <1>5. CASE ConnectFails(d) \/ TimesOut(d) \/ ServerError(d)
    <2>1. Raise(elapsed + d, FALSE) \/ RetryOrRaise(elapsed + d, Backoff[attempt])
      BY <1>5 DEF ConnectFails, TimesOut, ServerError
    <2> QED BY <1>1, <1>2, <1>3, <2>1, RetryTime
  <1>6. CASE TransportBreaks(d) \/ Rejected(d) \/ Malformed(d)
    BY <1>1, <1>3, <1>6 DEF TransportBreaks, Rejected, Malformed
  <1>7. CASE Answered(d)
    BY <1>1, <1>2, <1>7, Policy DEF Answered, Succeed
  <1>8. CASE Redirected(d)
    <2>1. CASE Raise(elapsed + d, FALSE)
      BY <1>1, <1>3, <2>1
    <2>2. CASE Succeed(elapsed + d)
      BY <1>1, <1>2, <2>2, Policy DEF Succeed
    <2> QED BY <1>8, <2>1, <2>2 DEF Redirected
  <1> QED BY <1>4, <1>5, <1>6, <1>7, <1>8 DEF Outcome

\* The token a call carries gets older, and stays the same token.
LEMMA OlderToken ==
    ASSUME TokenTypes, elapsed \in Nat, elapsed' \in Nat, elapsed' >= elapsed, token' = Older
    PROVE  /\ token' \in [number : Nat, ttl : Nat, age : Nat]
           /\ token'.number = token.number /\ token'.ttl = token.ttl
           /\ token'.age <= token.age + (elapsed' - elapsed)
  BY DEF TokenTypes, Older

\* A token from the cache, or a new one, has not expired.
LEMMA FreshToken ==
    ASSUME TokenTypes, GetAccessToken
    PROVE  /\ TokenTypes' /\ refusals' = refusals
           /\ oauth => token'.age < token'.ttl
           /\ oauth /\ ~cached => token'.number = token.number + 1 /\ token'.age <= Slow
  <1> USE LifetimesAssumption, Policy DEF TokenTypes
  <1>1. CASE ~oauth \/ Reusable
    <2>1. EffectiveSkew(token.ttl) \in Nat
      BY DEF EffectiveSkew
    <2> QED BY <1>1, <2>1 DEF GetAccessToken, tokens, Reusable
  <1>2. CASE oauth /\ ~Reusable
    <2>1. PICK ttl \in Lifetimes, age \in 0..Slow :
             token' = [number |-> token.number + 1, ttl |-> ttl, age |-> age]
      BY <1>2 DEF GetAccessToken
    <2>2. ttl \in Nat /\ age \in Nat /\ age < ttl /\ age <= Slow
      BY <2>1
    <2> QED BY <1>2, <2>1, <2>2 DEF GetAccessToken
  <1> QED BY <1>1, <1>2

\* A refusal is noted, of the token the call carries.
LEMMA RefusedToken ==
    ASSUME TokenTypes, NEW d \in 0..Slow, Refused(d)
    PROVE  /\ refusals' \in Seq(Refusals)
           /\ Len(refusals') = Len(refusals) + 1
           /\ \A n \in 1..Len(refusals) : refusals'[n] = refusals[n]
           /\ LET last == refusals'[Len(refusals) + 1]
              IN  /\ last.number = token.number /\ last.ttl = token.ttl
                  /\ last.why = "expired" => token.age + d >= token.ttl
  <1>1. PICK why \in {"revoked"} \cup (IF token.age + d >= token.ttl THEN {"expired"} ELSE {}) :
           refusals' = Append(refusals, [number |-> token.number, ttl |-> token.ttl, why |-> why])
    BY DEF Refused
  <1>2. [number |-> token.number, ttl |-> token.ttl, why |-> why] \in Refusals
    BY DEF TokenTypes, Refusals
  <1> HIDE DEF Refusals
  <1> QED BY <1>1, <1>2 DEF TokenTypes

-----------------------------------------------------------------------------

LEMMA InitAuthInv == InitAuth => AuthInv
  <1> SUFFICES ASSUME InitAuth PROVE AuthInv OBVIOUS
  <1>1. IInv BY InitIInv DEF InitAuth
  <1>2. TokenTypes
    <2>1. token \in [number : Nat, ttl : Nat, age : Nat] /\ cached \in BOOLEAN
      <3>1. CASE token = NoToken /\ cached = FALSE
        BY <3>1 DEF NoToken
      <3>2. ASSUME NEW ttl \in Lifetimes, NEW age \in 0..ttl,
                   token = [number |-> 0, ttl |-> ttl, age |-> age]
            PROVE  token \in [number : Nat, ttl : Nat, age : Nat]
        <4>1. ttl \in Nat /\ age \in Nat BY LifetimesAssumption
        <4> QED BY <3>2, <4>1
      <3> QED BY <3>1, <3>2 DEF InitAuth
    <2>2. refusals \in Seq(Refusals) BY DEF InitAuth
    <2> QED BY <2>1, <2>2 DEF TokenTypes
  <1>3. Renewals /\ Ages
    BY DEF InitAuth, Init, Renewals, Ages
  <1> QED BY <1>1, <1>2, <1>3 DEF AuthInv

LEMMA AuthorizeAuthInv ==
    ASSUME AuthInv, AuthorizeWithToken \/ TokenFails
    PROVE  TokenTypes' /\ Renewals' /\ Ages'
  <1> USE DEF AuthInv
  <1>1. CASE AuthorizeWithToken
    <2>1. /\ pc = "authorize" /\ pc' = "attempt" /\ elapsed' = 0
          /\ UNCHANGED <<call, retried_oauth>>
      BY <1>1 DEF AuthorizeWithToken, Authorize
    <2>2. TokenTypes' BY <1>1, FreshToken DEF AuthorizeWithToken
    <2>3. Renewals'
      BY <1>1, <2>1, FreshToken DEF AuthorizeWithToken, Renewals, call, TokenTypes
    <2>4. Ages'
      BY <1>1, <2>1, FreshToken, Policy DEF AuthorizeWithToken, Renewals, Ages, call, TokenTypes
    <2> QED BY <2>2, <2>3, <2>4
  <1>2. CASE TokenFails
    <2>1. pc = "authorize" /\ pc' = "done" /\ UNCHANGED <<call, retried_oauth, tokens>>
      BY <1>2 DEF TokenFails, AuthorizeFails, Raise
    <2> QED BY <2>1 DEF TokenTypes, Renewals, Ages, call, tokens
  <1> QED BY <1>1, <1>2

LEMMA SendAuthInv ==
    ASSUME AuthInv, SendWithToken
    PROVE  TokenTypes' /\ Renewals' /\ Ages'
  <1>1. /\ pc = "attempt" /\ pc' = "sent"
        /\ UNCHANGED <<call, retried_oauth, elapsed, tokens>>
    BY DEF SendWithToken, Send
  <1> QED BY <1>1 DEF AuthInv, TokenTypes, Renewals, Ages, call, tokens

LEMMA RefusedAuthInv ==
    ASSUME AuthInv, NEW d \in 0..Slow, TokenRefused(d) \/ RefusedAgain(d)
    PROVE  TokenTypes' /\ Renewals' /\ Ages'
  <1>0. IInv /\ TokenTypes /\ Renewals /\ Ages /\ elapsed \in Nat
    BY DEF AuthInv, IInv, TypeOK
  <1>1. CASE TokenRefused(d)
    <2>1. /\ pc = "sent" /\ pc' = "authorize" /\ oauth /\ ~retried_oauth /\ retried_oauth'
          /\ elapsed' = elapsed + d /\ UNCHANGED call
          /\ Refused(d) /\ ~cached' /\ cached' \in BOOLEAN /\ token' = Older
      BY <1>1 DEF TokenRefused, Unauthorized, Invalidate
    <2>2. elapsed' \in Nat /\ elapsed' >= elapsed BY <1>0, <2>1, Policy
    <2>3. Len(refusals) = 0 BY <1>0, <2>1 DEF Renewals
    <2>4. token' \in [number : Nat, ttl : Nat, age : Nat] /\ token'.number = token.number
      BY <1>0, <2>1, <2>2, OlderToken
    <2>5. refusals' \in Seq(Refusals) /\ Len(refusals') = 1
          /\ refusals'[1].number = token.number
      BY <1>0, <2>1, <2>3, RefusedToken
    <2>6. TokenTypes' BY <2>1, <2>4, <2>5 DEF TokenTypes
    <2> QED BY <2>1, <2>4, <2>5, <2>6 DEF Renewals, Ages, call
  <1>2. CASE RefusedAgain(d)
    <2>1. /\ oauth /\ retried_oauth /\ Refused(d) /\ token' = Older /\ cached' = cached
          /\ Rejected(d) /\ Outcome(d) /\ ~Unauthorized(d)
      BY <1>2 DEF RefusedAgain, Outcome, Unauthorized
    <2>2. pc = "sent" /\ pc' = "done" /\ elapsed' \in Nat /\ elapsed' >= elapsed
          /\ UNCHANGED <<call, retried_oauth>>
      BY <1>0, <2>1, OutcomeTime DEF Rejected, Raise
    <2>3. TokenTypes'
      <3>1. token' \in [number : Nat, ttl : Nat, age : Nat]
        BY <1>0, <2>1, <2>2, OlderToken
      <3>2. refusals' \in Seq(Refusals) BY <1>0, <2>1, RefusedToken
      <3> QED BY <1>0, <2>1, <3>1, <3>2 DEF TokenTypes
    <2>4. Len(refusals) = 1 /\ Len(refusals') = 2 /\ refusals'[1] = refusals[1]
      <3>1. Len(refusals) = 1 BY <1>0, <2>1, <2>2 DEF Renewals
      <3>2. Len(refusals') = Len(refusals) + 1 BY <1>0, <2>1, RefusedToken
      <3>3. \A n \in 1..Len(refusals) : refusals'[n] = refusals[n]
        BY <1>0, <2>1, RefusedToken
      <3> QED BY <3>1, <3>2, <3>3
    <2>5. /\ refusals'[2].number = token.number /\ refusals'[2].ttl = token.ttl
          /\ refusals'[2].why = "expired" => token.age + d >= token.ttl
      BY <1>0, <2>1, <2>4, RefusedToken
    <2>6. elapsed <= MaxElapsed BY <1>0, <2>2 DEF IInv, Window
    <2>7. Renewals'
      BY <1>0, <2>1, <2>2, <2>4, <2>5 DEF Renewals, call
    <2>8. Ages'
      BY <1>0, <2>1, <2>2, <2>4, <2>5, <2>6, Policy DEF Ages, TokenTypes, call
    <2> QED BY <2>3, <2>7, <2>8
  <1> QED BY <1>1, <1>2

LEMMA AcceptedAuthInv ==
    ASSUME AuthInv, NEW d \in 0..Slow, TokenAccepted(d)
    PROVE  TokenTypes' /\ Renewals' /\ Ages'
  <1>0. IInv /\ TokenTypes /\ Renewals /\ Ages /\ elapsed \in Nat
    BY DEF AuthInv, IInv, TypeOK
  <1>1. Outcome(d) /\ token' = Older /\ UNCHANGED <<cached, refusals>>
    BY DEF TokenAccepted, Outcome
  <1>2. CASE Unauthorized(d)
    <2>1. /\ pc' = "authorize" /\ ~retried_oauth /\ pc = "sent"
      BY <1>2 DEF Unauthorized
    <2>2. pc' \in {"attempt", "done"} \/ UNCHANGED retried_oauth
      BY DEF TokenAccepted, ConnectFails, TimesOut, TransportBreaks, RateLimited, ServerError,
             Rejected, Answered, Malformed, Redirected, RetryOrRaise, Raise, Succeed
    <2> QED BY <1>2, <2>1, <2>2 DEF Unauthorized
  <1>3. CASE ~Unauthorized(d)
    <2>1. /\ pc = "sent" /\ elapsed' \in Nat /\ elapsed' >= elapsed
          /\ UNCHANGED <<call, retried_oauth>>
          /\ ((pc' = "attempt" /\ attempt' >= 2) \/ pc' = "done")
      BY <1>0, <1>1, <1>3, OutcomeTime
    <2>2. TokenTypes' BY <1>0, <1>1, <2>1, OlderToken DEF TokenTypes
    <2>3. Renewals' BY <1>0, <1>1, <2>1, OlderToken DEF Renewals, call
    <2>4. attempt' # 1 \/ pc' = "done"
      <3>1. attempt' \in Nat BY <1>0, <1>1, StepIInv DEF Next, Client, IInv, TypeOK
      <3> QED BY <2>1, <3>1
    <2>5. retried_oauth /\ pc' = "attempt" => token'.age <= elapsed' + Slow
      BY <1>0, <1>1, <2>1, <2>2, OlderToken, Policy DEF Ages, TokenTypes
    <2>6. Ages'
      BY <1>0, <1>1, <2>1, <2>4, <2>5 DEF Ages, call
    <2> QED BY <2>2, <2>3, <2>6
  <1> QED BY <1>2, <1>3

LEMMA StepAuthInv == AuthInv /\ [NextAuth]_authVars => AuthInv'
  <1> SUFFICES ASSUME AuthInv, [NextAuth]_authVars PROVE AuthInv' OBVIOUS
  <1>1. IInv' BY CallStep, StepIInv DEF AuthInv
  <1>2. CASE AuthClient
    BY <1>1, <1>2, AuthorizeAuthInv, SendAuthInv, RefusedAuthInv, AcceptedAuthInv
       DEF AuthClient, AuthInv
  <1>3. CASE UNCHANGED <<call, client, tokens>>
    BY <1>1, <1>3 DEF call, client, tokens, AuthInv, TokenTypes, Renewals, Ages
  <1>4. CASE \E i \in Sends : (ServerActs(i) \/ NetworkLoses(i)) /\ UNCHANGED tokens
    BY <1>3, <1>4 DEF ServerActs, NetworkLoses
  <1>5. CASE (Terminated /\ UNCHANGED tokens) \/ UNCHANGED authVars
    BY <1>3, <1>5 DEF Terminated, vars, authVars
  <1> QED BY <1>2, <1>4, <1>5 DEF NextAuth

\* What holds of a call and of its tokens throughout.
THEOREM AuthInductiveInvariant == AuthSpec => []AuthInv
  BY InitAuthInv, StepAuthInv, PTL DEF AuthSpec

\* No call begins with an expired token, none sends a refused token again, and a
\* renewed token is refused as expired only if it is shorter-lived than a retry
\* window (get_access_token, invalidate and the retry of _request).
THEOREM TokensTheorem == AuthSpec => []TokensAreRenewed
  <1>1. AuthInv => TokensAreRenewed
    <2> SUFFICES ASSUME AuthInv PROVE TokensAreRenewed OBVIOUS
    <2>1. DOMAIN refusals = 1..Len(refusals) /\ Len(refusals) \in 0..2
      BY DEF AuthInv, TokenTypes, Renewals
    <2>2. \A n \in 1..Len(refusals) : refusals[n].number \in Nat
      <3>1. \A r \in Refusals : r.number \in Nat BY DEF Refusals
      <3>2. refusals \in Seq(Refusals) BY DEF AuthInv, TokenTypes
      <3>3. \A n \in 1..Len(refusals) : refusals[n] \in Refusals BY <3>2
      <3> QED BY <3>1, <3>3
    <2>3. \A m, n \in DOMAIN refusals : refusals[m].number = refusals[n].number => m = n
      BY <2>1, <2>2 DEF AuthInv, Renewals
    <2>4. Ages BY DEF AuthInv
    <2> QED BY <2>3, <2>4 DEF Ages, TokensAreRenewed
  <1> QED BY <1>1, AuthInductiveInvariant, PTL

\* With its tokens too, a call acts once at most, in its window, and is one RemoteCall.
THEOREM AuthorizedCall ==
    AuthSpec => /\ []TypeOK /\ []AttemptsStayInWindow /\ []AtMostOneEffect
                /\ Abstract!Init /\ [][Abstract!Next]_Abstract!vars
  <1>1. IInv => TypeOK /\ AttemptsStayInWindow
    BY Policy DEF IInv, TypeOK, Window, SentBefore, AttemptsStayInWindow
  <1>2. IInv => AtMostOneEffect
    BY OneEffect DEF AtMostOneEffect
  <1> QED BY <1>1, <1>2, HttpRequestRefinement, CallInvariant, AbstractInit, AbstractStep, PTL
====
