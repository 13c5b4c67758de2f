--------------------------- MODULE StructuredCall ---------------------------
(***************************************************************************)
(* One structured model call: BaseLLMProvider.complete_structured over the *)
(* complete of an OpenAI-compatible provider over request_with_retry.      *)
(* Every agent of the retrieval loop awaits calls of this shape.           *)
(*                                                                         *)
(* What a request to the provider comes to:                                *)
(*   valid        200, and the content is JSON that fits the schema        *)
(*   invalid      200, and it is not                                       *)
(*   malformed    200, and the body has no content to be found             *)
(*   rejected     any other status that is not retried                     *)
(*   unavailable  500, 502, 503 or 504                                     *)
(*   unconnected  one of _RETRYABLE_TRANSPORT_ERRORS                       *)
(*   broken       any other transport error                                *)
(***************************************************************************)
EXTENDS Integers, Sequences

CONSTANT MaxAttempts    \* max_attempts of request_with_retry

ASSUME AtLeastOneAttempt == MaxAttempts \in Nat \ {0}

VARIABLES
    stage,      \* "send", "backoff" or how the call ended
    round,      \* 1 the first prompt, 2 the prompt that quotes the error
    attempt,    \* attempt of request_with_retry in this round
    log         \* what each request came to

callVars == <<stage, round, attempt, log>>

Answered    == {"valid", "invalid", "malformed", "rejected"}
Retryable   == {"unavailable", "unconnected"}
Results     == Answered \union Retryable \union {"broken"}
Ended       == {"value", "ModelProviderError", "other error", "cancelled"}

CallInit ==
    /\ stage = "send"
    /\ round = 1
    /\ attempt = 1
    /\ log = <<>>

\* Mutant: a client error is retried like a server error.
Retried4xx(result) == result \in Retryable \union {"rejected"}

\* What request_with_retry tries again.
Retried(result) == result \in Retryable

\* Mutant: the corrected answer is taken as it comes.
AfterAnswerUnvalidated(result) ==
    CASE result = "valid" -> "value"
      [] result = "invalid" -> IF round = 1 THEN "send" ELSE "value"
      [] result = "rejected" -> "ModelProviderError"
      [] result = "malformed" -> "other error"

\* Mutant: the model is asked for a correction until it gives one.
AfterAnswerInsisting(result) ==
    CASE result = "valid" -> "value"
      [] result = "invalid" -> "send"
      [] result = "rejected" -> "ModelProviderError"
      [] result = "malformed" -> "other error"

\* What an answer leads to: content that does not validate is quoted back to
\* the model once, a body that has no content raises what it raises.
AfterAnswer(result) ==
    CASE result = "valid" -> "value"
      [] result = "invalid" -> IF round = 1 THEN "send" ELSE "ModelProviderError"
      [] result = "rejected" -> "ModelProviderError"
      [] result = "malformed" -> "other error"

\* request_with_retry returns a response that it does not retry.
Answer ==
    /\ stage = "send"
    /\ \E result \in Answered :
          /\ ~ Retried(result)
          /\ log' = Append(log, result)
          /\ stage' = AfterAnswer(result)
          /\ IF AfterAnswer(result) = "send"
             THEN round' = 2 /\ attempt' = 1
             ELSE UNCHANGED <<round, attempt>>

\* An attempt fails and another one follows after a delay.
FailAndBackOff ==
    /\ stage = "send"
    /\ attempt < MaxAttempts
    /\ \E result \in Results :
          /\ Retried(result)
          /\ log' = Append(log, result)
    /\ stage' = "backoff"
    /\ UNCHANGED <<round, attempt>>

\* Mutant: the attempt after the last delay is not made.
TryAgainOneLess ==
    /\ stage = "backoff"
    /\ attempt + 1 < MaxAttempts
    /\ attempt' = attempt + 1
    /\ stage' = "send"
    /\ UNCHANGED <<round, log>>

\* asyncio.sleep is over.
TryAgain ==
    /\ stage = "backoff"
    /\ attempt' = attempt + 1
    /\ stage' = "send"
    /\ UNCHANGED <<round, log>>

\* The last attempt fails: what it came to, a response or an exception, is
\* what request_with_retry leaves with, and complete turns either into
\* ModelProviderError.
GiveUp ==
    /\ stage = "send"
    /\ attempt = MaxAttempts
    /\ \E result \in Results :
          /\ Retried(result)
          /\ log' = Append(log, result)
    /\ stage' = "ModelProviderError"
    /\ UNCHANGED <<round, attempt>>

\* A transport error outside the list is not retried.
Break ==
    /\ stage = "send"
    /\ log' = Append(log, "broken")
    /\ stage' = "ModelProviderError"
    /\ UNCHANGED <<round, attempt>>

\* The latency budget of the query ends the call at its await.
CancelCall ==
    /\ stage \in {"send", "backoff"}
    /\ stage' = "cancelled"
    /\ UNCHANGED <<round, attempt, log>>

Step ==
    \/ Answer
    \/ FailAndBackOff
    \/ TryAgain
    \/ GiveUp
    \/ Break

CallNext == Step \/ CancelCall

\* Requests have a timeout of 30 s and the event loop resumes who is ready.
CallSpec == CallInit /\ [][CallNext]_callVars /\ WF_callVars(Step)

----------------------------------------------------------------------------
(* Properties *)

\* The types of the call's state.
CallTypeOK ==
    /\ stage \in {"send", "backoff"} \union Ended
    /\ round \in 1 .. 2
    /\ attempt \in 1 .. MaxAttempts
    /\ log \in Seq(Results)

\* The two bounded retries multiply and no more: a call sends at most twice
\* max_attempts requests.
SendsBounded == Len(log) <= 2 * MaxAttempts

\* "never a 4xx": a request is followed by another only if it met a retryable
\* failure, or content that did not validate, and that happens once per call.
OnlyTransientFailuresAreResent ==
    /\ \A k \in 1 .. Len(log) - 1 : log[k] \in Retryable \union {"invalid"}
    /\ \A j, k \in 1 .. Len(log) - 1 :
          log[j] = "invalid" /\ log[k] = "invalid" => j = k

\* A value handed to an agent has been validated against the schema, and an
\* error is raised only after the last request went wrong, for unvalidated
\* content only after the correction went wrong too.
OutcomeIsEarned ==
    /\ stage = "value" => log # <<>> /\ log[Len(log)] = "valid"
    /\ stage = "ModelProviderError" =>
          /\ log # <<>> /\ log[Len(log)] # "valid"
          /\ log[Len(log)] = "invalid" =>
                \E k \in 1 .. Len(log) - 1 : log[k] = "invalid"
    /\ stage = "other error" => log[Len(log)] = "malformed"

\* "a flaky provider can slow a request down, never hang it forever"
CallEnds == stage = "send" ~> stage \in Ended

=============================================================================
