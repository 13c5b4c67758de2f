--------------------------- MODULE SynthesisCall ---------------------------
(***************************************************************************)
(* AnswerVerification over StructuredCall: SynthesisAgent.synthesize makes *)
(* one structured call, and what becomes of it decides whether there are   *)
(* claims to validate.  The locals of the call are gone when it is over.   *)
(***************************************************************************)
EXTENDS AnswerVerification, StructuredCall

synthesisVars == <<vars, callVars>>

\* No call is under way.
SynthesisInit ==
    Init /\ stage = "none" /\ round = 1 /\ attempt = 1 /\ log = <<>>

\* The call's locals are new ("send"), or gone ("none").
Renew(s) == stage' = s /\ round' = 1 /\ attempt' = 1 /\ log' = <<>>

\* The model is asked if the filter has left it anything to read.
FilterThenAsk ==
    /\ Filter
    /\ IF evidence' = <<>> THEN UNCHANGED callVars ELSE Renew("send")

\* One step of the call, which leaves the verifier waiting.
Call == CallNext /\ UNCHANGED vars

\* synthesize returns: at once, or with what the call has validated.
TakeClaims ==
    /\ evidence = <<>> \/ stage = "value"
    /\ Synthesize
    /\ Renew("none")

\* The call raised or was cancelled, and the verifier with it.
LoseCall ==
    /\ stage \in Ended \ {"value"}
    /\ Abandon
    /\ Renew("none")

\* Claims are validated by calls that are not looked into here.
CheckClaims ==
    /\ pc = "validate"
    /\ Validate \/ Conclude \/ Abandon
    /\ UNCHANGED callVars

SynthesisNext == FilterThenAsk \/ Call \/ TakeClaims \/ LoseCall \/ CheckClaims

\* The call goes on as CallSpec has it.
SynthesisSpec ==
    /\ SynthesisInit
    /\ [][SynthesisNext]_synthesisVars
    /\ WF_synthesisVars(Step /\ UNCHANGED vars)

=============================================================================
