------------------------ MODULE AgenticLoop_proofs ------------------------
(***************************************************************************)
(* Proofs about AgenticLoop for all settings: type correctness, the two    *)
(* budgets, the bound on searches, that the termination reason is what the *)
(* rounds say, that evidence is handed over, and that every step is a step *)
(* of LoopContract; and about StructuredCall, the model calls of a run.    *)
(***************************************************************************)
EXTENDS AgenticLoop, StructuredCall, FiniteSetTheorems, SequenceTheorems, TLAPS

\* Between rounds every announced retrieval has been charged; within a batch
\* the charge is outstanding, and fits the budget.
BatchInv ==
    /\ calls <= started
    /\ started <= CallBudget
    /\ pc \in {"analyze", "plan", "expand", "next", "decompose", "evaluate",
               "returned"} => started = calls
    /\ pc = "decompose" => calls < MaxRetrievalCalls
    /\ pc = "search" =>
          /\ left \in 1 .. batch
          /\ calls + batch <= CallBudget
          /\ started = calls + batch - left + 1
    /\ pc = "bridge" =>
          /\ left \in 1 .. (batch - 1)
          /\ calls + batch <= CallBudget
          /\ started = calls + batch - left

\* The rounds traced, the loop variable and the charged calls keep step.
RoundInv ==
    /\ plan.iterations \in 1 .. Larger(1, MaxRetrievalIterations)
    /\ Len(trace) <= plan.iterations
    /\ Len(trace) <= calls
    /\ pc \in {"analyze", "plan", "expand"} => iteration = 0
    /\ iteration = 0 => calls = 0
    /\ pc \in {"analyze", "plan", "expand", "next"} =>
          Len(trace) = iteration /\ iteration < plan.iterations
    /\ pc \in {"decompose", "search", "bridge", "evaluate"} =>
          Len(trace) = iteration - 1 /\ iteration <= plan.iterations
    /\ pc = "evaluate" => Len(trace) < calls

\* Only the first round searches more than one variant per call.
SearchInv ==
    /\ searches <= started + MaxVariants - 1
    /\ started = 0 => searches = 0
    /\ pc = "next" /\ iteration > 0 => variants = 1
    /\ pc = "search" => searches + unsearched <= started + MaxVariants - 1

\* What the next round starts from is the evidence of the last one.
EvidenceInv ==
    pc = "next" /\ trace # <<>> => evidence = LastRound.found

IInv == /\ TypeOK
        /\ BatchInv
        /\ RoundInv
        /\ SearchInv
        /\ ReasonJustified
        /\ EvidenceInv
        /\ EvidenceHandedOver


\* The inductive invariant holds initially.
LEMMA InitIInv == Init => IInv
<1> SUFFICES ASSUME Init PROVE IInv
  OBVIOUS
<1>1. TypeOK
  <2>1. /\ plan \in [expand : BOOLEAN, decompose : BOOLEAN, iterations : Nat]
        /\ trace = <<>>
        /\ variants \in 1 .. MaxVariants
    BY BoundsArePositive DEF Init
  <2>2. trace \in Seq([found : SUBSET Chunks, sufficient : BOOLEAN,
                      conflict : BOOLEAN])
    BY <2>1, EmptySeq
  <2> QED
    BY <2>1, <2>2 DEF Init, TypeOK, Awaits
<1>2. BatchInv /\ RoundInv /\ SearchInv
  BY BoundsArePositive, SettingsAreIntegers
     DEF Init, BatchInv, RoundInv, SearchInv, CallBudget, Larger
<1>3. ReasonJustified /\ EvidenceInv /\ EvidenceHandedOver
  BY DEF Init, ReasonJustified, EvidenceInv, EvidenceHandedOver
<1> QED
  BY <1>1, <1>2, <1>3 DEF IInv

\* Every step keeps it.
LEMMA StepIInv == IInv /\ [Next]_vars => IInv'
<1> SUFFICES ASSUME IInv, [Next]_vars PROVE IInv'
  OBVIOUS
<1>1. CASE Analyze
  <2>1. TypeOK'
    BY <1>1, BoundsArePositive, SettingsAreIntegers
       DEF IInv, TypeOK, Awaits, Stopped, Reasons, Analyze, requestVars, batchVars,
           resultVars
  <2>2. BatchInv' /\ RoundInv' /\ SearchInv'
    BY <1>1, BoundsArePositive, SettingsAreIntegers
       DEF IInv, TypeOK, BatchInv, RoundInv, SearchInv, CallBudget, Larger,
           Analyze, requestVars, batchVars, resultVars
  <2>3. ReasonJustified' /\ EvidenceInv' /\ EvidenceHandedOver'
    BY <1>1, SettingsAreIntegers
       DEF IInv, TypeOK, RoundInv, BatchInv, ReasonJustified, EvidenceInv,
           EvidenceHandedOver, GoesOn, LastRound, CallBudget, Larger, Awaits,
           Analyze, requestVars, batchVars, resultVars
  <2> QED
    BY <2>1, <2>2, <2>3 DEF IInv
<1>2. CASE MakePlan
  <2>1. TypeOK'
    BY <1>2, BoundsArePositive, SettingsAreIntegers
       DEF IInv, TypeOK, Awaits, Stopped, Reasons, MakePlan, Clamp, Larger, Smaller, requestVars, batchVars,
           resultVars
  <2>2. BatchInv' /\ RoundInv' /\ SearchInv'
    BY <1>2, BoundsArePositive, SettingsAreIntegers
       DEF IInv, TypeOK, BatchInv, RoundInv, SearchInv, CallBudget, Larger,
           MakePlan, Clamp, Larger, Smaller, requestVars, batchVars, resultVars
  <2>3. ReasonJustified' /\ EvidenceInv' /\ EvidenceHandedOver'
    BY <1>2, SettingsAreIntegers
       DEF IInv, TypeOK, RoundInv, BatchInv, ReasonJustified, EvidenceInv,
           EvidenceHandedOver, GoesOn, LastRound, CallBudget, Larger, Awaits,
           MakePlan, requestVars, batchVars, resultVars
  <2> QED
    BY <2>1, <2>2, <2>3 DEF IInv
<1>3. CASE Expand
  <2>1. TypeOK'
    BY <1>3, BoundsArePositive, SettingsAreIntegers
       DEF IInv, TypeOK, Awaits, Stopped, Reasons, Expand, requestVars, batchVars,
           resultVars
  <2>2. BatchInv' /\ RoundInv' /\ SearchInv'
    BY <1>3, BoundsArePositive, SettingsAreIntegers
       DEF IInv, TypeOK, BatchInv, RoundInv, SearchInv, CallBudget, Larger,
           Expand, requestVars, batchVars, resultVars
  <2>3. ReasonJustified' /\ EvidenceInv' /\ EvidenceHandedOver'
    BY <1>3, SettingsAreIntegers
       DEF IInv, TypeOK, RoundInv, BatchInv, ReasonJustified, EvidenceInv,
           EvidenceHandedOver, GoesOn, LastRound, CallBudget, Larger, Awaits,
           Expand, requestVars, batchVars, resultVars
  <2> QED
    BY <2>1, <2>2, <2>3 DEF IInv
<1>4. CASE StopOnCallBudget
  <2>1. TypeOK'
    BY <1>4, BoundsArePositive, SettingsAreIntegers
       DEF IInv, TypeOK, Awaits, Stopped, Reasons, StopOnCallBudget, requestVars, batchVars,
           resultVars
  <2>2. BatchInv' /\ RoundInv' /\ SearchInv'
    BY <1>4, BoundsArePositive, SettingsAreIntegers
       DEF IInv, TypeOK, BatchInv, RoundInv, SearchInv, CallBudget, Larger,
           StopOnCallBudget, requestVars, batchVars, resultVars
  <2>3. ReasonJustified' /\ EvidenceInv' /\ EvidenceHandedOver'
    BY <1>4, SettingsAreIntegers
       DEF IInv, TypeOK, RoundInv, BatchInv, ReasonJustified, EvidenceInv,
           EvidenceHandedOver, GoesOn, LastRound, CallBudget, Larger, Awaits,
           StopOnCallBudget, requestVars, batchVars, resultVars
  <2> QED
    BY <2>1, <2>2, <2>3 DEF IInv
<1>5. CASE BeginDecomposition
  <2>1. TypeOK'
    BY <1>5, BoundsArePositive, SettingsAreIntegers
       DEF IInv, TypeOK, Awaits, Stopped, Reasons, BeginDecomposition, requestVars, batchVars,
           resultVars
  <2>2. BatchInv' /\ RoundInv' /\ SearchInv'
    BY <1>5, BoundsArePositive, SettingsAreIntegers
       DEF IInv, TypeOK, BatchInv, RoundInv, SearchInv, CallBudget, Larger,
           BeginDecomposition, requestVars, batchVars, resultVars
  <2>3. ReasonJustified' /\ EvidenceInv' /\ EvidenceHandedOver'
    BY <1>5, SettingsAreIntegers
       DEF IInv, TypeOK, RoundInv, BatchInv, ReasonJustified, EvidenceInv,
           EvidenceHandedOver, GoesOn, LastRound, CallBudget, Larger, Awaits,
           BeginDecomposition, requestVars, batchVars, resultVars
  <2> QED
    BY <2>1, <2>2, <2>3 DEF IInv
<1>6. CASE BeginSingleRetrieval
  <2>1. TypeOK'
    BY <1>6, BoundsArePositive, SettingsAreIntegers
       DEF IInv, TypeOK, Awaits, Stopped, Reasons, BeginSingleRetrieval, Retrieving, requestVars, batchVars,
           resultVars
  <2>2. BatchInv' /\ RoundInv' /\ SearchInv'
    BY <1>6, BoundsArePositive, SettingsAreIntegers
       DEF IInv, TypeOK, BatchInv, RoundInv, SearchInv, CallBudget, Larger,
           BeginSingleRetrieval, Retrieving, requestVars, batchVars, resultVars
  <2>3. ReasonJustified' /\ EvidenceInv' /\ EvidenceHandedOver'
    BY <1>6, SettingsAreIntegers
       DEF IInv, TypeOK, RoundInv, BatchInv, ReasonJustified, EvidenceInv,
           EvidenceHandedOver, GoesOn, LastRound, CallBudget, Larger, Awaits,
           BeginSingleRetrieval, Retrieving, requestVars, batchVars, resultVars
  <2> QED
    BY <2>1, <2>2, <2>3 DEF IInv
<1>7. CASE Decompose
  (* The batch is cut to what is left of the budget, and at least one call
     is left when the decomposition is asked for. *)
  <2>a. \A n \in 1 .. MaxSubqueries : Affordable(n) \in 1 .. Remaining
    BY <1>7, BoundsArePositive, SettingsAreIntegers
       DEF IInv, TypeOK, BatchInv, Decompose, Affordable, Remaining, Larger,
           Smaller
  <2>0. PICK k \in 1 .. Remaining :
          \/ Retrieving("chained", 2, 2, 1, {}) /\ Remaining >= 2
          \/ Retrieving("subqueries", k, k, 1, {})
    BY <1>7, <2>a DEF Decompose
  <2>1. TypeOK'
    BY <1>7, <2>0, SettingsAreIntegers
       DEF IInv, TypeOK, Awaits, Decompose, Retrieving, Remaining,
           requestVars, resultVars
  <2>b. /\ calls < MaxRetrievalCalls /\ pc = "decompose"
        /\ UNCHANGED <<requestVars, variants, iteration, calls, resultVars,
                       searches>>
    BY <1>7 DEF IInv, BatchInv, Decompose
  <2>2. BatchInv' /\ RoundInv' /\ SearchInv'
    <3>1. BatchInv'
      BY <2>0, <2>b, SettingsAreIntegers
         DEF IInv, TypeOK, BatchInv, CallBudget, Larger, Retrieving, Remaining
    <3>2. RoundInv'
      BY <2>0, <2>b DEF IInv, RoundInv, Retrieving, requestVars, resultVars
    <3>3. SearchInv'
      BY <2>0, <2>b, BoundsArePositive
         DEF IInv, TypeOK, SearchInv, Retrieving
    <3> QED
      BY <3>1, <3>2, <3>3
  <2>3. ReasonJustified' /\ EvidenceInv' /\ EvidenceHandedOver'
    BY <1>7, <2>0
       DEF IInv, ReasonJustified, EvidenceInv, EvidenceHandedOver, GoesOn,
           LastRound, Decompose, Retrieving, resultVars
  <2> QED
    BY <2>1, <2>2, <2>3 DEF IInv
<1>8. CASE Search
  <2>1. TypeOK'
    BY <1>8, BoundsArePositive, SettingsAreIntegers
       DEF IInv, TypeOK, Awaits, Stopped, Reasons, Search, requestVars, batchVars,
           resultVars
  <2>2. BatchInv' /\ RoundInv' /\ SearchInv'
    BY <1>8, BoundsArePositive, SettingsAreIntegers
       DEF IInv, TypeOK, BatchInv, RoundInv, SearchInv, CallBudget, Larger,
           Search, requestVars, batchVars, resultVars
  <2>3. ReasonJustified' /\ EvidenceInv' /\ EvidenceHandedOver'
    BY <1>8, SettingsAreIntegers
       DEF IInv, TypeOK, RoundInv, BatchInv, ReasonJustified, EvidenceInv,
           EvidenceHandedOver, GoesOn, LastRound, CallBudget, Larger, Awaits,
           Search, requestVars, batchVars, resultVars
  <2> QED
    BY <2>1, <2>2, <2>3 DEF IInv
<1>9. CASE RerankThenContinue
  <2>0. PICK kept \in Kept(merged) :
          \/ /\ found' = found \union kept
             /\ left' = left - 1
             /\ pc' = "bridge"
             /\ UNCHANGED <<mode, batch, unsearched, merged, started>>
          \/ Retrieving(mode, batch, left - 1, 1, found \union kept)
    BY <1>9 DEF RerankThenContinue
  <2>a. kept \subseteq Chunks
    BY <2>0 DEF IInv, TypeOK, Kept
  <2>b. /\ pc = "search" /\ unsearched = 0 /\ left > 1
        /\ UNCHANGED <<requestVars, variants, iteration, calls, resultVars,
                       searches>>
    BY <1>9 DEF RerankThenContinue
  <2>1. TypeOK'
    BY <2>0, <2>a, <2>b
       DEF IInv, TypeOK, Awaits, Retrieving, requestVars, resultVars
  <2>2. BatchInv' /\ RoundInv' /\ SearchInv'
    <3>0. /\ left \in 2 .. batch
          /\ calls + batch <= CallBudget
          /\ started = calls + batch - left + 1
      BY <2>b DEF IInv, TypeOK, BatchInv
    <3>1. BatchInv'
      <4>1. CASE pc' = "bridge"
        BY <2>0, <2>b, <3>0, <4>1, SettingsAreIntegers
           DEF IInv, TypeOK, BatchInv, CallBudget, Larger, Retrieving
      <4>2. CASE Retrieving(mode, batch, left - 1, 1, found \union kept)
        BY <2>b, <3>0, <4>2, SettingsAreIntegers
           DEF IInv, TypeOK, BatchInv, CallBudget, Larger, Retrieving
      <4> QED
        BY <2>0, <4>1, <4>2
    <3>2. RoundInv'
      BY <2>0, <2>b DEF IInv, RoundInv, Retrieving, requestVars, resultVars
    <3>3. SearchInv'
      BY <2>0, <2>b, BoundsArePositive
         DEF IInv, TypeOK, SearchInv, Retrieving
    <3> QED
      BY <3>1, <3>2, <3>3
  <2>3. ReasonJustified' /\ EvidenceInv' /\ EvidenceHandedOver'
    BY <2>0, <2>b
       DEF IInv, ReasonJustified, EvidenceInv, EvidenceHandedOver, GoesOn,
           LastRound, Retrieving, resultVars
  <2> QED
    BY <2>1, <2>2, <2>3 DEF IInv
<1>10. CASE Bridge
  <2>1. TypeOK'
    BY <1>10, BoundsArePositive, SettingsAreIntegers
       DEF IInv, TypeOK, Awaits, Stopped, Reasons, Bridge, Retrieving, requestVars, batchVars,
           resultVars
  <2>2. BatchInv' /\ RoundInv' /\ SearchInv'
    BY <1>10, BoundsArePositive, SettingsAreIntegers
       DEF IInv, TypeOK, BatchInv, RoundInv, SearchInv, CallBudget, Larger,
           Bridge, Retrieving, requestVars, batchVars, resultVars
  <2>3. ReasonJustified' /\ EvidenceInv' /\ EvidenceHandedOver'
    BY <1>10, SettingsAreIntegers
       DEF IInv, TypeOK, RoundInv, BatchInv, ReasonJustified, EvidenceInv,
           EvidenceHandedOver, GoesOn, LastRound, CallBudget, Larger, Awaits,
           Bridge, Retrieving, requestVars, batchVars, resultVars
  <2> QED
    BY <2>1, <2>2, <2>3 DEF IInv
<1>11. CASE RerankThenEvaluate
  (* The charge brings the counter level with the announcements. *)
  <2>1. TypeOK'
    <3>1. /\ found' \subseteq Chunks
          /\ evidence' \subseteq Chunks
      BY <1>11 DEF IInv, TypeOK, RerankThenEvaluate, Kept
    <3> QED
      BY <1>11, <3>1
         DEF IInv, TypeOK, Awaits, RerankThenEvaluate, requestVars
  <2>2. BatchInv' /\ RoundInv' /\ SearchInv'
    BY <1>11
       DEF IInv, TypeOK, BatchInv, RoundInv, SearchInv, RerankThenEvaluate,
           requestVars
  <2>3. ReasonJustified' /\ EvidenceInv' /\ EvidenceHandedOver'
    BY <1>11
       DEF IInv, ReasonJustified, EvidenceInv, EvidenceHandedOver, GoesOn,
           LastRound, RerankThenEvaluate
  <2> QED
    BY <2>1, <2>2, <2>3 DEF IInv
<1>12. CASE Evaluate
  <2>0. PICK v \in Verdicts :
          /\ trace' = Append(trace, v)
          /\ reason' = StopReason(v)
          /\ \/ StopReason(v) = "none" /\ pc' = "next" /\ variants' = RefinedQueries
             \/ /\ StopReason(v) # "none"
                /\ pc' = "returned"
                /\ variants' = variants
    BY <1>12 DEF Evaluate
  <2>a. /\ v \in [found : SUBSET Chunks, sufficient : BOOLEAN,
                   conflict : BOOLEAN]
        /\ v.found = evidence
        /\ v.sufficient => evidence # {}
        /\ v.conflict => evidence # {}
    <3>1. /\ v.found = evidence
          /\ v.sufficient \in BOOLEAN
          /\ v.conflict \in BOOLEAN
          /\ v.sufficient => evidence # {}
          /\ v.conflict => Cardinality(evidence) >= 2
          /\ v = [found |-> v.found, sufficient |-> v.sufficient,
                  conflict |-> v.conflict]
      BY <2>0 DEF Verdicts
    <3>2. Cardinality({}) = 0
      BY FS_EmptySet
    <3>3. v.conflict => evidence # {}
      BY <3>1, <3>2
    <3>4. v.found \in SUBSET Chunks
      BY <3>1 DEF IInv, TypeOK
    <3> QED
      BY <3>1, <3>3, <3>4
  <2>b. /\ pc = "evaluate"
        /\ UNCHANGED <<requestVars, iteration, calls, batchVars, evidence,
                       started, searches>>
    BY <1>12 DEF Evaluate
  <2>c. /\ Len(trace') = Len(trace) + 1
        /\ trace'[Len(trace')] = v
        /\ \A i \in 1 .. Len(trace) : trace'[i] = trace[i]
    BY <2>0, <2>a DEF IInv, TypeOK
  <2>1. TypeOK'
    BY <2>0, <2>a, <2>b, BoundsArePositive
       DEF IInv, TypeOK, Stopped, Reasons, StopReason, RefinedQueries,
           requestVars, batchVars
  <2>2. BatchInv' /\ RoundInv' /\ SearchInv'
    <3>1. pc' = "next" => iteration # plan.iterations
      BY <2>0 DEF StopReason
    <3> QED
      BY <2>0, <2>b, <2>c, <3>1, BoundsArePositive, SettingsAreIntegers
         DEF IInv, TypeOK, BatchInv, RoundInv, SearchInv, CallBudget, Larger,
             RefinedQueries, requestVars, batchVars
  <2>3. ReasonJustified'
    <3>1. pc' = "next" => GoesOn(v)
      BY <2>0, <2>a DEF StopReason, GoesOn
    <3>2. \A i \in 1 .. Len(trace) : GoesOn(trace[i])
      BY <2>b DEF IInv, ReasonJustified
    <3>3. Len(trace) + 1 = iteration /\ iteration <= plan.iterations
      BY <2>b DEF IInv, TypeOK, RoundInv
    <3> QED
      BY <2>0, <2>a, <2>b, <2>c, <3>1, <3>2, <3>3
         DEF IInv, TypeOK, ReasonJustified, GoesOn, LastRound, StopReason,
             requestVars
  <2>4. EvidenceInv' /\ EvidenceHandedOver'
    BY <2>0, <2>a, <2>b, <2>c
       DEF IInv, TypeOK, EvidenceInv, EvidenceHandedOver, LastRound,
           StopReason
  <2> QED
    BY <2>1, <2>2, <2>3, <2>4 DEF IInv
<1>13. CASE Fail
  <2>1. TypeOK'
    BY <1>13, BoundsArePositive, SettingsAreIntegers
       DEF IInv, TypeOK, Awaits, Stopped, Reasons, Fail, CanRaise, requestVars, batchVars,
           resultVars
  <2>2. BatchInv' /\ RoundInv' /\ SearchInv'
    BY <1>13, BoundsArePositive, SettingsAreIntegers
       DEF IInv, TypeOK, BatchInv, RoundInv, SearchInv, CallBudget, Larger,
           Fail, CanRaise, requestVars, batchVars, resultVars
  <2>3. ReasonJustified' /\ EvidenceInv' /\ EvidenceHandedOver'
    BY <1>13, SettingsAreIntegers
       DEF IInv, TypeOK, RoundInv, BatchInv, ReasonJustified, EvidenceInv,
           EvidenceHandedOver, GoesOn, LastRound, CallBudget, Larger, Awaits,
           Fail, CanRaise, requestVars, batchVars, resultVars
  <2> QED
    BY <2>1, <2>2, <2>3 DEF IInv
<1>14. CASE Cancel
  <2>1. TypeOK'
    BY <1>14, BoundsArePositive, SettingsAreIntegers
       DEF IInv, TypeOK, Awaits, Stopped, Reasons, Cancel, CanRaise, requestVars, batchVars,
           resultVars
  <2>2. BatchInv' /\ RoundInv' /\ SearchInv'
    BY <1>14, BoundsArePositive, SettingsAreIntegers
       DEF IInv, TypeOK, BatchInv, RoundInv, SearchInv, CallBudget, Larger,
           Cancel, CanRaise, requestVars, batchVars, resultVars
  <2>3. ReasonJustified' /\ EvidenceInv' /\ EvidenceHandedOver'
    BY <1>14, SettingsAreIntegers
       DEF IInv, TypeOK, RoundInv, BatchInv, ReasonJustified, EvidenceInv,
           EvidenceHandedOver, GoesOn, LastRound, CallBudget, Larger, Awaits,
           Cancel, CanRaise, requestVars, batchVars, resultVars
  <2> QED
    BY <2>1, <2>2, <2>3 DEF IInv
<1>15. CASE UNCHANGED vars
  BY <1>15
     DEF IInv, TypeOK, BatchInv, RoundInv, SearchInv, ReasonJustified,
         EvidenceInv, EvidenceHandedOver, GoesOn, LastRound, vars
<1> QED
  BY <1>1, <1>2, <1>3, <1>4, <1>5, <1>6, <1>7, <1>8, <1>9, <1>10, <1>11,
     <1>12, <1>13, <1>14, <1>15
     DEF Next, Progress

\* ... so it holds throughout.
LEMMA Invariance == Spec => []IInv
  BY InitIInv, StepIInv, PTL DEF Spec

----------------------------------------------------------------------------

\* Type correctness of the loop's state.
THEOREM TypeCorrect == Spec => []TypeOK
<1>1. IInv => TypeOK
  BY DEF IInv
<1> QED
  BY <1>1, Invariance, PTL

\* Whatever a plan proposes, the retrievals a run announces never exceed
\* max_retrieval_calls.
THEOREM CallBudgetSafe == Spec => []CallBudgetRespected
<1>1. IInv => CallBudgetRespected
  BY DEF IInv, BatchInv, CallBudgetRespected
<1> QED
  BY <1>1, Invariance, PTL

\* The rounds of a run never exceed the clamped plan, nor the plan the
\* setting, every traced round was charged, and expansion costs at most
\* MaxVariants - 1 searches beyond the call budget.
THEOREM WorkSafe == Spec => []WorkBounded
<1>1. ASSUME IInv
      PROVE  /\ plan.iterations <= Larger(1, MaxRetrievalIterations)
             /\ Len(trace) <= plan.iterations
             /\ Len(trace) <= calls
  BY <1>1, SettingsAreIntegers
     DEF IInv, TypeOK, RoundInv, Larger
<1>2. ASSUME IInv
      PROVE  searches <= IF CallBudget = 0 THEN 0
                         ELSE CallBudget + MaxVariants - 1
  BY <1>2, BoundsArePositive, SettingsAreIntegers
     DEF IInv, TypeOK, BatchInv, SearchInv, CallBudget, Larger
<1>3. IInv => WorkBounded
  BY <1>1, <1>2 DEF WorkBounded
<1> QED
  BY <1>3, Invariance, PTL

\* The termination reason is what the traced rounds say it is.
THEOREM ReasonSafe == Spec => []ReasonJustified
<1>1. IInv => ReasonJustified
  BY DEF IInv
<1> QED
  BY <1>1, Invariance, PTL

\* With a positive call budget, a run that returns anything but
\* no_evidence_found hands over the non-empty evidence of its last round.
THEOREM EvidenceSafe == Spec => []EvidenceHandedOver
<1>1. IInv => EvidenceHandedOver
  BY DEF IInv
<1> QED
  BY <1>1, Invariance, PTL

----------------------------------------------------------------------------

\* Steps that a caller does not see.
LEMMA HiddenStep ==
    ASSUME UNCHANGED <<evidence, reason, started>>,
           pc \notin Stopped, pc' \notin Stopped
    PROVE  UNCHANGED Contract!contractVars
BY DEF Contract!contractVars

\* Announcing one more retrieval.
LEMMA RetrieveStep ==
    ASSUME IInv', UNCHANGED <<evidence, reason>>,
           started' = started + 1, started \in Nat,
           pc \notin Stopped, pc' \notin Stopped
    PROVE  Contract!Retrieve
<1>1. started + 1 <= CallBudget
  BY DEF IInv, BatchInv, CallBudget
<1> QED
  BY <1>1, SettingsAreIntegers DEF Contract!Retrieve, CallBudget, Larger

\* Every step of the loop is a step of its contract or invisible to it.
THEOREM ContractImplemented == Spec => ImplementsContract
<1>1. Init => Contract!Init
  BY DEF Init, Contract!Init, Stopped
<1>2. IInv /\ IInv' /\ [Next]_vars => [Contract!Next]_(Contract!contractVars)
  <2> SUFFICES ASSUME IInv, IInv', [Next]_vars
               PROVE  Contract!Next \/ UNCHANGED Contract!contractVars
    OBVIOUS
  <2> USE DEF Stopped
  <2>0. started \in Nat
    BY DEF IInv, TypeOK
  <2>1. CASE Analyze \/ MakePlan \/ Expand \/ BeginDecomposition \/ Search
    BY <2>1, HiddenStep
       DEF Analyze, MakePlan, Expand, BeginDecomposition, Search, resultVars
  <2>2. CASE BeginSingleRetrieval \/ Decompose \/ Bridge
    <3>1. /\ started' = started + 1
          /\ pc \notin Stopped /\ pc' \notin Stopped
          /\ UNCHANGED <<evidence, reason>>
      BY <2>2
         DEF BeginSingleRetrieval, Decompose, Bridge, Retrieving, resultVars
    <3> QED
      BY <2>0, <3>1, RetrieveStep DEF Contract!Next
  <2>3. CASE RerankThenContinue
    <3>1. /\ \/ started' = started + 1
             \/ started' = started
          /\ pc \notin Stopped /\ pc' \notin Stopped
          /\ UNCHANGED <<evidence, reason>>
      BY <2>3 DEF RerankThenContinue, Retrieving, resultVars
    <3> QED
      BY <2>0, <3>1, HiddenStep, RetrieveStep DEF Contract!Next
  <2>4. CASE RerankThenEvaluate
    <3>1. started > 0
      BY <2>4 DEF IInv, TypeOK, BatchInv, RerankThenEvaluate
    <3>2. /\ pc \notin Stopped /\ pc' \notin Stopped
          /\ UNCHANGED <<reason, started>>
      BY <2>4 DEF RerankThenEvaluate
    <3> QED
      BY <3>1, <3>2 DEF Contract!Gather, Contract!Next
  <2>5. CASE Evaluate
    <3>1. PICK v \in Verdicts :
            /\ reason' = StopReason(v)
            /\ IF StopReason(v) = "none" THEN pc' = "next"
                                        ELSE pc' = "returned"
      BY <2>5 DEF Evaluate
    <3>2. pc \notin Stopped /\ UNCHANGED <<evidence, started>>
      BY <2>5 DEF Evaluate
    <3>3. reason = "none" /\ started > 0
      BY <2>5 DEF IInv, TypeOK, BatchInv, RoundInv, ReasonJustified, Evaluate
    <3>4. /\ v.found = evidence
          /\ v.sufficient => evidence # {}
          /\ v.conflict => evidence # {}
      <4>1. Cardinality({}) = 0
        BY FS_EmptySet
      <4>2. /\ v.found = evidence
            /\ v.sufficient => evidence # {}
            /\ v.conflict => Cardinality(evidence) >= 2
        BY DEF Verdicts
      <4> QED
        BY <4>1, <4>2
    <3>5. CASE StopReason(v) = "none"
      BY <3>1, <3>2, <3>3, <3>5, HiddenStep
    <3>6. CASE StopReason(v) # "none"
      BY <3>1, <3>2, <3>3, <3>4, <3>6
         DEF StopReason, Contract!Return, Contract!NeedEvidence, Contract!Next
    <3> QED
      BY <3>5, <3>6
  <2>6. CASE StopOnCallBudget
    <3>1. /\ pc = "next" /\ pc' = "returned"
          /\ reason' = "max_retrieval_calls_reached"
          /\ UNCHANGED <<evidence, started>>
      BY <2>6 DEF StopOnCallBudget
    <3>2. started = CallBudget
      BY <2>6, SettingsAreIntegers
         DEF IInv, TypeOK, BatchInv, StopOnCallBudget, CallBudget, Larger
    <3>3. CallBudget > 0 => evidence # {}
      <4> SUFFICES ASSUME CallBudget > 0 PROVE evidence # {}
        OBVIOUS
      <4>1. trace # <<>> /\ Len(trace) \in 1 .. Len(trace)
        BY SMTT(30), <3>1, <3>2 DEF IInv, TypeOK, BatchInv, RoundInv
      <4>2. GoesOn(LastRound)
        BY <3>1, <4>1 DEF IInv, ReasonJustified, LastRound
      <4> QED
        BY <3>1, <4>1, <4>2 DEF IInv, EvidenceInv, GoesOn
    <3> QED
      BY <3>1, <3>2, <3>3 DEF Contract!Return, Contract!Next
  <2>7. CASE Fail \/ Cancel
    <3>1. /\ pc \notin Stopped
          /\ pc' \in {"failed", "cancelled"}
          /\ UNCHANGED <<evidence, reason, started>>
      BY <2>7 DEF Fail, Cancel, CanRaise, Awaits, resultVars
    <3> QED
      BY <3>1 DEF Contract!Abort, Contract!Next
  <2>8. CASE UNCHANGED vars
    BY <2>8 DEF vars, Contract!contractVars
  <2> QED
    BY <2>1, <2>2, <2>3, <2>4, <2>5, <2>6, <2>7, <2>8 DEF Next, Progress
<1> QED
  BY <1>1, <1>2, Invariance, PTL DEF Spec, ImplementsContract, Contract!Spec

----------------------------------------------------------------------------
(* StructuredCall, the model calls of a run: none of its properties is     *)
(* inductive.  The bound on the requests needs the number of them at every *)
(* point of the two nested retries (SendInv); which failures may be        *)
(* followed by another request needs what the log holds while the call     *)
(* goes on (LogInv).                                                       *)

Going == stage \in {"send", "backoff"}

\* Requests of the rounds before this one, at most.
Before == IF round = 1 THEN 0 ELSE MaxAttempts

SendInv ==
    /\ stage = "send" => Len(log) <= Before + attempt - 1
    /\ stage = "backoff" => /\ Len(log) <= Before + attempt
                         /\ attempt < MaxAttempts
    /\ Len(log) <= Before + MaxAttempts

LogInv ==
    /\ Going => \A k \in 1 .. Len(log) : log[k] \in Retryable \union {"invalid"}
    /\ Going /\ round = 1 => \A k \in 1 .. Len(log) : log[k] # "invalid"
    /\ round = 2 => \E k \in 1 .. Len(log) : log[k] = "invalid"
    /\ Going => \A j, k \in 1 .. Len(log) :
                    log[j] = "invalid" /\ log[k] = "invalid" => j = k

CallInv == CallTypeOK /\ SendInv /\ LogInv /\ OnlyTransientFailuresAreResent
               /\ OutcomeIsEarned

\* Nothing has been sent at first.
LEMMA CallInitInv == CallInit => CallInv
<1> SUFFICES ASSUME CallInit PROVE CallInv
    OBVIOUS
<1>1. Len(log) = 0 /\ log \in Seq(Results)
    BY DEF CallInit
<1>2. CallTypeOK
    <2>1. attempt \in 1 .. MaxAttempts
        BY AtLeastOneAttempt DEF CallInit
    <2>2. stage \in {"send", "backoff"} \union Ended /\ round \in 1 .. 2
        BY DEF CallInit
    <2> QED BY <1>1, <2>1, <2>2 DEF CallTypeOK
<1>3. SendInv
    BY <1>1, AtLeastOneAttempt DEF CallInit, SendInv, Before
<1>4. LogInv /\ OnlyTransientFailuresAreResent
    BY <1>1 DEF CallInit, LogInv, Going, OnlyTransientFailuresAreResent
<1>5. OutcomeIsEarned
    BY DEF CallInit, OutcomeIsEarned
<1> QED BY <1>2, <1>3, <1>4, <1>5 DEF CallInv

\* A request in the log stays where it is when another one is appended.
LEMMA Appended ==
    ASSUME CallTypeOK, NEW result \in Results, log' = Append(log, result)
    PROVE  /\ log' \in Seq(Results)
           /\ Len(log') = Len(log) + 1
           /\ Len(log) \in Nat
           /\ log'[Len(log')] = result
           /\ \A k \in 1 .. Len(log) : log'[k] = log[k]
BY DEF CallTypeOK

\* Every step keeps the invariant.
LEMMA CallStepInv == CallInv /\ [CallNext]_callVars => CallInv'
<1> SUFFICES ASSUME CallInv, [CallNext]_callVars PROVE CallInv'
    OBVIOUS
<1> USE AtLeastOneAttempt
<1>1. CASE Answer
    <2>1. PICK result \in Answered :
             /\ ~ Retried(result)
             /\ log' = Append(log, result)
             /\ stage' = AfterAnswer(result)
             /\ IF AfterAnswer(result) = "send"
                THEN round' = 2 /\ attempt' = 1
                ELSE UNCHANGED <<round, attempt>>
        BY <1>1 DEF Answer
    <2>2. result \in Results
        BY DEF Results
    <2>3. /\ log' \in Seq(Results)
          /\ Len(log') = Len(log) + 1
          /\ Len(log) \in Nat
          /\ log'[Len(log')] = result
          /\ \A k \in 1 .. Len(log) : log'[k] = log[k]
        BY <2>1, <2>2, Appended DEF CallInv
    <2>4. stage = "send"
        BY <1>1 DEF Answer
    <2>5. CASE result = "invalid" /\ round = 1
        <3>1. stage' = "send" /\ round' = 2 /\ attempt' = 1
            BY <2>1, <2>5 DEF AfterAnswer
        <3>2. CallTypeOK'
            BY <2>3, <2>4, <3>1 DEF CallInv, CallTypeOK
        <3>3. SendInv'
            BY <2>3, <2>4, <2>5, <3>1 DEF CallInv, CallTypeOK, SendInv, Before
        <3>4. LogInv'
            BY <2>3, <2>4, <2>5, <3>1 DEF CallInv, LogInv, Going
        <3>5. OnlyTransientFailuresAreResent'
            BY <2>3, <2>4, <2>5 DEF CallInv, LogInv, Going,
               OnlyTransientFailuresAreResent
        <3>6. OutcomeIsEarned'
            BY <3>1 DEF OutcomeIsEarned
        <3> QED BY <3>2, <3>3, <3>4, <3>5, <3>6 DEF CallInv
    <2>6. CASE ~ (result = "invalid" /\ round = 1)
        <3>1. /\ stage' \in {"value", "ModelProviderError", "other error"}
              /\ result = "valid" <=> stage' = "value"
              /\ result = "malformed" <=> stage' = "other error"
              /\ round' = round /\ attempt' = attempt
              /\ stage' \notin {"send", "backoff"}
            BY <2>1, <2>6 DEF AfterAnswer, Answered, CallInv, CallTypeOK
        <3>2. CallTypeOK'
            BY <2>3, <2>4, <3>1 DEF CallInv, CallTypeOK, Ended
        <3>3. SendInv'
            <4>1. Before' = Before
                BY <3>1 DEF Before
            <4>2. Before \in Nat /\ attempt \in 1 .. MaxAttempts
                BY DEF CallInv, CallTypeOK, Before
            <4>3. Len(log) <= Before + attempt - 1
                BY <2>4 DEF CallInv, SendInv
            <4>4. Len(log') <= Before' + MaxAttempts
                BY <2>3, <4>1, <4>2, <4>3
            <4> QED BY <3>1, <4>4 DEF SendInv
        <3>4. LogInv'
            <4>1. ~ Going'
                BY <3>1 DEF Going
            <4>2. ASSUME round' = 2
                  PROVE  \E k \in 1 .. Len(log') : log'[k] = "invalid"
                <5>1. PICK k \in 1 .. Len(log) : log[k] = "invalid"
                    BY <3>1, <4>2 DEF CallInv, LogInv
                <5>2. k \in 1 .. Len(log') /\ log'[k] = "invalid"
                    BY <2>3, <5>1
                <5> QED BY <5>2
            <4> QED BY <4>1, <4>2 DEF LogInv
        <3>5. OnlyTransientFailuresAreResent'
            BY <2>3, <2>4 DEF CallInv, LogInv, Going,
               OnlyTransientFailuresAreResent
        <3>6. OutcomeIsEarned'
            <4>1. result = "invalid" =>
                     \E k \in 1 .. Len(log') - 1 : log'[k] = "invalid"
                BY <2>3, <2>6 DEF CallInv, CallTypeOK, LogInv
            <4>2. log' # <<>>
                BY <2>3
            <4>3. stage' = "value" => log'[Len(log')] = "valid"
                BY <2>3, <3>1
            <4>4. stage' = "ModelProviderError" => log'[Len(log')] # "valid"
                BY <2>3, <3>1
            <4>5. stage' = "other error" => log'[Len(log')] = "malformed"
                BY <2>3, <3>1
            <4>6. log'[Len(log')] = result
                BY <2>3
            <4> QED BY <4>1, <4>2, <4>3, <4>4, <4>5, <4>6 DEF OutcomeIsEarned
        <3> QED BY <3>2, <3>3, <3>4, <3>5, <3>6 DEF CallInv
    <2> QED BY <2>5, <2>6
<1>2. CASE FailAndBackOff
    <2>1. PICK result \in Retryable : log' = Append(log, result)
        BY <1>2 DEF FailAndBackOff, Retried
    <2>2. result \in Results /\ result # "invalid"
        BY DEF Results, Retryable
    <2>3. /\ log' \in Seq(Results)
          /\ Len(log') = Len(log) + 1
          /\ Len(log) \in Nat
          /\ log'[Len(log')] = result
          /\ \A k \in 1 .. Len(log) : log'[k] = log[k]
        BY <2>1, <2>2, Appended DEF CallInv
    <2>4. /\ stage = "send" /\ stage' = "backoff" /\ attempt < MaxAttempts
          /\ UNCHANGED <<round, attempt>>
        BY <1>2 DEF FailAndBackOff
    <2>5. CallTypeOK'
        BY <2>3, <2>4 DEF CallInv, CallTypeOK
    <2>6. SendInv'
        BY <2>3, <2>4 DEF CallInv, CallTypeOK, SendInv, Before
    <2>7. LogInv'
        BY <2>2, <2>3, <2>4 DEF CallInv, LogInv, Going
    <2>8. OnlyTransientFailuresAreResent'
        BY <2>3, <2>4 DEF CallInv, LogInv, Going, OnlyTransientFailuresAreResent
    <2>9. OutcomeIsEarned'
        BY <2>4 DEF OutcomeIsEarned
    <2> QED BY <2>5, <2>6, <2>7, <2>8, <2>9 DEF CallInv
<1>3. CASE TryAgain
    <2>1. /\ stage = "backoff" /\ stage' = "send" /\ attempt' = attempt + 1
          /\ UNCHANGED <<round, log>>
        BY <1>3 DEF TryAgain
    <2>2. CallTypeOK' /\ SendInv'
        BY <2>1 DEF CallInv, CallTypeOK, SendInv, Before
    <2>3. LogInv' /\ OnlyTransientFailuresAreResent' /\ OutcomeIsEarned'
        BY <2>1 DEF CallInv, LogInv, Going, OnlyTransientFailuresAreResent,
           OutcomeIsEarned
    <2> QED BY <2>2, <2>3 DEF CallInv
<1>4. CASE GiveUp \/ Break
    <2>1. PICK result \in Retryable \union {"broken"} :
             log' = Append(log, result)
        BY <1>4 DEF GiveUp, Break, Retried
    <2>2. result \in Results /\ result \notin {"invalid", "valid"}
        BY DEF Results, Retryable
    <2>3. /\ log' \in Seq(Results)
          /\ Len(log') = Len(log) + 1
          /\ Len(log) \in Nat
          /\ log'[Len(log')] = result
          /\ \A k \in 1 .. Len(log) : log'[k] = log[k]
        BY <2>1, <2>2, Appended DEF CallInv
    <2>4. /\ stage = "send" /\ stage' = "ModelProviderError"
          /\ UNCHANGED <<round, attempt>>
        BY <1>4 DEF GiveUp, Break
    <2>5. CallTypeOK'
        BY <2>3, <2>4 DEF CallInv, CallTypeOK, Ended
    <2>6. SendInv'
        BY <2>3, <2>4 DEF CallInv, CallTypeOK, SendInv, Before
    <2>7. LogInv'
        BY <2>3, <2>4 DEF CallInv, LogInv, Going
    <2>8. OnlyTransientFailuresAreResent'
        BY <2>3, <2>4 DEF CallInv, LogInv, Going, OnlyTransientFailuresAreResent
    <2>9. OutcomeIsEarned'
        BY <2>2, <2>3, <2>4 DEF OutcomeIsEarned
    <2> QED BY <2>5, <2>6, <2>7, <2>8, <2>9 DEF CallInv
<1>5. CASE CancelCall
    <2>1. /\ stage \in {"send", "backoff"} /\ stage' = "cancelled"
          /\ UNCHANGED <<round, attempt, log>>
        BY <1>5 DEF CancelCall
    <2> QED BY <2>1 DEF CallInv, CallTypeOK, SendInv, Before, LogInv, Going, Ended,
            OnlyTransientFailuresAreResent, OutcomeIsEarned
<1>6. CASE UNCHANGED callVars
    BY <1>6 DEF callVars, CallInv, CallTypeOK, SendInv, Before, LogInv, Going,
       OnlyTransientFailuresAreResent, OutcomeIsEarned
<1> QED BY <1>1, <1>2, <1>3, <1>4, <1>5, <1>6 DEF CallNext, Step

LEMMA CallInvariance == CallSpec => []CallInv
BY CallInitInv, CallStepInv, PTL DEF CallSpec

\* The state of a call keeps its types, for any number of attempts.
THEOREM CallTypeCorrect == CallSpec => []CallTypeOK
BY CallInvariance, PTL DEF CallInv

\* The two nested retries of complete_structured and request_with_retry send
\* at most twice max_attempts requests.
THEOREM SendsSafe == CallSpec => []SendsBounded
<1>1. CallInv => SendsBounded
    BY AtLeastOneAttempt DEF CallInv, CallTypeOK, SendInv, Before, SendsBounded
<1> QED BY <1>1, CallInvariance, PTL

\* A request is followed by another only after a retryable failure or, once,
\* after content that does not validate: never after a 4xx.
THEOREM ResendsSafe == CallSpec => []OnlyTransientFailuresAreResent
BY CallInvariance, PTL DEF CallInv

\* Values are validated ones, errors follow failed last requests.
THEOREM OutcomeSafe == CallSpec => []OutcomeIsEarned
BY CallInvariance, PTL DEF CallInv

=============================================================================
