--------------------------- MODULE LoopContract ---------------------------
(***************************************************************************)
(* What a caller of AgenticRetrievalLoop.run is promised, without saying   *)
(* how: a run spends at most Budget retrievals and stops in one of three   *)
(* ways, for good.  When it returns, its termination reason tells whether the  *)
(* evidence it hands over can be synthesised from.                         *)
(***************************************************************************)
EXTENDS Integers

CONSTANT Budget     \* the retrievals a run may make

VARIABLES
    phase,          \* "running", or how the run stopped
    outcome,        \* its termination reason
    usable,         \* it holds some evidence
    spent           \* retrievals announced so far

contractVars == <<phase, outcome, usable, spent>>

NeedEvidence == {"sufficient_evidence", "max_iterations_reached",
                 "conflicting_evidence"}

Init ==
    /\ phase = "running"
    /\ outcome = "none"
    /\ usable = FALSE
    /\ spent = 0

\* One more retrieval is announced.
Retrieve ==
    /\ phase = "running"
    /\ spent < Budget
    /\ spent' = spent + 1
    /\ UNCHANGED <<phase, outcome, usable>>

\* Retrievals have come back: there is evidence now, or there is none.
Gather ==
    /\ phase = "running"
    /\ spent > 0
    /\ usable' \in BOOLEAN
    /\ UNCHANGED <<phase, outcome, spent>>

\* The run returns for a reason its evidence bears out.
Return ==
    /\ phase = "running"
    /\ \/ outcome' \in NeedEvidence /\ usable
       \/ outcome' = "no_evidence_found" /\ ~ usable /\ spent > 0
       \/ outcome' = "max_retrieval_calls_reached" /\ spent = Budget
                                                    /\ (Budget > 0 => usable)
    /\ phase' = "returned"
    /\ UNCHANGED <<usable, spent>>

\* The run raises or is cancelled, and then has no reason to report.
Abort ==
    /\ phase = "running"
    /\ phase' \in {"failed", "cancelled"}
    /\ UNCHANGED <<outcome, usable, spent>>

Next == Retrieve \/ Gather \/ Return \/ Abort

Spec == Init /\ [][Next]_contractVars

============================================================================
