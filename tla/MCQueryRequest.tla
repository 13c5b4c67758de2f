--------------------------- MODULE MCQueryRequest ---------------------------
(* Constants of the run of QueryRequest.                                   *)
EXTENDS QueryRequest

CONSTANTS q, p, s, t1, t2

\* POST /query and the stream share an id, or all three do.
MCAssignments ==
    {f \in [{q, p, s} -> {t1, t2}] : f[q] = t1 /\ f[s] = t1}

\* Only a stream's events are read while its pipeline emits more of them.
MCMaxProgress == [r \in Requests |-> IF r = s THEN 1 ELSE 0]

=============================================================================
