------------------------------- MODULE Places -------------------------------
(***************************************************************************)
(* Sorting and filtering by position, as Python's sorted, enumerate and    *)
(* list comprehensions do it.                                              *)
(***************************************************************************)
EXTENDS Integers, FiniteSets

\* The place of i among the numbers of S, from 1.
Place(S, i) == Cardinality({j \in S : j <= i})

\* The k-th smallest number of S.
Nth(S, k) == CHOOSE i \in S : Place(S, i) = k

\* The elements of sequence s at the positions in S, in their order.
At(s, S) == [k \in 1 .. Cardinality(S) |-> s[Nth(S, k)]]

=============================================================================
