----------------------------- MODULE SortedSets -----------------------------
(***************************************************************************)
(* A finite set of naturals in ascending order, defined by the ranks of    *)
(* its elements and not by recursion, so that it can be reasoned about.    *)
(***************************************************************************)
EXTENDS Naturals, FiniteSets

Below(n, S) == {m \in S : m < n}
Sorted(S) ==
  [i \in 1..Cardinality(S) |-> CHOOSE n \in S : Cardinality(Below(n, S)) = i - 1]
=============================================================================
