------------------------------ MODULE Ordering ------------------------------
(***************************************************************************)
(* Rows and list items in order.  ORDER BY a column and Array.filter give  *)
(* the one sequence of some elements in which a number grows.              *)
(***************************************************************************)
EXTENDS Integers, FiniteSets, Sequences

\* The elements of the finite set S in the order of f[x], which tells them apart.
InOrder(S, f) ==
  CHOOSE s \in [1..Cardinality(S) -> S] : \A i, j \in DOMAIN s : i < j => f[s[i]] < f[s[j]]

\* The items of s at the places I, in the order of s: the k-th is at the place
\* that k of them are not behind.
AtPlaces(s, I) ==
  [k \in 1..Cardinality(I) |-> s[CHOOSE i \in I : Cardinality({j \in I : j <= i}) = k]]
=============================================================================
