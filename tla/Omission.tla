------------------------------- MODULE Omission -------------------------------
(***************************************************************************)
(* A sequence without its elements at some positions, by position and not  *)
(* by recursion, so that it can be reasoned about.                         *)
(***************************************************************************)
EXTENDS Integers, Sequences, FiniteSets

\* How many elements at positions before i are left out.
OmittedBefore(omitted, i) == Cardinality({k \in omitted : k < i})

\* The n-th element that is left stands behind the n - 1 others that are and those
\* left out before it.
Omit(s, omitted) ==
  [n \in 1 .. Len(s) - Cardinality(omitted) |->
     s[CHOOSE i \in n .. Len(s) : i \notin omitted /\ i = n + OmittedBefore(omitted, i)]]
=============================================================================
