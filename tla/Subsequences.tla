----------------------------- MODULE Subsequences -----------------------------
(* Subsequences by their places.  std::remove_if, std::sort and a loop over a
   container with a condition all keep the order of what they keep; here the
   places come first, as a set of numbers.                                    *)
EXTENDS Integers, Sequences, FiniteSets

\* the k-th smallest number of I
Nth(I, k) == CHOOSE i \in I : Cardinality({j \in I : j <= i}) = k

\* the numbers of I in ascending order
Ascending(I) == [k \in 1 .. Cardinality(I) |-> Nth(I, k)]

\* what s has at the places I
Picked(s, I) == [k \in 1 .. Cardinality(I) |-> s[Nth(I, k)]]
=============================================================================
