-------------------------- MODULE SubsequencesProofs --------------------------
(* Nth counts a finite set of numbers through in ascending order: the places of
   a subsequence are those that were asked for, each once and in their order. *)
EXTENDS Subsequences, FiniteSetTheorems, WellFoundedInduction, TLAPS

(* Numbers *)

\* A set of numbers that has 0, and n + 1 with every n below N, has those up to N.
LEMMA UpFromZero ==
  ASSUME NEW N \in Nat, NEW T, 0 \in T, \A n \in 0 .. N - 1 : n \in T => n + 1 \in T
  PROVE  \A n \in 0 .. N : n \in T
<1> DEFINE R == OpToRel(<, Nat)
           U == {n \in 0 .. N : n \notin T}
<1>1. IsWellFoundedOn(R, Nat)
  BY NatLessThanWellFounded
<1>2. \A m, n \in Nat : <<m, n>> \in R <=> m < n
  BY DEF OpToRel
<1> HIDE DEF R
<1>3. SUFFICES ASSUME U # {} PROVE FALSE
  OBVIOUS
<1>4. U \subseteq Nat
  OBVIOUS
<1>5. PICK n \in U : \A m \in U : ~ <<m, n>> \in R
  BY <1>1, <1>3, <1>4, WFMin
<1>6. \A m \in U : ~ m < n
  BY <1>2, <1>4, <1>5
<1>7. n \in 1 .. N /\ n \notin T
  OBVIOUS
<1>8. n - 1 \in 0 .. N - 1 /\ n - 1 \in 0 .. N /\ n - 1 < n /\ (n - 1) + 1 = n
  BY <1>7
<1>9. n - 1 \in T
  BY <1>6, <1>8
<1> QED BY <1>7, <1>8, <1>9

\* Some natural numbers have a least one.
LEMMA HasLeast ==
  ASSUME NEW S \in SUBSET Nat, S # {}
  PROVE  \E n \in S : \A y \in S : n <= y
<1> DEFINE R == OpToRel(<, Nat)
<1>1. IsWellFoundedOn(R, Nat)
  BY NatLessThanWellFounded
<1>2. \A m, n \in Nat : <<m, n>> \in R <=> m < n
  BY DEF OpToRel
<1> HIDE DEF R
<1>3. PICK n \in S : \A m \in S : ~ <<m, n>> \in R
  BY <1>1, WFMin
<1>4. n \in Nat /\ \A m \in S : m \in Nat /\ ~ m < n
  BY <1>2, <1>3
<1>5. \A m \in S : n <= m
  BY <1>4
<1> QED BY <1>5

-----------------------------------------------------------------------------
(* Places *)

UpTo(I, i) == {j \in I : j <= i}

\* The numbers of I up to one of them are finitely many, at least one, and fewer
\* than those up to a greater one.
LEMMA UpToCount ==
  ASSUME NEW I, \A x \in I : x \in Int, IsFiniteSet(I), NEW i \in I
  PROVE  /\ IsFiniteSet(UpTo(I, i))
         /\ Cardinality(UpTo(I, i)) \in 1 .. Cardinality(I)
         /\ \A j \in I : j < i => Cardinality(UpTo(I, j)) < Cardinality(UpTo(I, i))
<1>1. ASSUME NEW j \in I
      PROVE  IsFiniteSet(UpTo(I, j)) /\ Cardinality(UpTo(I, j)) \in Nat
             /\ Cardinality(UpTo(I, j)) <= Cardinality(I)
  BY FS_Subset, FS_CardinalityType, UpTo(I, j) \in SUBSET I DEF UpTo
<1>2. Cardinality(UpTo(I, i)) # 0
  BY <1>1, FS_EmptySet, i \in UpTo(I, i) DEF UpTo
<1>3. ASSUME NEW j \in I, j < i
      PROVE  Cardinality(UpTo(I, j)) < Cardinality(UpTo(I, i))
  <2>1. UpTo(I, j) \in SUBSET UpTo(I, i) /\ i \in UpTo(I, i) /\ i \notin UpTo(I, j)
    BY <1>3 DEF UpTo
  <2>2. /\ Cardinality(UpTo(I, j)) <= Cardinality(UpTo(I, i))
        /\ Cardinality(UpTo(I, i)) # Cardinality(UpTo(I, j))
    BY <1>1, <2>1, FS_Subset
  <2> QED BY <2>2, <1>1
<1>4. Cardinality(I) \in Nat
  BY FS_CardinalityType
<1> QED BY <1>1, <1>2, <1>3, <1>4

\* For every k up to the size of I there is a number with k of them up to it.
LEMMA NthPlace ==
  ASSUME NEW I, \A x \in I : x \in Int, IsFiniteSet(I), NEW k \in 1 .. Cardinality(I)
  PROVE  Nth(I, k) \in I /\ Cardinality(UpTo(I, Nth(I, k))) = k
<1> DEFINE R == [i \in I |-> Cardinality(UpTo(I, i))]
           n == Cardinality(I)
<1>1. n \in Nat
  BY FS_CardinalityType
<1>2. R \in [I -> 1 .. n]
  BY UpToCount
<1>3. \A i, j \in I : R[i] = R[j] => i = j
  <2> SUFFICES ASSUME NEW i \in I, NEW j \in I, i < j
               PROVE  R[i] # R[j]
    OBVIOUS
  <2>1. R[i] < R[j] /\ R[i] \in Nat /\ R[j] \in Nat
    BY UpToCount
  <2> QED BY <2>1
<1>4. R \in Injection(I, 1 .. n)
  BY <1>2, <1>3 DEF Injection, IsInjective
<1>5. IsFiniteSet(1 .. n) /\ Cardinality(1 .. n) = n
  BY <1>1, FS_Interval
<1>6. R \in Surjection(I, 1 .. n)
  BY <1>4, <1>5, FS_Injection
<1>7. \E i \in I : R[i] = k
  BY <1>6 DEF Surjection
<1>8. \E i \in I : Cardinality({j \in I : j <= i}) = k
  BY <1>7 DEF UpTo
<1> QED BY <1>8 DEF Nth, UpTo

\* The numbers come in ascending order.
LEMMA NthAscends ==
  ASSUME NEW I, \A x \in I : x \in Int, IsFiniteSet(I),
         NEW k \in 1 .. Cardinality(I), NEW l \in 1 .. Cardinality(I), k < l
  PROVE  Nth(I, k) < Nth(I, l)
<1>1. /\ Nth(I, k) \in I /\ Cardinality(UpTo(I, Nth(I, k))) = k
      /\ Nth(I, l) \in I /\ Cardinality(UpTo(I, Nth(I, l))) = l
  BY NthPlace
<1>2. Nth(I, l) # Nth(I, k)
  BY <1>1
<1>3. ~ Nth(I, l) < Nth(I, k)
  BY <1>1, UpToCount
<1> QED BY <1>1, <1>2, <1>3

\* Every number of I has its turn.
LEMMA NthOnto ==
  ASSUME NEW I, \A x \in I : x \in Int, IsFiniteSet(I), NEW i \in I
  PROVE  \E k \in 1 .. Cardinality(I) : Nth(I, k) = i
<1> DEFINE k == Cardinality(UpTo(I, i))
<1>1. k \in 1 .. Cardinality(I)
  BY UpToCount
<1>2. Nth(I, k) \in I /\ Cardinality(UpTo(I, Nth(I, k))) = k
  BY <1>1, NthPlace
<1>3. ~ Nth(I, k) < i /\ ~ i < Nth(I, k)
  BY <1>2, UpToCount
<1> QED BY <1>1, <1>2, <1>3

\* Places among the first n numbers are finitely many.
LEMMA PlacesFinite ==
  ASSUME NEW n \in Nat, NEW I \in SUBSET (1 .. n)
  PROVE  /\ (\A x \in I : x \in Int) /\ IsFiniteSet(I)
         /\ Cardinality(I) \in Nat /\ Cardinality(I) <= n
<1>1. IsFiniteSet(1 .. n) /\ Cardinality(1 .. n) = n
  BY FS_Interval
<1>2. IsFiniteSet(I) /\ Cardinality(I) <= n
  BY <1>1, FS_Subset
<1>3. \A x \in I : x \in Int
  OBVIOUS
<1> QED BY <1>2, <1>3, FS_CardinalityType

\* What is picked from a sequence: elements of it, as many as there are places,
\* in their order, and each of the places is used.
LEMMA PickedFrom ==
  ASSUME NEW S, NEW s \in Seq(S), NEW I \in SUBSET (1 .. Len(s))
  PROVE  /\ Picked(s, I) \in Seq(S)
         /\ Len(Picked(s, I)) = Cardinality(I)
         /\ \A k \in 1 .. Len(Picked(s, I)) :
              /\ Nth(I, k) \in I
              /\ Picked(s, I)[k] = s[Nth(I, k)]
              /\ \A l \in 1 .. Len(Picked(s, I)) : k < l => Nth(I, k) < Nth(I, l)
         /\ \A i \in I : \E k \in 1 .. Len(Picked(s, I)) : Nth(I, k) = i
<1>1. (\A x \in I : x \in Int) /\ IsFiniteSet(I) /\ Cardinality(I) \in Nat
  BY PlacesFinite
<1>2. \A k \in 1 .. Cardinality(I) : Nth(I, k) \in I
  BY <1>1, NthPlace
<1>3. Picked(s, I) \in [1 .. Cardinality(I) -> S]
  <2>1. \A k \in 1 .. Cardinality(I) : s[Nth(I, k)] \in S
    <3>1. \A i \in I : i \in 1 .. Len(s)
      OBVIOUS
    <3>2. \A i \in 1 .. Len(s) : s[i] \in S
      OBVIOUS
    <3> QED BY <1>2, <3>1, <3>2
  <2> QED BY <2>1 DEF Picked
<1>4. Picked(s, I) \in Seq(S) /\ Len(Picked(s, I)) = Cardinality(I)
  BY <1>1, <1>3
<1> QED BY <1>1, <1>2, <1>4, NthAscends, NthOnto DEF Picked

\* The first n numbers are n of them, and the others remain.
LEMMA NthFirst ==
  ASSUME NEW I, \A x \in I : x \in Int, IsFiniteSet(I), NEW n \in 0 .. Cardinality(I),
         NEW J, J = {Nth(I, k) : k \in 1 .. n}
  PROVE  /\ J \in SUBSET I
         /\ \A k, l \in 1 .. n : Nth(I, k) = Nth(I, l) => k = l
         /\ Cardinality(I \ J) = Cardinality(I) - n
<1>0. Cardinality(I) \in Nat /\ n \in Nat
  BY FS_CardinalityType
<1>1. \A k \in 1 .. n : k \in 1 .. Cardinality(I)
  BY <1>0
<1>2. J \in SUBSET I
  BY <1>1, NthPlace
<1>3. \A k, l \in 1 .. n : Nth(I, k) = Nth(I, l) => k = l
  BY <1>1, NthPlace
<1> DEFINE f == [k \in 1 .. n |-> Nth(I, k)]
<1>4. f \in Surjection(1 .. n, J) /\ f \in Injection(1 .. n, J)
  BY <1>3 DEF Surjection, Injection, IsInjective
<1>5. IsFiniteSet(1 .. n) /\ Cardinality(1 .. n) = n
  BY <1>0, FS_Interval
<1>6. Cardinality(J) = n
  BY <1>4, <1>5, FS_Surjection
<1>7. I \cap J = J
  BY <1>2
<1>8. Cardinality(I \ J) = Cardinality(I) - Cardinality(I \cap J)
  BY FS_Difference
<1> QED BY <1>2, <1>3, <1>6, <1>7, <1>8

-----------------------------------------------------------------------------
(* Sequences *)

LEMMA Concat ==
  ASSUME NEW S, NEW s \in Seq(S), NEW t \in Seq(S)
  PROVE  /\ s \o t \in Seq(S) /\ Len(s \o t) = Len(s) + Len(t)
         /\ \A k \in 1 .. Len(s) + Len(t) :
              (s \o t)[k] = IF k <= Len(s) THEN s[k] ELSE t[k - Len(s)]
  OBVIOUS

LEMMA NotEmpty ==
  ASSUME NEW S, NEW s \in Seq(S), s # <<>>
  PROVE  Len(s) \in Nat \ {0}
  OBVIOUS

LEMMA Cut ==
  ASSUME NEW S, NEW s \in Seq(S), NEW a \in 1 .. Len(s) + 1, NEW b \in a - 1 .. Len(s)
  PROVE  /\ SubSeq(s, a, b) \in Seq(S) /\ Len(SubSeq(s, a, b)) = b - a + 1
         /\ \A k \in 1 .. b - a + 1 : SubSeq(s, a, b)[k] = s[a + k - 1]
  OBVIOUS

\* Two sequences with the same entries are one.
LEMMA SameEntries ==
  ASSUME NEW S, NEW s \in Seq(S), NEW t \in Seq(S), Len(s) = Len(t),
         \A k \in 1 .. Len(s) : s[k] = t[k]
  PROVE  s = t
  OBVIOUS
=============================================================================
