--------------------------- MODULE SequenceLemmas ----------------------------
(***************************************************************************)
(* What the proofs about texts and bytes need of sequences, of the least   *)
(* and the greatest element of a set, and of induction.                    *)
(***************************************************************************)
EXTENDS FiniteSetsExt, FiniteSetTheorems, SequenceTheorems, TLAPS

(* Induction, with a set in the place of a predicate.                        *)

LEMMA NatInductionOnSets ==
    ASSUME NEW T, 0 \in T, \A n \in Nat : n \in T => n + 1 \in T
    PROVE  Nat \subseteq T
<1> SUFFICES ASSUME NEW n \in Nat, n \notin T PROVE FALSE
  OBVIOUS
<1> DEFINE A == T \cap (0..(n - 1))
           f == [k \in A |-> k + 1]
<1>1. IsFiniteSet(A) /\ IsFiniteSet(A \ {0})
  <2>1. IsFiniteSet(0..(n - 1))
    BY FS_Interval
  <2>2. A \subseteq 0..(n - 1) /\ A \ {0} \subseteq 0..(n - 1)
    OBVIOUS
  <2> HIDE DEF A
  <2> QED
    BY <2>1, <2>2, FS_Subset
<1>2. 0 \in A
  OBVIOUS
<1>3. \A k \in A : k \in Nat /\ k + 1 \in A \ {0}
  OBVIOUS
<1>4. f \in [A -> A \ {0}]
  BY <1>3
<1>5. \A k, l \in A : f[k] = f[l] => k = l
  BY <1>3
<1> HIDE DEF A, f
<1>6. Cardinality(A \ {0}) < Cardinality(A)
  <2>1. Cardinality(A \ {0}) = Cardinality(A) - 1 /\ Cardinality(A) \in Nat
    BY <1>1, <1>2, FS_RemoveElement, FS_CardinalityType
  <2> QED
    BY <2>1
<1>7. \E k, l \in A : k # l /\ f[k] = f[l]
  BY <1>1, <1>4, <1>6, FS_PigeonHole
<1> QED
  BY <1>5, <1>7
------------------------------------------------------------------------------
(* The least and the greatest element of a set.                              *)

LEMMA MinIs ==
    ASSUME NEW S, S \subseteq Int, NEW m \in S, \A x \in S : m <= x
    PROVE  Min(S) = m
<1>1. \A x \in S : (\A y \in S : x <= y) => x = m
  OBVIOUS
<1> QED
  BY <1>1 DEF Min

LEMMA MaxIs ==
    ASSUME NEW S, S \subseteq Int, NEW m \in S, \A x \in S : x <= m
    PROVE  Max(S) = m
<1>1. \A x \in S : (\A y \in S : x >= y) => x = m
  OBVIOUS
<1> QED
  BY <1>1 DEF Max

LEMMA MinIsLeast ==
    ASSUME NEW S, S # {}, NEW n \in Nat, S \subseteq 0..n
    PROVE  Min(S) \in S /\ \A x \in S : Min(S) <= x
<1> DEFINE T == {k \in Nat : (\E x \in S : x <= k) => \E m \in S : \A x \in S : m <= x}
<1>1. 0 \in T
  OBVIOUS
<1>2. ASSUME NEW k \in Nat, k \in T, NEW x \in S, x <= k + 1
      PROVE  \E m \in S : \A y \in S : m <= y
  <2>1. CASE \E y \in S : y <= k
    BY <1>2, <2>1
  <2>2. CASE \A y \in S : ~(y <= k)
    <3>1. \A y \in S : y \in Int /\ x <= y
      BY <1>2, <2>2
    <3> QED
      BY <3>1
  <2> QED
    BY <2>1, <2>2
<1>3. n \in T
  <2>1. \A k \in Nat : k \in T => k + 1 \in T
    BY <1>2
  <2> HIDE DEF T
  <2> QED
    BY <1>1, <2>1, NatInductionOnSets
<1>4. PICK m \in S : \A x \in S : m <= x
  <2>1. \A x \in S : x <= n
    OBVIOUS
  <2> QED
    BY <1>3, <2>1
<1> QED
  <2>1. S \subseteq Int
    OBVIOUS
  <2>2. Min(S) = m
    BY <1>4, <2>1, MinIs
  <2> QED
    BY <1>4, <2>2

LEMMA MinOfTwo ==
    ASSUME NEW a \in Int, NEW b \in Int
    PROVE  Min({a, b}) \in Int /\ Min({a, b}) <= a /\ Min({a, b}) <= b
<1>1. PICK m \in {a, b} : m <= a /\ m <= b
  OBVIOUS
<1>2. {a, b} \subseteq Int /\ \A x \in {a, b} : m <= x
  BY <1>1
<1>3. Min({a, b}) = m
  BY <1>2, MinIs
<1> QED
  BY <1>1, <1>2, <1>3
------------------------------------------------------------------------------
(* Short sequences, and sequences one behind the other.                      *)

LEMMA ShortSequences ==
    ASSUME NEW S, NEW a \in S, NEW b \in S
    PROVE  /\ <<a>> \in Seq(S) /\ Len(<<a>>) = 1 /\ <<a>>[1] = a /\ <<a>> # <<>>
           /\ <<a, b>> \in Seq(S) /\ Len(<<a, b>>) = 2 /\ <<a, b>> # <<>>
           /\ <<a, b>>[1] = a /\ <<a, b>>[2] = b
<1>1. <<a>> \in Seq(S) /\ Len(<<a>>) = 1 /\ <<a>>[1] = a
  OBVIOUS
<1>2. <<a, b>> \in Seq(S) /\ Len(<<a, b>>) = 2
  OBVIOUS
<1>3. <<a, b>>[1] = a /\ <<a, b>>[2] = b
  OBVIOUS
<1>4. <<a>> # <<>> /\ <<a, b>> # <<>>
  OBVIOUS
<1> QED
  BY <1>1, <1>2, <1>3, <1>4

LEMMA TwoIndices == (\A i \in 1..2 : i = 1 \/ i = 2) /\ \A k : k = 2 => 1 \in 1..k
OBVIOUS

\* Two and five parts one behind the other.
LEMMA TwoParts ==
    ASSUME NEW S, NEW a \in Seq(S), NEW b \in Seq(S), NEW w, w = a \o b
    PROVE  /\ w \in Seq(S) /\ Len(w) = Len(a) + Len(b)
           /\ \A i \in 1..Len(a) : w[i] = a[i]
           /\ \A i \in 1..Len(b) : w[Len(a) + i] = b[i]
<1>1. Len(a) \in Nat /\ Len(b) \in Nat
  OBVIOUS
<1>2. /\ w \in Seq(S) /\ Len(w) = Len(a) + Len(b)
      /\ \A i \in 1..Len(a) + Len(b) : w[i] = IF i <= Len(a) THEN a[i] ELSE b[i - Len(a)]
  BY ConcatProperties
<1>3. ASSUME NEW i \in 1..Len(b) PROVE w[Len(a) + i] = b[i]
  <2>1. Len(a) + i \in 1..Len(a) + Len(b) /\ ~(Len(a) + i <= Len(a)) /\ Len(a) + i - Len(a) = i
    BY <1>1
  <2> QED
    BY <1>2, <2>1
<1> QED
  BY <1>1, <1>2, <1>3

LEMMA FiveParts ==
    ASSUME NEW S, NEW a \in Seq(S), NEW b \in Seq(S), NEW c \in Seq(S),
           NEW d \in Seq(S), NEW e \in Seq(S), NEW w, w = a \o b \o c \o d \o e
    PROVE  /\ w \in Seq(S) /\ Len(w) = Len(a) + Len(b) + Len(c) + Len(d) + Len(e)
           /\ \A i \in 1..Len(a) : w[i] = a[i]
           /\ \A i \in 1..Len(b) : w[Len(a) + i] = b[i]
           /\ \A i \in 1..Len(c) : w[Len(a) + Len(b) + i] = c[i]
           /\ \A i \in 1..Len(d) : w[Len(a) + Len(b) + Len(c) + i] = d[i]
           /\ \A i \in 1..Len(e) : w[Len(a) + Len(b) + Len(c) + Len(d) + i] = e[i]
<1>1. Len(a) \in Nat /\ Len(b) \in Nat /\ Len(c) \in Nat /\ Len(d) \in Nat /\ Len(e) \in Nat
  OBVIOUS
<1>2. PICK ab : ab = a \o b
  OBVIOUS
<1>3. /\ ab \in Seq(S) /\ Len(ab) = Len(a) + Len(b)
      /\ \A i \in 1..Len(a) : ab[i] = a[i]
      /\ \A i \in 1..Len(b) : ab[Len(a) + i] = b[i]
  BY <1>2, TwoParts
<1> ab \in Seq(S)
  BY <1>3
<1>4. PICK abc : abc = ab \o c
  OBVIOUS
<1>5. /\ abc \in Seq(S) /\ Len(abc) = Len(ab) + Len(c)
      /\ \A i \in 1..Len(ab) : abc[i] = ab[i]
      /\ \A i \in 1..Len(c) : abc[Len(ab) + i] = c[i]
  BY <1>4, TwoParts
<1> abc \in Seq(S)
  BY <1>5
<1>6. PICK abcd : abcd = abc \o d
  OBVIOUS
<1>7. /\ abcd \in Seq(S) /\ Len(abcd) = Len(abc) + Len(d)
      /\ \A i \in 1..Len(abc) : abcd[i] = abc[i]
      /\ \A i \in 1..Len(d) : abcd[Len(abc) + i] = d[i]
  BY <1>6, TwoParts
<1> abcd \in Seq(S)
  BY <1>7
<1>8. w = abcd \o e
  BY <1>2, <1>4, <1>6
<1>9. /\ w \in Seq(S) /\ Len(w) = Len(abcd) + Len(e)
      /\ \A i \in 1..Len(abcd) : w[i] = abcd[i]
      /\ \A i \in 1..Len(e) : w[Len(abcd) + i] = e[i]
  BY <1>8, TwoParts
<1>10. /\ Len(ab) = Len(a) + Len(b) /\ Len(abc) = Len(a) + Len(b) + Len(c)
       /\ Len(abcd) = Len(a) + Len(b) + Len(c) + Len(d)
       /\ Len(w) = Len(a) + Len(b) + Len(c) + Len(d) + Len(e)
  BY <1>3, <1>5, <1>7, <1>9
<1>11. \A i \in 1..Len(d) : Len(abc) + i \in 1..Len(abcd)
  BY <1>1, <1>10
<1>12. \A i \in 1..Len(c) : Len(ab) + i \in 1..Len(abc) /\ Len(ab) + i \in 1..Len(abcd)
  BY <1>1, <1>10
<1>13. \A i \in 1..Len(b) : /\ Len(a) + i \in 1..Len(ab)
                           /\ Len(a) + i \in 1..Len(abc) /\ Len(a) + i \in 1..Len(abcd)
  BY <1>1, <1>10
<1>14. \A i \in 1..Len(a) : i \in 1..Len(ab) /\ i \in 1..Len(abc) /\ i \in 1..Len(abcd)
  BY <1>1, <1>10
<1>15. \A i \in 1..Len(a) : w[i] = a[i]
  BY <1>3, <1>5, <1>7, <1>9, <1>14
<1>16. \A i \in 1..Len(b) : w[Len(a) + i] = b[i]
  BY <1>3, <1>5, <1>7, <1>9, <1>13
<1>17. \A i \in 1..Len(c) : w[Len(ab) + i] = c[i]
  BY <1>5, <1>7, <1>9, <1>12
<1>18. \A i \in 1..Len(d) : w[Len(abc) + i] = d[i]
  BY <1>7, <1>9, <1>11
<1> QED
  BY <1>9, <1>10, <1>15, <1>16, <1>17, <1>18
==============================================================================
