---------------------------- MODULE OnceSequences ----------------------------
(***************************************************************************)
(* Facts about sequences that hold each of their elements once, which the   *)
(* proofs about queues and logs rest on: joined, cut, appended to, filtered *)
(* by a set of positions (Picked), counted.  SetInduction is induction over *)
(* the numbers in a set instead of those with a property.                   *)
(***************************************************************************)
EXTENDS Naturals, Sequences, FiniteSets, Functions, Subsequences,
        SequenceTheorems, FiniteSetTheorems, WellFoundedInduction, TLAPS

\* Concatenation of two sequences without common elements.
LEMMA ConcatOnce ==
    ASSUME NEW S, NEW s \in Seq(S), NEW t \in Seq(S)
    PROVE  /\ s \o t \in Seq(S)
           /\ Range(s \o t) = Range(s) \cup Range(t)
           /\ (/\ IsInjective(s) /\ IsInjective(t)
               /\ Range(s) \cap Range(t) = {}) => IsInjective(s \o t)
<1> DEFINE u == s \o t
<1>1. /\ u \in Seq(S) /\ Len(u) = Len(s) + Len(t)
      /\ \A i \in 1..Len(s) + Len(t) :
            u[i] = IF i <= Len(s) THEN s[i] ELSE t[i - Len(s)]
  BY ConcatProperties
<1>2. /\ Len(s) \in Nat /\ DOMAIN s = 1..Len(s)
      /\ Len(t) \in Nat /\ DOMAIN t = 1..Len(t)
      /\ DOMAIN u = 1..Len(u)
  BY <1>1, LenProperties
<1> HIDE DEF u
<1>3. Range(u) \subseteq Range(s) \cup Range(t)
  <2> SUFFICES ASSUME NEW i \in DOMAIN u PROVE u[i] \in Range(s) \cup Range(t)
    BY DEF Range
  <2>1. CASE i <= Len(s)
    BY <1>1, <1>2, <2>1 DEF Range
  <2>2. CASE i > Len(s)
    <3>1. i - Len(s) \in DOMAIN t /\ u[i] = t[i - Len(s)]
      BY <1>1, <1>2, <2>2
    <3> QED BY <3>1 DEF Range
  <2> QED BY <1>2, <2>1, <2>2
<1>4. Range(s) \subseteq Range(u)
  <2> SUFFICES ASSUME NEW i \in DOMAIN s PROVE s[i] \in Range(u)
    BY DEF Range
  <2>1. i \in DOMAIN u /\ u[i] = s[i]
    BY <1>1, <1>2
  <2> QED BY <2>1 DEF Range
<1>5. Range(t) \subseteq Range(u)
  <2> SUFFICES ASSUME NEW i \in DOMAIN t PROVE t[i] \in Range(u)
    BY DEF Range
  <2>1. i + Len(s) \in DOMAIN u /\ u[i + Len(s)] = t[i]
    BY <1>1, <1>2
  <2> QED BY <2>1 DEF Range
<1>6. ASSUME IsInjective(s), IsInjective(t), Range(s) \cap Range(t) = {}
      PROVE  IsInjective(u)
  <2> SUFFICES ASSUME NEW i \in DOMAIN u, NEW j \in DOMAIN u, u[i] = u[j]
               PROVE  i = j
    BY DEF IsInjective
  <2>1. \A k \in DOMAIN u : \/ k <= Len(s) /\ k \in DOMAIN s /\ u[k] = s[k]
                            \/ /\ k > Len(s) /\ k - Len(s) \in DOMAIN t
                               /\ u[k] = t[k - Len(s)]
    BY <1>1, <1>2
  <2>2. \A k \in DOMAIN s : s[k] \in Range(s)
    BY DEF Range
  <2>3. \A k \in DOMAIN t : t[k] \in Range(t)
    BY DEF Range
  <2>4. CASE i <= Len(s) /\ j <= Len(s)
    BY <1>2, <1>6, <2>1, <2>4 DEF IsInjective
  <2>5. CASE i > Len(s) /\ j > Len(s)
    <3>1. i - Len(s) = j - Len(s)
      BY <1>2, <1>6, <2>1, <2>5 DEF IsInjective
    <3> QED BY <1>2, <3>1
  <2>6. CASE i <= Len(s) /\ j > Len(s)
    BY <1>2, <1>6, <2>1, <2>2, <2>3, <2>6
  <2>7. CASE i > Len(s) /\ j <= Len(s)
    BY <1>2, <1>6, <2>1, <2>2, <2>3, <2>7
  <2> QED BY <1>2, <2>4, <2>5, <2>6, <2>7
<1> QED BY <1>1, <1>3, <1>4, <1>5, <1>6 DEF u

\* A sequence with one more element.
LEMMA AppendOnce ==
    ASSUME NEW S, NEW s \in Seq(S), NEW e \in S
    PROVE  /\ Append(s, e) \in Seq(S)
           /\ Range(Append(s, e)) = Range(s) \cup {e}
           /\ IsInjective(s) /\ e \notin Range(s) => IsInjective(Append(s, e))
<1> DEFINE one == <<e>>
           longer == Append(s, e)
<1>1. one \in Seq(S) /\ longer = s \o one
  OBVIOUS
<1>2. Range(one) = {e} /\ IsInjective(one)
  BY DEF Range, IsInjective
<1> HIDE DEF one, longer
<1>3. /\ s \o one \in Seq(S)
      /\ Range(s \o one) = Range(s) \cup Range(one)
      /\ (/\ IsInjective(s) /\ IsInjective(one)
          /\ Range(s) \cap Range(one) = {}) => IsInjective(s \o one)
  BY <1>1, ConcatOnce
<1>4. /\ longer \in Seq(S)
      /\ Range(longer) = Range(s) \cup {e}
      /\ IsInjective(s) /\ e \notin Range(s) => IsInjective(longer)
  BY <1>1, <1>2, <1>3
<1> QED BY <1>4 DEF longer

\* The empty sequence is in every Seq(S) and holds nothing.
LEMMA EmptyOnce ==
    /\ \A S : <<>> \in Seq(S)
    /\ Range(<<>>) = {}
    /\ IsInjective(<<>>)
BY DEF Range, IsInjective

\* A sequence cut in two.
LEMMA CutOnce ==
    ASSUME NEW S, NEW s \in Seq(S), NEW n \in 0..Len(s)
    PROVE  LET a == SubSeq(s, 1, n)
               b == SubSeq(s, n + 1, Len(s))
           IN  /\ a \in Seq(S) /\ b \in Seq(S)
               /\ Len(b) = Len(s) - n
               /\ Range(s) = Range(a) \cup Range(b)
               /\ IsInjective(s) => /\ IsInjective(a) /\ IsInjective(b)
                                    /\ Range(a) \cap Range(b) = {}
<1> DEFINE a == SubSeq(s, 1, n)
           b == SubSeq(s, n + 1, Len(s))
<1>1. Len(s) \in Nat /\ DOMAIN s = 1..Len(s) /\ \A i \in 1..Len(s) : s[i] \in S
  BY LenProperties, ElementOfSeq
<1>2. /\ a \in Seq(S) /\ Len(a) = n /\ \A i \in 1..n : a[i] = s[i]
  BY <1>1, SubSeqProperties
<1>3. /\ b \in Seq(S) /\ Len(b) = Len(s) - n
      /\ \A i \in 1..Len(s) - n : b[i] = s[n + i]
  <2>1. \A i \in (n + 1)..Len(s) : s[i] \in S
    BY <1>1
  <2>2. /\ b \in Seq(S)
        /\ Len(b) = IF n + 1 <= Len(s) THEN Len(s) - (n + 1) + 1 ELSE 0
        /\ \A i \in 1..Len(s) - (n + 1) + 1 : b[i] = s[n + 1 + i - 1]
    <3>1. n + 1 \in Int /\ Len(s) \in Int
      BY <1>1
    <3> QED BY <2>1, <3>1, SubSeqProperties
  <2>3. Len(s) - (n + 1) + 1 = Len(s) - n
    BY <1>1
  <2>4. \A i \in 1..Len(s) - n : n + 1 + i - 1 = n + i
    BY <1>1
  <2>5. n \in Nat /\ Len(s) \in Nat /\ n <= Len(s)
    BY <1>1
  <2> HIDE DEF b
  <2>6. Len(b) = Len(s) - n
    <3>1. CASE n + 1 <= Len(s)
      BY <2>2, <2>3, <3>1
    <3>2. CASE ~(n + 1 <= Len(s))
      <4>1. Len(s) - n = 0
        BY <2>5, <3>2
      <4> QED BY <2>2, <3>2, <4>1
    <3> QED BY <3>1, <3>2
  <2>7. \A i \in 1..Len(s) - n : b[i] = s[n + i]
    BY <2>2, <2>3, <2>4
  <2> QED BY <2>2, <2>6, <2>7
<1> HIDE DEF a, b
<1>4. DOMAIN a = 1..n /\ DOMAIN b = 1..Len(s) - n
  BY <1>2, <1>3, LenProperties
<1>5. Range(a) \subseteq Range(s)
  BY <1>1, <1>2, <1>4 DEF Range
<1>6. Range(b) \subseteq Range(s)
  <2> SUFFICES ASSUME NEW i \in DOMAIN b PROVE b[i] \in Range(s)
    BY DEF Range
  <2>1. n + i \in DOMAIN s /\ b[i] = s[n + i]
    BY <1>1, <1>3, <1>4
  <2> QED BY <2>1 DEF Range
<1>7. Range(s) \subseteq Range(a) \cup Range(b)
  <2> SUFFICES ASSUME NEW i \in DOMAIN s PROVE s[i] \in Range(a) \cup Range(b)
    BY DEF Range
  <2>1. CASE i <= n
    BY <1>1, <1>2, <1>4, <2>1 DEF Range
  <2>2. CASE i > n
    <3>1. i - n \in DOMAIN b /\ b[i - n] = s[i]
      BY <1>1, <1>3, <1>4, <2>2
    <3> QED BY <3>1 DEF Range
  <2> QED BY <1>1, <2>1, <2>2
<1>8. ASSUME IsInjective(s)
      PROVE  IsInjective(a) /\ IsInjective(b) /\ Range(a) \cap Range(b) = {}
  <2>1. IsInjective(a)
    BY <1>1, <1>2, <1>4, <1>8 DEF IsInjective
  <2>2. IsInjective(b)
    <3> SUFFICES ASSUME NEW i \in DOMAIN b, NEW j \in DOMAIN b, b[i] = b[j]
                 PROVE  i = j
      BY DEF IsInjective
    <3>1. /\ n + i \in DOMAIN s /\ s[n + i] = b[i]
          /\ n + j \in DOMAIN s /\ s[n + j] = b[j]
      BY <1>1, <1>3, <1>4
    <3>2. n + i = n + j
      BY <1>8, <3>1 DEF IsInjective
    <3> QED BY <1>4, <3>2
  <2>3. Range(a) \cap Range(b) = {}
    <3> SUFFICES ASSUME NEW i \in DOMAIN a, NEW j \in DOMAIN b, a[i] = b[j]
                 PROVE  FALSE
      BY DEF Range
    <3>1. /\ i \in DOMAIN s /\ s[i] = a[i]
          /\ n + j \in DOMAIN s /\ s[n + j] = b[j]
      BY <1>1, <1>2, <1>3, <1>4
    <3>2. i = n + j
      BY <1>8, <3>1 DEF IsInjective
    <3> QED BY <1>4, <3>2
  <2> QED BY <2>1, <2>2, <2>3
<1>9. Range(s) = Range(a) \cup Range(b)
  BY <1>5, <1>6, <1>7
<1> QED BY <1>2, <1>3, <1>8, <1>9 DEF a, b

\* The part of a sequence behind k, when the sequence grows by one.
LEMMA SuffixGrows ==
    ASSUME NEW S, NEW s \in Seq(S), NEW e \in S, NEW k \in 0..Len(s)
    PROVE  LET longer == Append(s, e)
           IN  SubSeq(longer, k + 1, Len(longer))
                 = Append(SubSeq(s, k + 1, Len(s)), e)
<1> DEFINE n == Len(s)
           longer == Append(s, e)
           old == SubSeq(s, k + 1, n)
<1>1. /\ n \in Nat /\ k \in Nat /\ k <= n
      /\ longer \in Seq(S) /\ Len(longer) = n + 1 /\ longer[n + 1] = e
  BY LenProperties, AppendProperties
<1>2. longer = s \o <<e>> /\ <<e>> \in Seq(S) /\ Len(<<e>>) = 1
  BY AppendIsConcat
<1>3. old \in Seq(S)
  BY CutOnce
<1>4. SubSeq(longer, k + 1, n) = old
  <2>1. CASE k = n
    <3>1. k + 1 \in Int /\ n \in Int /\ n < k + 1
      BY <1>1, <2>1
    <3> QED BY <3>1, SubSeqEmpty
  <2>2. CASE k < n
    <3>1. k + 1 \in 1..n /\ n \in 1..n
      BY <1>1, <2>2
    <3> HIDE DEF longer
    <3> QED BY <1>2, <3>1, SubSeqOfConcat1
  <2> QED BY <1>1, <2>1, <2>2
<1>5. SubSeq(longer, k + 1, n + 1) = SubSeq(longer, k + 1, n) \o <<e>>
  <2> DEFINE first == k + 1
             last == n + 1
  <2>1. /\ first \in 1..Len(longer) /\ last \in first..Len(longer)
        /\ last - 1 = n /\ longer[last] = e
    BY <1>1
  <2> HIDE DEF longer, first, last
  <2>2. SubSeq(longer, first, last)
          = SubSeq(longer, first, last - 1) \o <<longer[last]>>
    BY <1>1, <2>1, SubSeqRecursiveSecond
  <2>3. SubSeq(longer, first, last) = SubSeq(longer, first, n) \o <<e>>
    BY <2>1, <2>2
  <2> QED BY <2>3 DEF first, last
<1>6. old \o <<e>> = Append(old, e)
  <2> HIDE DEF old
  <2> QED BY <1>3, AppendIsConcat
<1> HIDE DEF old, longer
<1>7. SubSeq(longer, k + 1, Len(longer)) = Append(old, e)
  BY <1>1, <1>4, <1>5, <1>6
<1> QED BY <1>7 DEF longer, old

-----------------------------------------------------------------------------
(* Numbers, without induction over a predicate *)

\* A set of numbers has a least one, and one with a bound has a greatest.
LEMMA LeastExists ==
    ASSUME NEW S, S \subseteq Nat, S # {}
    PROVE  \E x \in S : \A y \in S : x <= y
<1> DEFINE R == OpToRel(<, Nat)
<1>1. IsWellFoundedOn(R, Nat)
  BY NatLessThanWellFounded, Zenon
<1>2. \A x, y \in Nat : y < x => <<y, x>> \in R
  BY DEF OpToRel
<1> HIDE DEF R
<1>3. PICK x \in S : \A y \in S : ~ (<<y, x>> \in R)
  BY <1>1, WFMin
<1>4. \A y \in S : x <= y
  <2> TAKE y \in S
  <2>1. x \in Nat /\ y \in Nat /\ ~(y < x)
    BY <1>2, <1>3
  <2> QED
    BY <2>1
<1> QED
  BY <1>4

LEMMA MostExists ==
    ASSUME NEW n \in Nat, NEW S, S \subseteq 0..n, S # {}
    PROVE  \E x \in S : \A y \in S : y <= x
<1> DEFINE T == {n - x : x \in S}
<1>1. T \subseteq Nat /\ T # {}
  <2>1. \A x \in S : n - x \in Nat
    OBVIOUS
  <2>2. PICK x \in S : TRUE
    OBVIOUS
  <2>3. n - x \in T
    BY <2>2
  <2> QED
    BY <2>1, <2>3
<1>2. PICK t \in T : \A y \in T : t <= y
  BY <1>1, LeastExists
<1>3. PICK x \in S : t = n - x
  BY <1>2
<1>4. \A y \in S : y <= x
  <2> TAKE y \in S
  <2>1. n - y \in T /\ n - x <= n - y
    BY <1>2, <1>3
  <2>2. x \in 0..n /\ y \in 0..n
    OBVIOUS
  <2> QED
    BY <2>1, <2>2
<1> QED
  BY <1>4

\* A set of numbers that has 0, and with m also m + 1, has them all.
LEMMA SetInduction ==
    ASSUME NEW G, 0 \in G, \A m \in Nat : m \in G => m + 1 \in G
    PROVE  \A m \in Nat : m \in G
<1> DEFINE Bad == {m \in Nat : m \notin G}
<1>1. CASE Bad = {}
  BY <1>1
<1>2. CASE Bad # {}
  <2>1. PICK m \in Bad : \A y \in Bad : m <= y
    <3>1. Bad \subseteq Nat
      OBVIOUS
    <3> HIDE DEF Bad
    <3> QED
      BY <1>2, <3>1, LeastExists
  <2>2. m \in Nat /\ m # 0 /\ m \notin G
    BY <2>1
  <2>3. m - 1 \in Nat /\ ~(m <= m - 1) /\ (m - 1) + 1 = m
    BY <2>2
  <2>4. m - 1 \in G
    BY <2>1, <2>3
  <2> QED
    BY <2>2, <2>3, <2>4
<1> QED
  BY <1>1, <1>2

-----------------------------------------------------------------------------
(* The elements at some positions *)

\* A set of positions is finite.
LEMMA FiniteInterval ==
    ASSUME NEW n \in Nat, NEW keep \in SUBSET (1..n)
    PROVE  IsFiniteSet(keep) /\ Cardinality(keep) \in Nat
<1>1. 1 \in Int /\ n \in Int
  OBVIOUS
<1>2. IsFiniteSet(1..n)
  BY <1>1, FS_Interval
<1>3. IsFiniteSet(keep)
  BY <1>2, FS_Subset
<1> QED
  BY <1>3, FS_CardinalityType

\* Ranks run from 1 to the size of keep, and grow with the position.
LEMMA RankGrows ==
    ASSUME NEW n \in Nat, NEW keep \in SUBSET (1..n)
    PROVE  /\ IsFiniteSet(keep) /\ Cardinality(keep) \in Nat
           /\ \A i \in keep : Rank(keep, i) \in 1..Cardinality(keep)
           /\ \A i, j \in keep : i < j => Rank(keep, i) < Rank(keep, j)
<1>1. IsFiniteSet(keep) /\ Cardinality(keep) \in Nat
  BY FiniteInterval
<1> DEFINE Upto(i) == {j \in keep : j <= i}
<1>2. ASSUME NEW i \in keep
      PROVE  /\ IsFiniteSet(Upto(i)) /\ Cardinality(Upto(i)) \in Nat
             /\ Cardinality(Upto(i)) <= Cardinality(keep)
             /\ Cardinality(Upto(i)) # 0
  <2>1. Upto(i) \in SUBSET keep /\ i \in Upto(i)
    OBVIOUS
  <2> HIDE DEF Upto
  <2> QED
    BY <1>1, <2>1, FS_Subset, FS_CardinalityType, FS_EmptySet
<1>3. ASSUME NEW i \in keep, NEW j \in keep, i < j
      PROVE  Cardinality(Upto(i)) < Cardinality(Upto(j))
  <2>1. Upto(i) \in SUBSET Upto(j) /\ j \in Upto(j) /\ j \notin Upto(i)
    <3>1. \A k \in keep : k <= i => k <= j
      BY <1>3
    <3>2. j <= j /\ ~(j <= i)
      BY <1>3
    <3> QED
      BY <3>1, <3>2
  <2>2. /\ IsFiniteSet(Upto(j)) /\ Cardinality(Upto(i)) \in Nat
        /\ Cardinality(Upto(j)) \in Nat
    BY <1>2
  <2> HIDE DEF Upto
  <2>3. /\ Cardinality(Upto(i)) <= Cardinality(Upto(j))
        /\ Cardinality(Upto(j)) # Cardinality(Upto(i))
    BY <2>1, <2>2, FS_Subset
  <2> QED
    BY <2>2, <2>3
<1>4. \A i : Rank(keep, i) = Cardinality(Upto(i))
  BY DEF Rank
<1> HIDE DEF Upto
<1>5. \A i \in keep : Rank(keep, i) \in 1..Cardinality(keep)
  BY <1>1, <1>2, <1>4
<1> QED
  BY <1>1, <1>3, <1>4, <1>5

\* Every number up to the size of keep is the rank of one of its positions.
LEMMA RankReached ==
    ASSUME NEW n \in Nat, NEW keep \in SUBSET (1..n), NEW k \in 1..Cardinality(keep)
    PROVE  \E i \in keep : Rank(keep, i) = k
<1> DEFINE Full(u) == \A r \in 1..Cardinality(u) : \E i \in u : Rank(u, i) = r
           G == {m \in Nat : \A u \in SUBSET (1..n) : Cardinality(u) = m => Full(u)}
<1>1. 0 \in G
  OBVIOUS
<1>2. ASSUME NEW m \in Nat, m \in G PROVE m + 1 \in G
  <2> SUFFICES ASSUME NEW u \in SUBSET (1..n), Cardinality(u) = m + 1,
                      NEW r \in 1..(m + 1)
               PROVE  \E i \in u : Rank(u, i) = r
    OBVIOUS
  <2>1. IsFiniteSet(u)
    BY FiniteInterval
  <2>2. u # {}
    BY <2>1, FS_EmptySet
  <2>3. PICK top \in u : \A y \in u : y <= top
    <3>1. u \subseteq 0..n
      OBVIOUS
    <3> QED
      BY <2>2, <3>1, MostExists
  <2> DEFINE v == u \ {top}
  <2>4. v \in SUBSET (1..n) /\ Cardinality(v) = m
    BY <2>1, <2>3, FS_RemoveElement
  <2>5. Full(v)
    <3> HIDE DEF v, Full
    <3> QED
      BY <1>2, <2>4
  <2>6. CASE r = m + 1
    <3>1. {j \in u : j <= top} = u
      BY <2>3
    <3> QED
      BY <2>3, <2>6, <3>1 DEF Rank
  <2>7. CASE r # m + 1
    <3>1. r \in 1..Cardinality(v)
      BY <2>4, <2>7
    <3>2. PICK i \in v : Rank(v, i) = r
      BY <2>5, <3>1
    <3>3. {j \in u : j <= i} = {j \in v : j <= i}
      <4>1. i \in 1..n /\ top \in 1..n /\ i <= top /\ i # top
        BY <2>3
      <4>2. ~(top <= i)
        BY <4>1
      <4> QED
        BY <4>2
    <3> QED
      BY <3>2, <3>3 DEF Rank
  <2> QED
    BY <2>6, <2>7
<1>3. \A m \in Nat : m \in G
  <2> HIDE DEF G
  <2> QED
    BY <1>1, <1>2, SetInduction
<1>4. Cardinality(keep) \in Nat
  BY RankGrows
<1>5. Full(keep)
  BY <1>3, <1>4
<1> QED
  BY <1>5

\* What is picked from s: the elements at keep, each at its rank.
LEMMA PickedElements ==
    ASSUME NEW S, NEW s \in Seq(S), NEW keep, keep \subseteq DOMAIN s
    PROVE  LET r == Picked(s, keep) IN
           /\ r \in Seq(S) /\ Len(r) = Cardinality(keep) /\ Cardinality(keep) \in Nat
           /\ \A k \in 1..Len(r) : \E i \in keep : Rank(keep, i) = k /\ r[k] = s[i]
           /\ \A i \in keep : /\ Rank(keep, i) \in 1..Len(r)
                              /\ r[Rank(keep, i)] = s[i]
           /\ \A i, j \in keep : i < j => Rank(keep, i) < Rank(keep, j)
<1> DEFINE n == Len(s)
           c == Cardinality(keep)
           At(k) == CHOOSE i \in keep : Rank(keep, i) = k
           r == Picked(s, keep)
<1>1. n \in Nat /\ keep \in SUBSET (1..n) /\ \A i \in keep : s[i] \in S
  BY LenProperties, ElementOfSeq
<1>2. /\ c \in Nat /\ \A i \in keep : Rank(keep, i) \in 1..c
      /\ \A i, j \in keep : i < j => Rank(keep, i) < Rank(keep, j)
  BY <1>1, RankGrows
<1>3. \A k \in 1..c : At(k) \in keep /\ Rank(keep, At(k)) = k
  <2> SUFFICES ASSUME NEW k \in 1..c PROVE At(k) \in keep /\ Rank(keep, At(k)) = k
    OBVIOUS
  <2>1. \E i \in keep : Rank(keep, i) = k
    BY <1>1, RankReached
  <2> QED
    BY <2>1
<1>4. \A i \in keep : At(Rank(keep, i)) = i
  <2> SUFFICES ASSUME NEW i \in keep PROVE At(Rank(keep, i)) = i
    OBVIOUS
  <2> DEFINE j == At(Rank(keep, i))
  <2>1. j \in keep /\ Rank(keep, j) = Rank(keep, i)
    BY <1>2, <1>3
  <2> HIDE DEF j
  <2>2. i \in Int /\ j \in Int /\ Rank(keep, i) \in Int /\ Rank(keep, j) \in Int
    BY <1>1, <1>2, <2>1
  <2>3. ~(i < j) /\ ~(j < i)
    BY <1>2, <2>1, <2>2
  <2>4. j = i
    BY <2>2, <2>3
  <2> QED
    BY <2>4 DEF j
<1>5. r = [k \in 1..c |-> s[At(k)]]
  BY DEF Picked
<1> HIDE DEF At, r, c
<1>6. /\ r \in Seq(S) /\ Len(r) = c /\ \A k \in 1..c : r[k] = s[At(k)]
  <2>1. \A k \in 1..c : s[At(k)] \in S
    BY <1>1, <1>3
  <2> QED
    BY <1>2, <1>5, <2>1
<1> QED
  BY <1>2, <1>3, <1>4, <1>6 DEF r, c

\* What is picked from s, as a set.
LEMMA PickedRange ==
    ASSUME NEW S, NEW s \in Seq(S), NEW keep, keep \subseteq DOMAIN s
    PROVE  LET r == Picked(s, keep) IN
           /\ r \in Seq(S)
           /\ \A e : e \in Range(r) <=> \E i \in keep : s[i] = e
           /\ Range(r) \subseteq Range(s)
           /\ IsInjective(s) => IsInjective(r)
<1> DEFINE r == Picked(s, keep)
<1>1. /\ r \in Seq(S)
      /\ \A k \in 1..Len(r) : \E i \in keep : Rank(keep, i) = k /\ r[k] = s[i]
      /\ \A i \in keep : Rank(keep, i) \in 1..Len(r) /\ r[Rank(keep, i)] = s[i]
  BY PickedElements
<1> HIDE DEF r
<1>2. DOMAIN r = 1..Len(r)
  BY <1>1, LenProperties
<1>3. ASSUME NEW e PROVE e \in Range(r) <=> \E i \in keep : s[i] = e
  BY <1>1, <1>2 DEF Range
<1>4. ASSUME IsInjective(s) PROVE IsInjective(r)
  <2> SUFFICES ASSUME NEW k \in DOMAIN r, NEW l \in DOMAIN r, r[k] = r[l] PROVE k = l
    BY DEF IsInjective
  <2>1. PICK i \in keep : Rank(keep, i) = k /\ r[k] = s[i]
    BY <1>1, <1>2
  <2>2. PICK j \in keep : Rank(keep, j) = l /\ r[l] = s[j]
    BY <1>1, <1>2
  <2>3. i = j
    BY <1>4, <2>1, <2>2 DEF IsInjective
  <2> QED
    BY <2>1, <2>2, <2>3
<1>5. Range(r) \subseteq Range(s)
  BY <1>3 DEF Range
<1> QED
  BY <1>1, <1>3, <1>4, <1>5 DEF r

\* The elements of a sequence have its type.
LEMMA RangeOfSeqTyped ==
    ASSUME NEW S, NEW s \in Seq(S)
    PROVE  Range(s) \subseteq S
BY LenProperties, ElementOfSeq DEF Range

\* A sequence that holds each element once is as long as it has elements.
LEMMA OnceCounted ==
    ASSUME NEW S, NEW s \in Seq(S), IsInjective(s)
    PROVE  /\ IsFiniteSet(Range(s)) /\ Len(s) \in Nat
           /\ Cardinality(Range(s)) = Len(s)
<1> DEFINE n == Len(s)
           f == [i \in 1..n |-> s[i]]
<1>1. n \in Nat /\ DOMAIN s = 1..n
  BY LenProperties
<1>2. f \in Bijection(1..n, Range(s))
  <2>1. f \in [1..n -> Range(s)]
    BY <1>1 DEF Range
  <2>2. IsInjective(f)
    BY <1>1 DEF IsInjective
  <2>3. \A e \in Range(s) : \E i \in 1..n : f[i] = e
    BY <1>1 DEF Range
  <2> HIDE DEF f, n
  <2> QED
    BY <2>1, <2>2, <2>3 DEF Bijection, Injection, Surjection
<1>3. ExistsBijection(1..n, Range(s))
  BY <1>2 DEF ExistsBijection
<1>4. Cardinality(Range(s)) = n
  BY <1>1, <1>3, FS_CountingElements
<1>5. IsFiniteSet(Range(s))
  <2>1. IsFiniteSet(1..n)
    BY <1>1, FS_Interval
  <2> QED
    BY <1>3, <2>1, FS_Bijection
<1> QED
  BY <1>1, <1>4, <1>5

\* Of two such sequences the one with fewer elements is not longer.
LEMMA OnceShorter ==
    ASSUME NEW S, NEW s \in Seq(S), NEW t \in Seq(S), IsInjective(s), IsInjective(t),
           Range(t) \subseteq Range(s)
    PROVE  Len(t) <= Len(s)
<1>1. IsFiniteSet(Range(s)) /\ Cardinality(Range(s)) = Len(s)
  BY OnceCounted
<1>2. Cardinality(Range(t)) = Len(t)
  BY OnceCounted
<1> QED
  BY <1>1, <1>2, FS_Subset

=============================================================================
