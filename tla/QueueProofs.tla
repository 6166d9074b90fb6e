----------------------------- MODULE QueueProofs -----------------------------
(***************************************************************************)
(* Facts about queues that the proofs about several systems rest on: what  *)
(* Pick takes out of a sequence, and how many messages of a kind there are *)
(* before and after one is read, sent or lost.  "At most one" is stated as *)
(* "any two are the same", so that nothing has to be added up.             *)
(***************************************************************************)
EXTENDS Subsequences, FiniteSetTheorems, SequenceTheorems,
        WellFoundedInduction, TLAPS

(* A set of natural numbers that is not empty has a least element.          *)
LEMMA LeastNumber ==
  ASSUME NEW T \in SUBSET Nat, T # {}
  PROVE  \E x \in T : \A y \in T : x <= y
<1> DEFINE R == OpToRel(<, Nat)
<1>1. IsWellFoundedOn(R, Nat)
  BY NatLessThanWellFounded
<1>2. PICK x \in T : \A y \in T : ~ (<<y, x>> \in R)
  <2> HIDE DEF R
  <2> QED  BY <1>1, WFMin
<1>3. \A y \in T : y < x => <<y, x>> \in R
  BY DEF OpToRel
<1>4. \A y \in T : ~ (y < x)
  <2> HIDE DEF R
  <2> QED  BY <1>2, <1>3
<1> QED  BY <1>4

(* The size of the domain of a sequence of length n.                        *)
LEMMA IntervalSize ==
  ASSUME NEW n \in Nat
  PROVE  IsFiniteSet(1 .. n) /\ Cardinality(1 .. n) = n
<1>1. 1 \in Int /\ n \in Int
  OBVIOUS
<1>2. /\ IsFiniteSet(1 .. n)
      /\ Cardinality(1 .. n) = IF 1 > n THEN 0 ELSE n - 1 + 1
  BY <1>1, FS_Interval, Zenon
<1> QED  BY <1>2

(* Every rank up to the size of a set of positions is the rank of one.      *)
LEMMA RankExists ==
  ASSUME NEW n \in Nat, NEW I \in SUBSET (1 .. n),
         NEW k \in 1 .. Cardinality(I)
  PROVE  \E i \in I : Cardinality({j \in I : j <= i}) = k
<1> DEFINE Upto(m) == {j \in I : j <= m}
<1> DEFINE T == {m \in Nat : k <= Cardinality(Upto(m))}
<1>1. IsFiniteSet(I) /\ Cardinality(I) \in Nat /\ k \in Nat
  <2>1. IsFiniteSet(1 .. n)
    BY FS_Interval
  <2>2. IsFiniteSet(I)
    BY <2>1, FS_Subset
  <2>3. Cardinality(I) \in Nat
    BY <2>2, FS_CardinalityType
  <2> QED  BY <2>2, <2>3
<1>2. ASSUME NEW m \in Nat
      PROVE  IsFiniteSet(Upto(m)) /\ Cardinality(Upto(m)) \in Nat
  <2>1. Upto(m) \in SUBSET I
    OBVIOUS
  <2>2. IsFiniteSet(Upto(m))
    <3> HIDE DEF Upto
    <3> QED  BY <1>1, <2>1, FS_Subset
  <2>3. Cardinality(Upto(m)) \in Nat
    <3> HIDE DEF Upto
    <3> QED  BY <2>2, FS_CardinalityType
  <2> QED  BY <2>2, <2>3
<1>3. \A j \in I : j \in 1 .. n
  OBVIOUS
<1>4. Upto(n) = I
  <2>1. \A j \in I : j <= n
    BY <1>3
  <2> QED  BY <2>1
<1>5. Upto(0) = {}
  <2>1. \A j \in I : ~ (j <= 0)
    BY <1>3
  <2> QED  BY <2>1
<1>6. ASSUME NEW m \in Nat \ {0}
      PROVE  Upto(m) = Upto(m - 1) \cup (I \cap {m})
  <2>1. \A j \in I : j <= m <=> j <= m - 1 \/ j = m
    BY <1>3
  <2> QED  BY <2>1
<1> HIDE DEF Upto
<1>7. n \in T
  <2>1. k <= Cardinality(Upto(n))
    BY <1>4
  <2> QED  BY <2>1
<1>8. T \in SUBSET Nat /\ T # {}
  BY <1>7
<1>9. PICK m \in T : \A y \in T : m <= y
  <2> HIDE DEF T
  <2> QED  BY <1>8, LeastNumber
<1>10. m \in Nat /\ k <= Cardinality(Upto(m))
  BY <1>9
<1>11. m # 0
  <2>1. Cardinality(Upto(0)) = 0
    BY <1>5, FS_EmptySet
  <2> QED  BY <1>1, <1>10, <2>1
<1>12. m - 1 \in Nat /\ ~ (m <= m - 1)
  BY <1>10, <1>11
<1>13. ~ (k <= Cardinality(Upto(m - 1)))
  BY <1>9, <1>12
<1>14. Cardinality(Upto(m - 1)) \in Nat /\ Cardinality(Upto(m)) \in Nat
  BY <1>2, <1>10, <1>12
<1>15. Upto(m) = Upto(m - 1) \cup (I \cap {m})
  BY <1>6, <1>10, <1>11
<1>16. m \in I
  <2> SUFFICES ASSUME m \notin I  PROVE FALSE
    OBVIOUS
  <2>1. Upto(m) = Upto(m - 1)
    BY <1>15
  <2> QED  BY <2>1, <1>10, <1>13
<1>17. Upto(m) = Upto(m - 1) \cup {m}
  BY <1>15, <1>16
<1>18. Cardinality(Upto(m)) <= Cardinality(Upto(m - 1)) + 1
  <2>1. IsFiniteSet(Upto(m - 1))
    BY <1>2, <1>12
  <2>2. Cardinality(Upto(m - 1) \cup {m}) =
          IF m \in Upto(m - 1) THEN Cardinality(Upto(m - 1))
                               ELSE Cardinality(Upto(m - 1)) + 1
    BY <2>1, FS_AddElement, Zenon
  <2> QED  BY <1>14, <1>17, <2>2
<1>19. Cardinality(Upto(m)) = k
  BY <1>1, <1>10, <1>13, <1>14, <1>18
<1> QED  BY <1>16, <1>19 DEF Upto

(* Picking positions of a sequence gives a sequence of what stands there.   *)
LEMMA PickProperties ==
  ASSUME NEW S, NEW s \in Seq(S), NEW I \in SUBSET (1 .. Len(s))
  PROVE  /\ Pick(s, I) \in Seq(S)
         /\ Len(Pick(s, I)) = Cardinality(I)
         /\ Cardinality(I) \in 0 .. Len(s)
         /\ \A k \in 1 .. Len(Pick(s, I)) :
              \E i \in I : Pick(s, I)[k] = s[i]
<1>1. Len(s) \in Nat /\ s \in [1 .. Len(s) -> S]
  BY LenProperties
<1>2. IsFiniteSet(1 .. Len(s)) /\ Cardinality(1 .. Len(s)) = Len(s)
  BY <1>1, IntervalSize
<1>3. IsFiniteSet(I) /\ Cardinality(I) <= Len(s)
  BY <1>2, FS_Subset
<1>4. Cardinality(I) \in Nat
  BY <1>3, FS_CardinalityType
<1>5. ASSUME NEW k \in 1 .. Cardinality(I)  PROVE Nth(I, k) \in I
  <2>1. \E i \in I : Cardinality({j \in I : j <= i}) = k
    BY <1>1, RankExists
  <2> QED  BY <2>1, Zenon DEF Nth
<1>6. \A i \in I : s[i] \in S
  BY <1>1
<1>7. Pick(s, I) \in [1 .. Cardinality(I) -> S]
  BY <1>5, <1>6 DEF Pick
<1>8. Pick(s, I) \in Seq(S)
  BY <1>4, <1>7, SeqDef
<1>9. Len(Pick(s, I)) = Cardinality(I)
  <2>1. DOMAIN Pick(s, I) = 1 .. Cardinality(I)
    BY <1>7
  <2>2. DOMAIN Pick(s, I) = 1 .. Len(Pick(s, I)) /\ Len(Pick(s, I)) \in Nat
    BY <1>8, LenProperties
  <2>3. ASSUME NEW a \in Nat, NEW b \in Nat, 1 .. a = 1 .. b
        PROVE  a = b
    <3>1. Cardinality(1 .. a) = a /\ Cardinality(1 .. b) = b
      BY IntervalSize
    <3> QED  BY <2>3, <3>1
  <2> QED  BY <1>4, <2>1, <2>2, <2>3
<1>10. \A k \in 1 .. Cardinality(I) : Pick(s, I)[k] = s[Nth(I, k)]
  BY DEF Pick
<1>11. \A k \in 1 .. Cardinality(I) : \E i \in I : Pick(s, I)[k] = s[i]
  BY <1>5, <1>10
<1> QED  BY <1>1, <1>3, <1>4, <1>8, <1>9, <1>11
-----------------------------------------------------------------------------
(* The positions of a queue where one of S stands, none and at most one.    *)
Positions(q, S) == {i \in 1 .. Len(q) : q[i] \in S}
AtMostOne(X) == \A i, j \in X : i = j
NoneOf(q, S) == Positions(q, S) = {}
OneOf(q, S) == \A i, j \in Positions(q, S) : i = j

(* If r comes from q by taking messages away or by adding others than S.    *)
NoMore(r, q, S) == (NoneOf(q, S) => NoneOf(r, S)) /\ (OneOf(q, S) => OneOf(r, S))

(* A map between positions that keeps what stands there and is one-to-one.  *)
LEMMA NoMoreByMap ==
  ASSUME NEW r, NEW q, NEW S, NEW f,
         \A i \in Positions(r, S) : f[i] \in Positions(q, S),
         \A i, j \in Positions(r, S) : f[i] = f[j] => i = j
  PROVE  NoMore(r, q, S)
BY DEF NoMore, NoneOf, OneOf

(* The same between two queues where different things are looked for.       *)
LEMMA OneByMap ==
  ASSUME NEW r, NEW R, NEW q, NEW S, NEW f,
         \A i \in Positions(r, R) : f[i] \in Positions(q, S),
         \A i, j \in Positions(r, R) : f[i] = f[j] => i = j
  PROVE  AtMostOne(Positions(q, S)) => OneOf(r, R)
BY DEF AtMostOne, OneOf

LEMMA NoMoreOfSame ==
  ASSUME NEW q, NEW S
  PROVE  NoMore(q, q, S)
BY DEF NoMore

LEMMA NoMoreOfEmpty ==
  ASSUME NEW q, NEW S
  PROVE  NoneOf(<<>>, S) /\ OneOf(<<>>, S) /\ NoMore(<<>>, q, S)
<1>1. Positions(<<>>, S) = {}
  BY DEF Positions
<1> QED
  BY <1>1 DEF NoneOf, OneOf, NoMore

LEMMA NoMoreOfTail ==
  ASSUME NEW T, NEW q \in Seq(T), q # <<>>, NEW S
  PROVE  /\ NoMore(Tail(q), q, S)
         /\ Head(q) \in S /\ OneOf(q, S) => NoneOf(Tail(q), S)
<1>1. /\ Len(q) \in Nat /\ Len(q) >= 1 /\ Head(q) = q[1]
      /\ Len(Tail(q)) = Len(q) - 1
      /\ \A i \in 1 .. Len(Tail(q)) : Tail(q)[i] = q[i + 1]
  BY HeadTailProperties, LenProperties, EmptySeq
<1> DEFINE f == [i \in 1 .. Len(Tail(q)) |-> i + 1]
<1>2. \A i \in Positions(Tail(q), S) :
        f[i] = i + 1 /\ f[i] \in Positions(q, S) /\ i \in 1 .. Len(q) - 1
  BY <1>1 DEF Positions
<1> HIDE DEF f
<1>3. NoMore(Tail(q), q, S)
  <2>1. \A i, j \in Positions(Tail(q), S) : f[i] = f[j] => i = j
    BY <1>1, <1>2
  <2> QED
    BY <1>2, <2>1, NoMoreByMap
<1>4. ASSUME Head(q) \in S, OneOf(q, S)
      PROVE  NoneOf(Tail(q), S)
  <2>1. 1 \in Positions(q, S)
    BY <1>1, <1>4 DEF Positions
  <2>2. \A i \in Positions(Tail(q), S) : i + 1 = 1
    BY <1>2, <1>4, <2>1 DEF OneOf
  <2> QED
    BY <1>1, <1>2, <2>2 DEF NoneOf
<1> QED
  BY <1>3, <1>4

(* Messages that are sent: none of S, or one of S behind none.              *)
LEMMA NoMoreOfConcat ==
  ASSUME NEW T, NEW q \in Seq(T), NEW m \in Seq(T), NEW S
  PROVE  /\ NoneOf(m, S) => NoMore(q \o m, q, S)
         /\ NoneOf(q, S) /\ OneOf(m, S) => OneOf(q \o m, S)
         /\ NoneOf(q, S) /\ NoneOf(m, S) => NoneOf(q \o m, S)
<1>1. /\ Len(q) \in Nat /\ Len(m) \in Nat
      /\ Len(q \o m) = Len(q) + Len(m)
      /\ \A i \in 1 .. Len(q) + Len(m) :
           (q \o m)[i] = IF i <= Len(q) THEN q[i] ELSE m[i - Len(q)]
  BY ConcatProperties, LenProperties
<1>2. \A i \in Positions(q \o m, S) :
        /\ i \in Nat
        /\ i \in Positions(q, S) \/ i - Len(q) \in Positions(m, S)
  BY <1>1 DEF Positions
<1>3. ASSUME NoneOf(m, S)  PROVE NoMore(q \o m, q, S)
  <2>1. Positions(q \o m, S) \subseteq Positions(q, S)
    BY <1>2, <1>3 DEF NoneOf
  <2> QED
    BY <2>1 DEF NoMore, NoneOf, OneOf
<1>4. ASSUME NoneOf(q, S), OneOf(m, S)  PROVE OneOf(q \o m, S)
  <2> SUFFICES ASSUME NEW i \in Positions(q \o m, S),
                      NEW j \in Positions(q \o m, S)
               PROVE  i = j
    BY DEF OneOf
  <2>1. i - Len(q) \in Positions(m, S) /\ j - Len(q) \in Positions(m, S)
    BY <1>2, <1>4 DEF NoneOf
  <2>2. i - Len(q) = j - Len(q)
    BY <1>4, <2>1 DEF OneOf
  <2> QED
    BY <1>1, <1>2, <2>2
<1>5. ASSUME NoneOf(q, S), NoneOf(m, S)  PROVE NoneOf(q \o m, S)
  BY <1>2, <1>5 DEF NoneOf
<1> QED
  BY <1>3, <1>4, <1>5

LEMMA NoneOfOne ==
  ASSUME NEW x, NEW S
  PROVE  /\ OneOf(<<x>>, S)
         /\ x \notin S => NoneOf(<<x>>, S)
BY DEF NoneOf, OneOf, Positions

(* What goes into the pool, or onto a link, is a token or is none.          *)
LEMMA NoMoreOfAppend ==
  ASSUME NEW T, NEW q \in Seq(T), NEW x \in T, NEW S
  PROVE  /\ x \notin S => NoMore(Append(q, x), q, S)
         /\ NoneOf(q, S) => OneOf(Append(q, x), S)
         /\ x \notin S /\ NoneOf(q, S) => NoneOf(Append(q, x), S)
<1>1. /\ Len(q) \in Nat /\ Len(Append(q, x)) = Len(q) + 1
      /\ \A i \in 1 .. Len(q) : Append(q, x)[i] = q[i]
      /\ Append(q, x)[Len(q) + 1] = x
  BY AppendProperties, LenProperties
<1>2. \A i \in Positions(Append(q, x), S) :
        i \in Positions(q, S) \/ (i = Len(q) + 1 /\ x \in S)
  <2> TAKE i \in Positions(Append(q, x), S)
  <2>1. i \in 1 .. Len(q) + 1 /\ Append(q, x)[i] \in S
    BY <1>1 DEF Positions
  <2>2. CASE i \in 1 .. Len(q)
    BY <1>1, <2>1, <2>2 DEF Positions
  <2>3. CASE i = Len(q) + 1
    BY <1>1, <2>1, <2>3
  <2> QED
    BY <1>1, <2>1, <2>2, <2>3
<1> QED
  BY <1>2 DEF NoMore, NoneOf, OneOf

(* A part of a queue, from some position to another one.                    *)
LEMMA SubSeqElements ==
  ASSUME NEW T, NEW q \in Seq(T), NEW a \in Nat \ {0}, NEW b \in Nat,
         b <= Len(q)
  PROVE  /\ SubSeq(q, a, b) \in Seq(T)
         /\ Len(SubSeq(q, a, b)) = IF a <= b THEN b - a + 1 ELSE 0
         /\ \A i \in 1 .. Len(SubSeq(q, a, b)) :
              a + i - 1 \in 1 .. Len(q) /\ SubSeq(q, a, b)[i] = q[a + i - 1]
<1>1. Len(q) \in Nat /\ \A i \in a .. b : i \in 1 .. Len(q) /\ q[i] \in T
  BY LenProperties, ElementOfSeq
<1>2. /\ SubSeq(q, a, b) \in Seq(T)
      /\ Len(SubSeq(q, a, b)) = IF a <= b THEN b - a + 1 ELSE 0
      /\ \A i \in 1 .. b - a + 1 : SubSeq(q, a, b)[i] = q[a + i - 1]
  BY <1>1, SubSeqProperties
<1> QED
  BY <1>1, <1>2

LEMMA NoMoreOfSubSeq ==
  ASSUME NEW T, NEW q \in Seq(T), NEW a \in Nat \ {0}, NEW b \in Nat,
         b <= Len(q), NEW S
  PROVE  NoMore(SubSeq(q, a, b), q, S)
<1> DEFINE r == SubSeq(q, a, b)
           f == [i \in 1 .. Len(r) |-> a + i - 1]
<1>1. Len(r) \in Nat
  BY SubSeqElements, LenProperties
<1>2. \A i \in 1 .. Len(r) : f[i] \in 1 .. Len(q) /\ r[i] = q[f[i]]
  BY SubSeqElements
<1>3. \A i, j \in 1 .. Len(r) : f[i] = f[j] => i = j
  BY <1>1
<1> HIDE DEF r, f
<1>4. \A i \in Positions(r, S) : i \in 1 .. Len(r) /\ f[i] \in Positions(q, S)
  BY <1>2 DEF Positions
<1>5. NoMore(r, q, S)
  BY <1>3, <1>4, NoMoreByMap
<1> QED
  BY <1>5 DEF r

-----------------------------------------------------------------------------
(* The order in which positions are picked.                                 *)

LEMMA RankGrows ==
  ASSUME NEW m \in Nat, NEW I \in SUBSET (1 .. m), NEW i \in I, NEW l \in I, i < l
  PROVE  /\ Cardinality({j \in I : j <= i}) \in Nat
         /\ Cardinality({j \in I : j <= l}) \in Nat
         /\ Cardinality({j \in I : j <= i}) < Cardinality({j \in I : j <= l})
<1> DEFINE A == {j \in I : j <= i}
           B == {j \in I : j <= l}
<1>0. \A j \in I : j \in Int
  OBVIOUS
<1>1. A \subseteq B /\ l \in B /\ l \notin A /\ B \subseteq I
  <2>1. \A x \in Int : /\ x <= i => x <= l
                       /\ ~(l <= i) /\ l <= l
    BY <1>0
  <2> QED
    BY <1>0, <2>1
<1> HIDE DEF A, B
<1>2. IsFiniteSet(I) /\ IsFiniteSet(B) /\ IsFiniteSet(A)
  BY <1>1, IntervalSize, FS_Subset
<1>3. Cardinality(A) \in Nat /\ Cardinality(B) \in Nat
  BY <1>2, FS_CardinalityType
<1>4. Cardinality(A) <= Cardinality(B)
      /\ (Cardinality(A) = Cardinality(B) => A = B)
  BY <1>1, <1>2, FS_Subset
<1>5. Cardinality(A) < Cardinality(B)
  BY <1>1, <1>3, <1>4
<1> QED
  BY <1>3, <1>5 DEF A, B

LEMMA NthProperties ==
  ASSUME NEW m \in Nat, NEW I \in SUBSET (1 .. m)
  PROVE  /\ IsFiniteSet(I) /\ Cardinality(I) \in 0 .. m
         /\ \A k \in 1 .. Cardinality(I) : Nth(I, k) \in I
         /\ \A k, l \in 1 .. Cardinality(I) :
              /\ Nth(I, k) = Nth(I, l) => k = l
              /\ k < l => Nth(I, k) < Nth(I, l)
         /\ \A i \in I : \E k \in 1 .. Cardinality(I) : Nth(I, k) = i
<1> DEFINE Rank(i) == Cardinality({j \in I : j <= i})
<1>1. IsFiniteSet(I) /\ Cardinality(I) \in 0 .. m
  <2>1. IsFiniteSet(1 .. m) /\ Cardinality(1 .. m) = m
    BY IntervalSize
  <2>2. IsFiniteSet(I) /\ Cardinality(I) <= m
    BY <2>1, FS_Subset
  <2>3. Cardinality(I) \in Nat
    BY <2>2, FS_CardinalityType
  <2> QED
    BY <2>2, <2>3
<1>2. ASSUME NEW k \in 1 .. Cardinality(I)
      PROVE  Nth(I, k) \in I /\ Rank(Nth(I, k)) = k
  <2>1. \E i \in I : Cardinality({j \in I : j <= i}) = k
    BY RankExists
  <2> QED
    BY <2>1, Zenon DEF Nth
<1>3. ASSUME NEW i \in I
      PROVE  Rank(i) \in 1 .. Cardinality(I)
  <2> DEFINE A == {j \in I : j <= i}
  <2>1. A \subseteq I /\ i \in A
    BY 1 .. m \subseteq Int
  <2> HIDE DEF A
  <2>2. IsFiniteSet(A) /\ Cardinality(A) <= Cardinality(I)
    BY <1>1, <2>1, FS_Subset
  <2>3. Cardinality(A) \in Nat /\ Cardinality(A) # 0
    BY <2>1, <2>2, FS_CardinalityType, FS_EmptySet
  <2>4. Cardinality(A) \in 1 .. Cardinality(I)
    BY <1>1, <2>2, <2>3
  <2> QED
    BY <2>4 DEF A
<1>4. ASSUME NEW i \in I, NEW l \in I, i < l
      PROVE  Rank(i) < Rank(l) /\ Rank(i) \in Nat /\ Rank(l) \in Nat
  BY <1>4, RankGrows
<1>5. \A i \in I : i \in Nat
  OBVIOUS
<1> HIDE DEF Rank
<1>6. \A i, l \in I : Rank(i) = Rank(l) => i = l
  <2> SUFFICES ASSUME NEW i \in I, NEW l \in I, i # l
               PROVE  Rank(i) # Rank(l)
    OBVIOUS
  <2>1. i < l \/ l < i
    BY <1>5
  <2> QED
    BY <1>4, <2>1
<1>7. \A k, l \in 1 .. Cardinality(I) :
        /\ Nth(I, k) = Nth(I, l) => k = l
        /\ k < l => Nth(I, k) < Nth(I, l)
  <2> SUFFICES ASSUME NEW k \in 1 .. Cardinality(I), NEW l \in 1 .. Cardinality(I)
               PROVE  /\ Nth(I, k) = Nth(I, l) => k = l
                      /\ k < l => Nth(I, k) < Nth(I, l)
    OBVIOUS
  <2>1. /\ Nth(I, k) \in I /\ Nth(I, l) \in I
        /\ Rank(Nth(I, k)) = k /\ Rank(Nth(I, l)) = l
    BY <1>2
  <2>2. ASSUME k < l, ~(Nth(I, k) < Nth(I, l))
        PROVE  FALSE
    <3>1. Nth(I, l) < Nth(I, k) \/ Nth(I, l) = Nth(I, k)
      <4>1. \A x, y \in Nat : x < y \/ y < x \/ y = x
        OBVIOUS
      <4> QED
        BY <1>5, <2>1, <2>2, <4>1
    <3>2. l < k \/ l = k
      BY <1>4, <2>1, <3>1
    <3> QED
      BY <2>2, <3>2
  <2> QED
    BY <2>1, <2>2
<1>8. \A i \in I : \E k \in 1 .. Cardinality(I) : Nth(I, k) = i
  BY <1>2, <1>3, <1>6
<1> QED
  BY <1>1, <1>2, <1>7, <1>8

(* Pick keeps every position of I once, in their order.                     *)
LEMMA PickPositions ==
  ASSUME NEW T, NEW q \in Seq(T), NEW I \in SUBSET (1 .. Len(q))
  PROVE  /\ Pick(q, I) \in Seq(T)
         /\ Len(Pick(q, I)) = Cardinality(I)
         /\ \A k \in 1 .. Cardinality(I) :
              Nth(I, k) \in I /\ Pick(q, I)[k] = q[Nth(I, k)]
         /\ \A i \in I : \E k \in 1 .. Cardinality(I) :
              Nth(I, k) = i /\ Pick(q, I)[k] = q[i]
<1>1. Len(q) \in Nat
  BY LenProperties
<1>2. \A k \in 1 .. Cardinality(I) : Pick(q, I)[k] = q[Nth(I, k)]
  BY DEF Pick
<1>3. Pick(q, I) \in Seq(T) /\ Len(Pick(q, I)) = Cardinality(I)
  BY PickProperties
<1>4. /\ \A k \in 1 .. Cardinality(I) : Nth(I, k) \in I
      /\ \A i \in I : \E k \in 1 .. Cardinality(I) : Nth(I, k) = i
  BY <1>1, NthProperties
<1> QED
  BY <1>2, <1>3, <1>4

LEMMA NoMoreOfPick ==
  ASSUME NEW T, NEW q \in Seq(T), NEW I \in SUBSET (1 .. Len(q)), NEW S
  PROVE  NoMore(Pick(q, I), q, S)
<1> DEFINE f == [k \in 1 .. Cardinality(I) |-> Nth(I, k)]
<1>1. Len(q) \in Nat
  BY LenProperties
<1>2. \A k, l \in 1 .. Cardinality(I) : f[k] = f[l] => k = l
  BY <1>1, NthProperties
<1>3. \A k \in 1 .. Cardinality(I) : f[k] \in 1 .. Len(q) /\ Pick(q, I)[k] = q[f[k]]
  BY PickPositions
<1> HIDE DEF f
<1>4. \A k \in Positions(Pick(q, I), S) :
        k \in 1 .. Cardinality(I) /\ f[k] \in Positions(q, S)
  BY <1>3, PickPositions DEF Positions
<1> QED
  BY <1>2, <1>4, NoMoreByMap

-----------------------------------------------------------------------------
(* What is found at the places P: F[p] at p.  It moves from place to place. *)

Fewer(Y, X) == (X = {} => Y = {}) /\ (AtMostOne(X) => AtMostOne(Y))

NoneAmong(P, F) == \A p \in P : F[p] = {}
OneAmong(P, F) == \A p, q \in P : \A i \in F[p], j \in F[q] : p = q /\ i = j
NotMore(P, G, F) ==
  (NoneAmong(P, F) => NoneAmong(P, G)) /\ (OneAmong(P, F) => OneAmong(P, G))

LEMMA FewerIsNoMore ==
  ASSUME NEW r, NEW q, NEW S
  PROVE  NoMore(r, q, S) <=> Fewer(Positions(r, S), Positions(q, S))
BY DEF NoMore, Fewer, NoneOf, OneOf, AtMostOne

LEMMA FewerEach ==
  ASSUME NEW P, NEW F, NEW G, \A p \in P : Fewer(G[p], F[p])
  PROVE  NotMore(P, G, F)
BY DEF NotMore, NoneAmong, OneAmong, Fewer, AtMostOne

(* What was at the place a, and is there no more, may now be at d.          *)
LEMMA OneMoved ==
  ASSUME NEW P, NEW F, NEW G, NEW a \in P, NEW d \in P, a # d,
         \A p \in P \ {d} : Fewer(G[p], F[p]),
         F[a] # {}, AtMostOne(F[a]) => G[a] = {},
         F[d] = {} => AtMostOne(G[d])
  PROVE  NotMore(P, G, F)
<1>1. ~NoneAmong(P, F)
  BY DEF NoneAmong
<1>2. ASSUME OneAmong(P, F)
      PROVE  OneAmong(P, G)
  <2>1. \A p \in P \ {a} : F[p] = {}
    BY <1>2 DEF OneAmong
  <2>2. AtMostOne(F[a])
    BY <1>2 DEF OneAmong, AtMostOne
  <2>3. \A p \in P \ {d} : G[p] = {}
    BY <2>1, <2>2 DEF Fewer
  <2>4. AtMostOne(G[d])
    BY <2>1
  <2> QED
    BY <2>3, <2>4 DEF OneAmong, AtMostOne
<1> QED
  BY <1>1, <1>2 DEF NotMore

(* Nothing is to be shown where there is more than one already.             *)
LEMMA EnoughForOne ==
  ASSUME NEW P, NEW F, NEW G, OneAmong(P, F) => NotMore(P, G, F)
  PROVE  NotMore(P, G, F)
BY DEF NotMore, NoneAmong, OneAmong

(* What is left of a queue when its first m messages are gone.              *)
LEMMA NoneBehind ==
  ASSUME NEW T, NEW q \in Seq(T), NEW m \in Nat, m <= Len(q), NEW S,
         NEW k \in 1 .. m, q[k] \in S, AtMostOne(Positions(q, S))
  PROVE  Positions(SubSeq(q, m + 1, Len(q)), S) = {}
<1> DEFINE r == SubSeq(q, m + 1, Len(q))
<1>1. m + 1 \in Nat \ {0} /\ Len(q) \in Nat /\ Len(q) <= Len(q)
  BY LenProperties
<1>2. \A i \in 1 .. Len(r) :
        m + 1 + i - 1 \in 1 .. Len(q) /\ r[i] = q[m + 1 + i - 1]
  BY <1>1, SubSeqElements
<1>3. k \in Positions(q, S)
  BY <1>1 DEF Positions
<1> SUFFICES ASSUME NEW i \in Positions(r, S)
             PROVE  FALSE
  OBVIOUS
<1>4. i \in 1 .. Len(r) /\ r[i] \in S /\ i \in Int /\ i >= 1
  BY DEF Positions
<1>5. m + 1 + i - 1 \in Positions(q, S)
  BY <1>2, <1>4 DEF Positions
<1>6. m + 1 + i - 1 # k
  BY <1>4
<1> QED
  BY <1>3, <1>5, <1>6 DEF AtMostOne

LEMMA NotMoreTwice ==
  ASSUME NEW P, NEW F, NEW G, NEW H, NotMore(P, G, F), NotMore(P, H, G)
  PROVE  NotMore(P, H, F)
BY DEF NotMore

(* Something new, where there was nothing.                                  *)
LEMMA OneAppears ==
  ASSUME NEW P, NEW F, NEW G, NEW d \in P, NoneAmong(P, F),
         \A p \in P \ {d} : Fewer(G[p], F[p]), AtMostOne(G[d])
  PROVE  OneAmong(P, G)
BY DEF NoneAmong, OneAmong, Fewer, AtMostOne

(* A set with at most one element is finite, and so small.                  *)
LEMMA OneAmongSize ==
  ASSUME NEW X, AtMostOne(X)
  PROVE  IsFiniteSet(X) /\ Cardinality(X) <= 1
<1>1. CASE X = {}
  BY <1>1, FS_EmptySet
<1>2. ASSUME NEW x \in X
      PROVE  IsFiniteSet(X) /\ Cardinality(X) <= 1
  <2>1. X = {x}
    BY DEF AtMostOne
  <2>2. IsFiniteSet({x}) /\ Cardinality({x}) = 1
    BY FS_Singleton
  <2> QED
    BY <2>1, <2>2
<1> QED
  BY <1>1, <1>2

LEMMA SameIsNotMore ==
  ASSUME NEW P, NEW F
  PROVE  NotMore(P, F, F)
BY DEF NotMore

(* The head of a queue, when it is of interest and when it is read.         *)
LEMMA HeadFound ==
  ASSUME NEW T, NEW q \in Seq(T), q # <<>>, NEW S
  PROVE  /\ Head(q) \in T /\ Tail(q) \in Seq(T)
         /\ NoMore(Tail(q), q, S)
         /\ Head(q) \in S => /\ Positions(q, S) # {}
                             /\ AtMostOne(Positions(q, S)) => Positions(Tail(q), S) = {}
<1>1. /\ Head(q) \in T /\ Tail(q) \in Seq(T) /\ Len(q) \in Nat /\ Len(q) >= 1
      /\ Head(q) = q[1]
  BY HeadTailProperties, LenProperties, EmptySeq
<1>2. /\ NoMore(Tail(q), q, S)
      /\ Head(q) \in S /\ OneOf(q, S) => NoneOf(Tail(q), S)
  BY NoMoreOfTail
<1>3. Head(q) \in S => 1 \in Positions(q, S)
  BY <1>1 DEF Positions
<1> QED
  BY <1>1, <1>2, <1>3 DEF OneOf, NoneOf, AtMostOne
=============================================================================
