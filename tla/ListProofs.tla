----------------------------- MODULE ListProofs -----------------------------
(***************************************************************************)
(* Facts about the lists of the servers (accept queues, popped batches,    *)
(* the connections of a round of events): what is in a list, and that      *)
(* nothing is in it twice, when it is appended to, cut or consumed; and    *)
(* about streams of numbered units that are cut and put together.          *)
(***************************************************************************)
EXTENDS Integers, Sequences, Functions, FiniteSets, SequenceTheorems,
  FiniteSetTheorems, TLAPS

Disjoint(A, B) == \A c \in A : c \notin B

\* An empty list has no members.
LEMMA RangeEmpty == Range(<<>>) = {} /\ IsInjective(<<>>)
BY DEF Range, IsInjective

\* An element is appended to a list that does not hold it.
LEMMA RangeAppend ==
  ASSUME NEW S, NEW s \in Seq(S), NEW c \in S
  PROVE  /\ Range(Append(s, c)) = Range(s) \cup {c}
         /\ IsInjective(s) /\ c \notin Range(s) => IsInjective(Append(s, c))
<1> DEFINE a == Append(s, c)
<1>1. /\ Len(s) \in Nat
      /\ DOMAIN s = 1 .. Len(s)
      /\ DOMAIN a = 1 .. Len(s) + 1
      /\ \A k \in 1 .. Len(s) : a[k] = s[k]
      /\ a[Len(s) + 1] = c
  BY AppendProperties, LenProperties
<1> HIDE DEF a
<1>2. DOMAIN a = DOMAIN s \cup {Len(s) + 1} /\ Len(s) + 1 \notin DOMAIN s
  BY <1>1
<1>3. \A k \in DOMAIN s : a[k] = s[k]
  BY <1>1
<1>4. Range(a) = Range(s) \cup {c}
  BY <1>1, <1>2, <1>3 DEF Range
<1>5. IsInjective(s) /\ c \notin Range(s) => IsInjective(a)
  BY <1>1, <1>2, <1>3 DEF Range, IsInjective
<1> QED
  BY <1>4, <1>5 DEF a

\* A list is cut in two.
LEMMA RangeCut ==
  ASSUME NEW S, NEW s \in Seq(S), NEW n \in 0 .. Len(s), IsInjective(s)
  PROVE  /\ Range(s) = Range(SubSeq(s, 1, n)) \cup Range(SubSeq(s, n + 1, Len(s)))
         /\ Disjoint(Range(SubSeq(s, 1, n)), Range(SubSeq(s, n + 1, Len(s))))
         /\ IsInjective(SubSeq(s, 1, n))
         /\ IsInjective(SubSeq(s, n + 1, Len(s)))
<1> DEFINE front == SubSeq(s, 1, n)
           rest == SubSeq(s, n + 1, Len(s))
<1>1. Len(s) \in Nat /\ DOMAIN s = 1 .. Len(s) /\ \A k \in 1 .. Len(s) : s[k] \in S
  BY LenProperties, ElementOfSeq
<1>2. DOMAIN front = 1 .. n /\ \A k \in 1 .. n : front[k] = s[k]
  <2>1. front = [k \in 1 .. n |-> s[k]]
    BY <1>1 DEF front
  <2> QED
    BY <2>1
<1>3. /\ DOMAIN rest = 1 .. Len(s) - n
      /\ \A k \in 1 .. Len(s) - n : rest[k] = s[k + n]
  <2>1. rest = [k \in 1 .. Len(s) - n |-> s[k + n]]
    BY <1>1 DEF rest
  <2> QED
    BY <2>1
<1> HIDE DEF front, rest
<1>4. Range(front) = {s[k] : k \in 1 .. n}
  BY <1>2 DEF Range
<1>5. Range(rest) = {s[k] : k \in n + 1 .. Len(s)}
  <2>1. ASSUME NEW k \in n + 1 .. Len(s)
        PROVE  \E l \in DOMAIN rest : rest[l] = s[k]
    <3>1. k - n \in 1 .. Len(s) - n /\ (k - n) + n = k
      BY <1>1
    <3> QED
      BY <1>3, <3>1
  <2>2. ASSUME NEW k \in DOMAIN rest
        PROVE  \E l \in n + 1 .. Len(s) : s[l] = rest[k]
    <3>1. k + n \in n + 1 .. Len(s)
      BY <1>1, <1>3
    <3> QED
      BY <1>3, <3>1
  <2> QED
    BY <2>1, <2>2 DEF Range
<1>6. DOMAIN s = (1 .. n) \cup (n + 1 .. Len(s)) /\ \A k \in 1 .. n : k \notin n + 1 .. Len(s)
  BY <1>1
<1>7. Range(s) = Range(front) \cup Range(rest)
  BY <1>4, <1>5, <1>6 DEF Range
<1>8. Disjoint(Range(front), Range(rest))
  BY <1>4, <1>5, <1>6 DEF Disjoint, IsInjective
<1>9. IsInjective(front)
  BY <1>2, <1>6 DEF IsInjective
<1>10. IsInjective(rest)
  <2> SUFFICES ASSUME NEW k \in 1 .. Len(s) - n, NEW l \in 1 .. Len(s) - n, rest[k] = rest[l]
               PROVE  k = l
    BY <1>3 DEF IsInjective
  <2>1. k + n \in DOMAIN s /\ l + n \in DOMAIN s /\ s[k + n] = s[l + n]
    BY <1>1, <1>3
  <2> QED
    BY <2>1 DEF IsInjective
<1> QED
  BY <1>7, <1>8, <1>9, <1>10 DEF front, rest

\* The head of a list is taken out.
LEMMA RangeTail ==
  ASSUME NEW S, NEW s \in Seq(S), s # <<>>, IsInjective(s)
  PROVE  /\ Range(s) = {Head(s)} \cup Range(Tail(s))
         /\ Head(s) \notin Range(Tail(s))
         /\ IsInjective(Tail(s))
<1>1. /\ Len(s) \in Nat \ {0}
      /\ DOMAIN s = 1 .. Len(s)
      /\ Head(s) = s[1]
      /\ DOMAIN Tail(s) = 1 .. Len(s) - 1
      /\ \A k \in 1 .. Len(s) - 1 : Tail(s)[k] = s[k + 1]
  BY EmptySeq, LenProperties, HeadTailProperties
<1> DEFINE rest == Tail(s)
<1>2. /\ DOMAIN rest = 1 .. Len(s) - 1
      /\ \A k \in 1 .. Len(s) - 1 : rest[k] = s[k + 1]
  BY <1>1
<1> HIDE DEF rest
<1>3. Range(rest) = {s[k] : k \in 2 .. Len(s)}
  <2>1. ASSUME NEW k \in 2 .. Len(s)
        PROVE  \E l \in DOMAIN rest : rest[l] = s[k]
    <3>1. k - 1 \in 1 .. Len(s) - 1 /\ (k - 1) + 1 = k
      BY <1>1
    <3> QED
      BY <1>2, <3>1
  <2>2. ASSUME NEW k \in DOMAIN rest
        PROVE  \E l \in 2 .. Len(s) : s[l] = rest[k]
    <3>1. k + 1 \in 2 .. Len(s)
      BY <1>1, <1>2
    <3> QED
      BY <1>2, <3>1
  <2> QED
    BY <2>1, <2>2 DEF Range
<1>4. DOMAIN s = {1} \cup (2 .. Len(s)) /\ 1 \notin 2 .. Len(s)
  BY <1>1
<1>5. Range(s) = {s[1]} \cup Range(rest) /\ s[1] \notin Range(rest)
  BY <1>3, <1>4 DEF Range, IsInjective
<1>6. IsInjective(rest)
  <2> SUFFICES ASSUME NEW k \in 1 .. Len(s) - 1, NEW l \in 1 .. Len(s) - 1, rest[k] = rest[l]
               PROVE  k = l
    BY <1>2 DEF IsInjective
  <2>1. k + 1 \in DOMAIN s /\ l + 1 \in DOMAIN s /\ s[k + 1] = s[l + 1]
    BY <1>1, <1>2
  <2> QED
    BY <2>1 DEF IsInjective
<1> QED
  BY <1>1, <1>5, <1>6 DEF rest

\* A finite set in some order, as a list.
LEMMA ListOfSet ==
  ASSUME NEW S, IsFiniteSet(S), NEW s \in Bijection(1 .. Cardinality(S), S)
  PROVE  /\ s \in Seq(S)
         /\ Len(s) = Cardinality(S)
         /\ Range(s) = S
         /\ IsInjective(s)
<1>1. Cardinality(S) \in Nat
  BY FS_CardinalityType
<1>2. /\ s \in [1 .. Cardinality(S) -> S]
      /\ IsInjective(s)
      /\ \A c \in S : \E k \in 1 .. Cardinality(S) : s[k] = c
  BY DEF Bijection, Injection, Surjection
<1>3. s \in Seq(S)
  BY <1>1, <1>2, SeqDef
<1>4. Len(s) = Cardinality(S)
  <2>1. DOMAIN s = 1 .. Len(s) /\ Len(s) \in Nat
    BY <1>3, LenProperties
  <2> QED
    BY <1>1, <1>2, <2>1
<1>5. Range(s) = S
  BY <1>2 DEF Range
<1> QED
  BY <1>2, <1>3, <1>4, <1>5

\* A list in which nothing is twice is as long as the set of its members.
LEMMA ListLength ==
  ASSUME NEW S, NEW s \in Seq(S), IsInjective(s)
  PROVE  /\ IsFiniteSet(Range(s))
         /\ Cardinality(Range(s)) = Len(s)
<1>1. Len(s) \in Nat /\ DOMAIN s = 1 .. Len(s)
  BY LenProperties
<1>2. s \in Bijection(1 .. Len(s), Range(s))
  <2>1. s \in [1 .. Len(s) -> Range(s)]
    BY <1>1, LenProperties DEF Range
  <2> QED
    BY <1>1, <2>1 DEF Bijection, Injection, Surjection, Range
<1>3. ExistsBijection(1 .. Len(s), Range(s))
  BY <1>2 DEF ExistsBijection
<1> QED
  BY <1>1, <1>3, FS_NatBijection, FS_CountingElements

\* The head of a list is a member of it.
LEMMA HeadInRange ==
  ASSUME NEW S, NEW s \in Seq(S), s # <<>>
  PROVE  Head(s) \in Range(s)
<1>1. Len(s) \in Nat \ {0} /\ DOMAIN s = 1 .. Len(s) /\ Head(s) = s[1]
  BY EmptySeq, LenProperties, HeadTailProperties
<1> QED
  BY <1>1 DEF Range

\* What is behind the head of a list was in it.
LEMMA TailInRange ==
  ASSUME NEW S, NEW s \in Seq(S), s # <<>>
  PROVE  Range(Tail(s)) \subseteq Range(s)
<1>1. /\ Len(s) \in Nat \ {0} /\ DOMAIN s = 1 .. Len(s)
      /\ DOMAIN Tail(s) = 1 .. Len(s) - 1
      /\ \A k \in 1 .. Len(s) - 1 : Tail(s)[k] = s[k + 1]
  BY EmptySeq, LenProperties, HeadTailProperties
<1>2. \A k \in 1 .. Len(s) - 1 : k + 1 \in 1 .. Len(s)
  BY <1>1
<1> QED
  BY <1>1, <1>2 DEF Range

\* The members of two finite sets that share none.
LEMMA DisjointUnion ==
  ASSUME NEW A, NEW B, IsFiniteSet(A), IsFiniteSet(B), Disjoint(A, B)
  PROVE  /\ IsFiniteSet(A \cup B)
         /\ Cardinality(A \cup B) = Cardinality(A) + Cardinality(B)
<1>1. A \cap B = {}
  BY DEF Disjoint
<1>2. Cardinality(A \cap B) = 0
  BY <1>1, FS_EmptySet
<1>3. Cardinality(A) \in Nat /\ Cardinality(B) \in Nat
  BY FS_CardinalityType
<1>4. /\ IsFiniteSet(A \cup B)
      /\ Cardinality(A \cup B) = Cardinality(A) + Cardinality(B) - Cardinality(A \cap B)
  BY FS_Union
<1> DEFINE a == Cardinality(A)
           b == Cardinality(B)
           both == Cardinality(A \cap B)
<1> HIDE DEF a, b, both
<1>5. a + b - both = a + b
  BY <1>2, <1>3 DEF a, b, both
<1> QED
  BY <1>4, <1>5 DEF a, b, both

\* What is in a concatenation.
LEMMA RangeCat ==
  ASSUME NEW S, NEW s \in Seq(S), NEW t \in Seq(S)
  PROVE  Range(s \o t) = Range(s) \cup Range(t)
BY RangeConcatenation

\* What is in a list of one element.
LEMMA RangeOne == \A x : Range(<<x>>) = {x}
BY DEF Range

\* The units of s are client c's first n, each once and in order; those of s come
\* before those of t.
Stretch(s, c, n) ==
  /\ \A x \in Range(s) : x[1] = c /\ x[2] <= n
  /\ \A i, j \in DOMAIN s : i < j => s[i][2] < s[j][2]

Precedes(s, t) == \A x \in Range(s), y \in Range(t) : x[2] < y[2]

\* A concatenation precedes, or is preceded, when its parts are.
LEMMA PrecedesCat ==
  ASSUME NEW S, NEW s \in Seq(S), NEW t \in Seq(S), NEW u
  PROVE  /\ Precedes(s \o t, u) <=> Precedes(s, u) /\ Precedes(t, u)
         /\ Precedes(u, s \o t) <=> Precedes(u, s) /\ Precedes(u, t)
<1>1. Range(s \o t) = Range(s) \cup Range(t)
  BY RangeCat
<1> QED
  BY <1>1 DEF Precedes

\* A concatenation is a stretch when its parts are, the first before the second.
LEMMA StretchCat ==
  ASSUME NEW S, NEW s \in Seq(S), NEW t \in Seq(S), NEW c, NEW n
  PROVE  Stretch(s \o t, c, n) <=> Stretch(s, c, n) /\ Stretch(t, c, n) /\ Precedes(s, t)
<1> DEFINE Rises(q) == \A i, j \in DOMAIN q : i < j => q[i][2] < q[j][2]
<1>1. PICK a \in Nat, b \in Nat : /\ a = Len(s) /\ b = Len(t)
                                  /\ DOMAIN s = 1 .. a /\ DOMAIN t = 1 .. b
  BY LenProperties
<1>2. PICK q \in Seq(S) : q = s \o t
  BY ConcatProperties
<1>3. /\ DOMAIN q = 1 .. a + b
      /\ \A i \in 1 .. a : q[i] = s[i]
      /\ \A i \in 1 .. b : q[a + i] = t[i]
  <2>1. /\ DOMAIN q = 1 .. a + b
        /\ \A i \in 1 .. a + b : q[i] = IF i <= a THEN s[i] ELSE t[i - a]
    BY <1>1, <1>2, ConcatProperties, LenProperties
  <2>2. ASSUME NEW i \in 1 .. b
        PROVE  q[a + i] = t[i]
    <3>1. a + i \in 1 .. a + b /\ ~(a + i <= a) /\ (a + i) - a = i
      OBVIOUS
    <3> QED
      BY <2>1, <3>1
  <2>3. ASSUME NEW i \in 1 .. a
        PROVE  q[i] = s[i]
    <3>1. i \in 1 .. a + b /\ i <= a
      OBVIOUS
    <3> QED
      BY <2>1, <3>1
  <2> QED
    BY <2>1, <2>2, <2>3
<1>4. Range(q) = Range(s) \cup Range(t)
  BY <1>2, RangeCat
<1>5. ASSUME Rises(q)
      PROVE  Rises(s) /\ Rises(t) /\ Precedes(s, t)
  <2>1. Rises(s)
    BY <1>1, <1>3, <1>5
  <2>2. ASSUME NEW i \in 1 .. b, NEW j \in 1 .. b, i < j
        PROVE  t[i][2] < t[j][2]
    <3>1. a + i \in DOMAIN q /\ a + j \in DOMAIN q /\ a + i < a + j
      BY <1>3, <2>2
    <3>2. q[a + i][2] < q[a + j][2]
      BY <1>5, <3>1
    <3> QED
      BY <1>3, <3>2
  <2>3. ASSUME NEW i \in 1 .. a, NEW j \in 1 .. b
        PROVE  s[i][2] < t[j][2]
    <3>1. i \in DOMAIN q /\ a + j \in DOMAIN q /\ i < a + j
      BY <1>3
    <3>2. q[i][2] < q[a + j][2]
      BY <1>5, <3>1
    <3> QED
      BY <1>3, <3>2
  <2> QED
    BY <1>1, <2>1, <2>2, <2>3 DEF Precedes, Range
<1>6. ASSUME Rises(s), Rises(t), Precedes(s, t)
      PROVE  Rises(q)
  <2> SUFFICES ASSUME NEW i \in 1 .. a + b, NEW j \in 1 .. a + b, i < j
               PROVE  q[i][2] < q[j][2]
    BY <1>3
  <2>1. CASE j <= a
    <3>1. i \in 1 .. a /\ j \in 1 .. a
      BY <2>1
    <3> QED
      BY <1>1, <1>3, <1>6, <3>1
  <2>2. CASE i <= a /\ ~(j <= a)
    <3>1. PICK l \in 1 .. b : j = a + l
      <4>1. j - a \in 1 .. b /\ j = a + (j - a)
        BY <2>2
      <4> QED
        BY <4>1
    <3>2. i \in 1 .. a
      BY <2>2
    <3>3. s[i] \in Range(s) /\ t[l] \in Range(t)
      BY <1>1, <3>2 DEF Range
    <3> QED
      BY <1>3, <1>6, <3>1, <3>2, <3>3 DEF Precedes
  <2>3. CASE ~(i <= a)
    <3>1. PICK l \in 1 .. b, m \in 1 .. b : j = a + l /\ i = a + m /\ m < l
      <4>1. j - a \in 1 .. b /\ j = a + (j - a) /\ i - a \in 1 .. b /\ i = a + (i - a)
            /\ i - a < j - a
        BY <2>3
      <4> QED
        BY <4>1
    <3>2. t[m][2] < t[l][2]
      BY <1>1, <1>6, <3>1
    <3> QED
      BY <1>3, <3>1, <3>2
  <2> QED
    BY <2>1, <2>2, <2>3
<1>7. Rises(q) <=> Rises(s) /\ Rises(t) /\ Precedes(s, t)
  BY <1>5, <1>6
<1> HIDE DEF Rises
<1>8. \A x : Stretch(x, c, n) <=> Rises(x) /\ \A y \in Range(x) : y[1] = c /\ y[2] <= n
  BY DEF Stretch, Rises
<1>9. Stretch(q, c, n) <=> Stretch(s, c, n) /\ Stretch(t, c, n) /\ Precedes(s, t)
  BY <1>4, <1>7, <1>8
<1> QED
  BY <1>2, <1>9

\* Nothing is in order.
LEMMA StretchNone == \A c, n, s : Stretch(<<>>, c, n) /\ Precedes(<<>>, s) /\ Precedes(s, <<>>)
BY RangeEmpty DEF Stretch, Precedes

\* A list is cut in two.
LEMMA CutOfList ==
  ASSUME NEW S, NEW s \in Seq(S), NEW m \in 0 .. Len(s)
  PROVE  /\ SubSeq(s, 1, m) \in Seq(S) /\ SubSeq(s, m + 1, Len(s)) \in Seq(S)
         /\ s = SubSeq(s, 1, m) \o SubSeq(s, m + 1, Len(s))
<1>1. Len(s) \in Nat
  BY LenProperties
<1>2. SubSeq(s, 1, m) \in Seq(S) /\ SubSeq(s, m + 1, Len(s)) \in Seq(S)
  BY <1>1, SubSeqProperties
<1>3. SubSeq(s, 1, m) \o SubSeq(s, m + 1, Len(s)) = SubSeq(s, 1, Len(s))
  <2>1. 1 \in 1 .. Len(s) + 1 /\ m \in 1 - 1 .. Len(s) /\ Len(s) \in m .. Len(s)
    BY <1>1
  <2> QED
    BY <2>1, ConcatAdjacentSubSeq
<1> QED
  BY <1>2, <1>3, SubSeqFull

=============================================================================
