------------------------ MODULE ContextWindowProofs ------------------------
(***************************************************************************)
(* Proofs about ContextWindow and MessageRepair, for every history a       *)
(* context starts with, any number of runs, overlapping or not, and every  *)
(* tool turn: the cheap read of the window is exact, compression loses no  *)
(* message and leaves the last two rounds, and what is sent to the model   *)
(* is well-formed after repair, pruning and summarizing.                   *)
(***************************************************************************)
EXTENDS ContextWindow, SequenceTheorems, FiniteSetTheorems, WellFoundedInduction, TLAPS

\* The least of a set of naturals: what takes the place of induction below.
LEMMA LeastNat == ASSUME NEW T \in SUBSET Nat, T # {} PROVE \E n \in T : \A m \in T : n <= m
<1> DEFINE R == StrictSubsetOrdering(Nat)
           F == FiniteSubsetsOf(Nat)
           D == {1 .. n : n \in T}
<1>1. IsWellFoundedOn(R, F)
  BY FS_StrictSubsetOrderingWellFounded
<1>2. D \subseteq F
  <2>1. \A n \in T : IsFiniteSet(1 .. n)
    BY FS_Interval
  <2>2. QED BY <2>1 DEF FiniteSubsetsOf
<1>3. D # {}
  OBVIOUS
<1>4. PICK d \in D : \A e \in D : ~(<<e, d>> \in R)
  <2> HIDE DEF R, F, D
  <2> QED BY <1>1, <1>2, <1>3, WFMin
<1>5. PICK n \in T : d = 1 .. n
  OBVIOUS
<1>6. ASSUME NEW m \in T, m < n PROVE FALSE
  <2>1. 1 .. m \in D
    OBVIOUS
  <2>2. 1 .. m \subseteq 1 .. n /\ 1 .. m # 1 .. n
    BY <1>6, n \in 1 .. n
  <2>3. <<1 .. m, 1 .. n>> \in R
    BY <2>2 DEF StrictSubsetOrdering
  <2> QED BY <1>4, <1>5, <2>1, <2>3
<1>7. QED
  BY <1>6

\* A set of naturals up to a bound has a greatest member.
LEMMA Greatest ==
  ASSUME NEW n \in Nat, NEW S \in SUBSET (0..n), S # {}
  PROVE  \E m \in S : \A k \in S : k <= m
<1> DEFINE T == {n - k : k \in S}
<1>1. T \in SUBSET Nat /\ T # {}
  <2>1. \A k \in S : n - k \in Nat
    <3> TAKE k \in S
    <3>1. k \in 0..n
      OBVIOUS
    <3>2. QED  BY <3>1
  <2>2. QED  BY <2>1
<1>2. PICK t \in T : \A u \in T : t <= u
  BY <1>1, LeastNat
<1>3. PICK m \in S : t = n - m
  BY <1>2
<1>4. \A k \in S : k <= m
  <2> TAKE k \in S
  <2>1. t <= n - k
    BY <1>2
  <2>2. m \in 0..n /\ k \in 0..n
    OBVIOUS
  <2>3. QED  BY <1>3, <2>1, <2>2
<1>5. QED  BY <1>4

\* How many elements a finite set has at least.
LEMMA TwoMembers ==
  ASSUME NEW S, IsFiniteSet(S), NEW a \in S, NEW b \in S, a # b
  PROVE  Cardinality(S) > 1
<1>1. /\ IsFiniteSet({a}) /\ Cardinality({a}) = 1
      /\ IsFiniteSet({a} \union {b}) /\ Cardinality({a} \union {b}) = 2
  <2>1. IsFiniteSet({a}) /\ Cardinality({a}) = 1
    BY FS_Singleton
  <2>2. b \notin {a}
    OBVIOUS
  <2>3. IsFiniteSet({a} \union {b}) /\ Cardinality({a} \union {b}) = Cardinality({a}) + 1
    BY <2>1, <2>2, FS_AddElement
  <2>4. QED  BY <2>1, <2>3
<1>2. Cardinality({a} \union {b}) <= Cardinality(S) /\ Cardinality(S) \in Nat
  BY FS_Subset, FS_CardinalityType
<1>3. QED  BY <1>1, <1>2

\* Three members show that a set has more than two.
LEMMA ThreeMembers ==
  ASSUME NEW S, IsFiniteSet(S), NEW a \in S, NEW b \in S, NEW c \in S, a # b, a # c, b # c
  PROVE  Cardinality(S) > 2
<1>1. IsFiniteSet(S \ {c}) /\ Cardinality(S \ {c}) = Cardinality(S) - 1
  BY FS_RemoveElement
<1>2. Cardinality(S \ {c}) > 1
  BY <1>1, TwoMembers
<1>3. Cardinality(S) \in Nat
  BY FS_CardinalityType
<1>4. QED  BY <1>1, <1>2, <1>3

\* A set of more than one has two members that differ.
LEMMA MembersOfTwo ==
  ASSUME NEW S, IsFiniteSet(S), Cardinality(S) > 1
  PROVE  \E a, b \in S : a # b
<1>1. S # {}
  BY FS_EmptySet
<1>2. PICK a \in S : TRUE
  BY <1>1
<1>3. S # {a}
  BY FS_Singleton
<1>4. QED  BY <1>2, <1>3

\* A set of more than two has three that differ.
LEMMA MembersOfThree ==
  ASSUME NEW S, IsFiniteSet(S), Cardinality(S) > 2
  PROVE  \E a, b, c \in S : a # b /\ a # c /\ b # c
<1>1. Cardinality(S) \in Nat
  BY FS_CardinalityType
<1>2. S # {}
  BY FS_EmptySet
<1>3. PICK c \in S : TRUE
  BY <1>2
<1>4. IsFiniteSet(S \ {c}) /\ Cardinality(S \ {c}) = Cardinality(S) - 1
  BY FS_RemoveElement
<1>5. Cardinality(S \ {c}) > 1
  BY <1>1, <1>4
<1>6. PICK a, b \in S \ {c} : a # b
  BY <1>4, <1>5, MembersOfTwo
<1>7. QED  BY <1>3, <1>6

\* The last but one of a set of naturals.
LEMMA LastButOne ==
  ASSUME NEW n \in Nat, NEW S \in SUBSET (0..n), Cardinality(S) > 1
  PROVE  \E k \in S : Cardinality({j \in S : j > k}) = 1
<1>1. IsFiniteSet(S)
  <2>1. IsFiniteSet(0..n)
    BY FS_Interval
  <2>2. QED  BY <2>1, FS_Subset
<1>2. PICK a, b \in S : a # b
  <2>1. S # {} /\ \A a \in S : S # {a}
    BY <1>1, FS_EmptySet, FS_Singleton
  <2>2. QED  BY <2>1
<1>3. PICK m \in S : \A k \in S : k <= m
  BY <1>2, Greatest
<1>4. S \ {m} \in SUBSET (0..n) /\ S \ {m} # {}
  BY <1>2
<1>5. PICK k \in S \ {m} : \A j \in S \ {m} : j <= k
  BY <1>4, Greatest
<1>6. {j \in S : j > k} = {m}
  <2>1. k \in 0..n /\ m \in 0..n /\ k <= m /\ k # m
    BY <1>3, <1>5
  <2>2. m > k
    BY <2>1
  <2>3. \A j \in S : j > k => j = m
    <3> SUFFICES ASSUME NEW j \in S, j > k, j # m PROVE FALSE
      OBVIOUS
    <3>1. j <= k /\ j \in 0..n
      BY <1>5
    <3>2. QED  BY <2>1, <3>1
  <2>4. QED  BY <2>2, <2>3
<1>7. QED  BY <1>6, FS_Singleton

-----------------------------------------------------------------------------
(* What Only selects: the places of K in their order.                       *)

Rank(K, k) == Cardinality({i \in K : i <= k})

Between(K, k, p) == {i \in K : k < i /\ i <= p}

Place(K, j) == CHOOSE k \in K : Rank(K, k) = j

\* The rank of a place behind another is higher by the places between.
LEMMA RankBehind ==
  ASSUME NEW n \in Nat, NEW K \in SUBSET (1..n), NEW k \in 1..n, NEW p \in 1..n, k <= p
  PROVE  /\ Rank(K, k) \in Nat /\ Rank(K, p) \in Nat
         /\ IsFiniteSet(Between(K, k, p)) /\ Cardinality(Between(K, k, p)) \in Nat
         /\ Rank(K, p) = Rank(K, k) + Cardinality(Between(K, k, p))
<1> DEFINE A == {i \in K : i <= k}
           B == {i \in K : k < i /\ i <= p}
<1>1. IsFiniteSet(K)
  <2>1. IsFiniteSet(1..n)
    BY FS_Interval
  <2>2. QED  BY <2>1, FS_Subset
<1>2. IsFiniteSet(A) /\ IsFiniteSet(B)
  BY <1>1, FS_Subset
<1>3. Cardinality(A) \in Nat /\ Cardinality(B) \in Nat
  BY <1>2, FS_CardinalityType
<1>4. A \intersect B = {}
  <2> SUFFICES ASSUME NEW i \in K, i <= k, k < i PROVE FALSE
    OBVIOUS
  <2>1. i \in 1..n
    OBVIOUS
  <2>2. QED  BY <2>1
<1>5. {i \in K : i <= p} = A \union B
  <2>1. \A i \in K : i <= p <=> (i <= k \/ (k < i /\ i <= p))
    <3> TAKE i \in K
    <3>1. i \in 1..n
      OBVIOUS
    <3>2. QED  BY <3>1
  <2>2. QED  BY <2>1
<1>6. /\ Cardinality(A \union B) = Cardinality(A) + Cardinality(B) - Cardinality(A \intersect B)
      /\ IsFiniteSet(A \union B)
  BY <1>2, FS_Union
<1>7. Cardinality(A \intersect B) = 0
  BY <1>4, FS_EmptySet
<1> HIDE DEF A, B
<1>8. Cardinality(A \union B) = Cardinality(A) + Cardinality(B)
  BY <1>3, <1>6, <1>7
<1>9. /\ Rank(K, k) = Cardinality(A) /\ Rank(K, p) = Cardinality(A \union B)
      /\ Between(K, k, p) = B
  BY <1>5 DEF Rank, A, B, Between
<1>10. QED  BY <1>2, <1>3, <1>8, <1>9

\* Ranks are in the order of the members.
LEMMA RankIncreases ==
  ASSUME NEW n \in Nat, NEW K \in SUBSET (1..n), NEW k \in K, NEW p \in K, k < p
  PROVE  Rank(K, k) < Rank(K, p)
<1> DEFINE B == Between(K, k, p)
<1>1. k \in 1..n /\ p \in 1..n /\ k <= p
  OBVIOUS
<1>2. /\ Rank(K, k) \in Nat /\ IsFiniteSet(B) /\ Cardinality(B) \in Nat
      /\ Rank(K, p) = Rank(K, k) + Cardinality(B)
  BY <1>1, RankBehind
<1>3. p \in B
  BY <1>1 DEF Between
<1>4. Cardinality(B) # 0
  BY <1>2, <1>3, FS_EmptySet
<1> HIDE DEF B
<1>5. QED  BY <1>2, <1>4

\* The ranks in a set are the numbers up to its size.
LEMMA RankRange ==
  ASSUME NEW n \in Nat, NEW K \in SUBSET (1..n)
  PROVE  /\ IsFiniteSet(K) /\ Cardinality(K) \in Nat
         /\ \A k \in K : Rank(K, k) \in 1..Cardinality(K)
         /\ \A j \in 1..Cardinality(K) : \E k \in K : Rank(K, k) = j
<1>1. IsFiniteSet(K)
  <2>1. IsFiniteSet(1..n)
    BY FS_Interval
  <2>2. QED  BY <2>1, FS_Subset
<1>2. Cardinality(K) \in Nat
  BY <1>1, FS_CardinalityType
<1>3. \A k \in K : Rank(K, k) \in 1..Cardinality(K)
  <2> TAKE k \in K
  <2> DEFINE A == {i \in K : i <= k}
  <2>1. IsFiniteSet(A) /\ Cardinality(A) <= Cardinality(K)
    BY <1>1, FS_Subset
  <2>2. k \in A
    OBVIOUS
  <2>3. Cardinality(A) \in Nat /\ Cardinality(A) # 0
    BY <2>1, <2>2, FS_CardinalityType, FS_EmptySet
  <2> HIDE DEF A
  <2>4. Cardinality(A) \in 1..Cardinality(K)
    BY <1>2, <2>1, <2>3
  <2>5. QED  BY <2>4 DEF A, Rank
<1> DEFINE f == [k \in K |-> Rank(K, k)]
<1>4. \A j, k \in K : Rank(K, j) = Rank(K, k) => j = k
  <2> SUFFICES ASSUME NEW j \in K, NEW k \in K, Rank(K, j) = Rank(K, k), j # k PROVE FALSE
    OBVIOUS
  <2>1. j \in 1..n /\ k \in 1..n
    OBVIOUS
  <2>2. j < k \/ k < j
    BY <2>1
  <2>3. Rank(K, j) < Rank(K, k) \/ Rank(K, k) < Rank(K, j)
    BY <2>2, RankIncreases
  <2>4. Rank(K, j) \in Nat /\ Rank(K, k) \in Nat
    BY <1>3
  <2>5. QED  BY <2>3, <2>4
<1>5. f \in Injection(K, 1..Cardinality(K))
  BY <1>3, <1>4 DEF Injection, IsInjective
<1>6. IsFiniteSet(1..Cardinality(K)) /\ Cardinality(1..Cardinality(K)) = Cardinality(K)
  <2>1. /\ IsFiniteSet(1..Cardinality(K))
        /\ Cardinality(1..Cardinality(K))
             = IF 1 > Cardinality(K) THEN 0 ELSE Cardinality(K) - 1 + 1
    BY <1>2, FS_Interval
  <2>2. QED  BY <1>2, <2>1
<1>7. f \in Surjection(K, 1..Cardinality(K))
  BY <1>5, <1>6, FS_Injection
<1>8. \A j \in 1..Cardinality(K) : \E k \in K : f[k] = j
  BY <1>7 DEF Surjection
<1>9. QED  BY <1>1, <1>2, <1>3, <1>8

\* The j-th member of a set has the rank j, and each member has its place.
LEMMA PlacesOf ==
  ASSUME NEW n \in Nat, NEW K \in SUBSET (1..n)
  PROVE  /\ \A j \in 1..Cardinality(K) : Place(K, j) \in K /\ Rank(K, Place(K, j)) = j
         /\ \A k \in K : Rank(K, k) \in 1..Cardinality(K) /\ Place(K, Rank(K, k)) = k
<1>1. \A j \in 1..Cardinality(K) : Place(K, j) \in K /\ Rank(K, Place(K, j)) = j
  BY RankRange DEF Place
<1>2. \A k \in K : Rank(K, k) \in 1..Cardinality(K)
  BY RankRange
<1>3. \A k \in K : Place(K, Rank(K, k)) = k
  <2> SUFFICES ASSUME NEW k \in K, Place(K, Rank(K, k)) # k PROVE FALSE
    OBVIOUS
  <2> DEFINE p == Place(K, Rank(K, k))
  <2>1. p \in K /\ Rank(K, p) = Rank(K, k)
    BY <1>1, <1>2
  <2>2. Rank(K, k) \in Nat
    BY <1>2
  <2> HIDE DEF p
  <2>3. p \in 1..n /\ k \in 1..n
    BY <2>1
  <2>4. p = k
    <3>1. ~(p < k) /\ ~(k < p)
      BY <2>1, <2>2, RankIncreases
    <3>2. QED  BY <2>3, <3>1
  <2>5. QED  BY <2>4 DEF p
<1>4. QED  BY <1>1, <1>2, <1>3

\* What Only picks: as many items as there are places, the j-th from the j-th place.
LEMMA OnlyIs ==
  ASSUME NEW S, NEW s \in Seq(S), NEW K \in SUBSET (1..Len(s))
  PROVE  /\ Only(s, K) \in Seq(S) /\ Len(Only(s, K)) = Cardinality(K)
         /\ DOMAIN Only(s, K) = 1..Cardinality(K)
         /\ \A j \in 1..Cardinality(K) : Only(s, K)[j] = s[Place(K, j)]
<1>1. Len(s) \in Nat
  OBVIOUS
<1>2. Cardinality(K) \in Nat /\ \A j \in 1..Cardinality(K) : Place(K, j) \in K
  BY <1>1, RankRange, PlacesOf
<1>3. Only(s, K) = [j \in 1..Cardinality(K) |-> s[Place(K, j)]]
  BY DEF Only, Place, Rank
<1>4. \A j \in 1..Cardinality(K) : s[Place(K, j)] \in S
  BY <1>2, ElementOfSeq
<1>5. Only(s, K) \in [1..Cardinality(K) -> S]
  BY <1>3, <1>4
<1>6. Only(s, K) \in Seq(S) /\ Len(Only(s, K)) = Cardinality(K)
  BY <1>2, <1>5
<1>7. QED  BY <1>3, <1>6

\* The places of K behind k up to b follow that of k at once.
LEMMA PlacesFollow ==
  ASSUME NEW n \in Nat, NEW K \in SUBSET (1..n), NEW k \in K, NEW b \in 1..n, k <= b,
         NEW p \in K
  PROVE  LET m == Cardinality(Between(K, k, b))
         IN m \in Nat /\ (k < p /\ p <= b <=> Rank(K, p) \in (Rank(K, k) + 1)..(Rank(K, k) + m))
<1> DEFINE B == Between(K, k, b)
<1>1. /\ Rank(K, k) \in Nat /\ IsFiniteSet(B) /\ Cardinality(B) \in Nat
      /\ Rank(K, b) = Rank(K, k) + Cardinality(B)
  BY RankBehind
<1>2. Rank(K, p) \in Nat /\ p \in 1..n
  <2>1. p \in 1..n
    OBVIOUS
  <2>2. QED  BY <2>1, RankBehind
<1>3. ASSUME k < p, p <= b
      PROVE  Rank(K, p) \in (Rank(K, k) + 1)..(Rank(K, k) + Cardinality(B))
  <2>1. Rank(K, k) < Rank(K, p)
    BY <1>3, RankIncreases
  <2>2. /\ Rank(K, b) = Rank(K, p) + Cardinality(Between(K, p, b))
        /\ Cardinality(Between(K, p, b)) \in Nat
    BY <1>2, <1>3, RankBehind
  <2> HIDE DEF B
  <2>3. QED  BY <1>1, <1>2, <2>1, <2>2
<1>4. ASSUME ~(k < p)
      PROVE  Rank(K, p) <= Rank(K, k)
  <2>1. p = k \/ p < k
    BY <1>2, <1>4
  <2>2. p < k => Rank(K, p) < Rank(K, k)
    BY RankIncreases
  <2>3. QED  BY <1>1, <1>2, <2>1, <2>2
<1>5. ASSUME ~(p <= b)
      PROVE  Rank(K, p) > Rank(K, k) + Cardinality(B)
  <2> DEFINE C == Between(K, b, p)
  <2>1. /\ Rank(K, p) = Rank(K, b) + Cardinality(C)
        /\ Cardinality(C) \in Nat /\ IsFiniteSet(C)
    <3>1. b <= p
      BY <1>2, <1>5
    <3>2. QED  BY <1>2, <3>1, RankBehind
  <2>2. p \in C
    BY <1>2, <1>5 DEF Between
  <2>3. Cardinality(C) # 0
    BY <2>1, <2>2, FS_EmptySet
  <2> HIDE DEF B, C
  <2>4. QED  BY <1>1, <2>1, <2>3
<1> HIDE DEF B
<1>6. (k < p /\ p <= b) <=> Rank(K, p) \in (Rank(K, k) + 1)..(Rank(K, k) + Cardinality(B))
  BY <1>1, <1>2, <1>3, <1>4, <1>5
<1>7. QED  BY <1>1, <1>6 DEF B

-----------------------------------------------------------------------------
(* The windows.                                                             *)

States == [id : Nat, start : Nat, offset : Nat, startOffset : Nat]

\* A summary state points at a summary and at the start of what that left, and
\* its offset of the start is right.
StateOK(l, st) ==
  /\ st \in States
  /\ st # NoState => /\ st.id \in 1..Len(l) /\ st.start \in 1..(st.id - 1)
                     /\ st.startOffset = st.start
                     /\ l[st.id].kind = "summary"

\* Where the window of a state begins.
From(st) == IF st = NoState THEN 1 ELSE st.start

\* A span is the places from one to the other, in order.
LEMMA SpanIs ==
  ASSUME NEW from \in Nat \ {0}, NEW to \in Nat, from <= to + 1
  PROVE  /\ Span(from, to) \in Seq(1..to) /\ Len(Span(from, to)) = to + 1 - from
         /\ DOMAIN Span(from, to) = 1..(to + 1 - from)
         /\ \A k \in 1..(to + 1 - from) : Span(from, to)[k] = from - 1 + k
<1>1. to + 1 - from \in Nat
  OBVIOUS
<1>2. Span(from, to) = [k \in 1..(to + 1 - from) |-> from - 1 + k]
  BY DEF Span
<1>3. \A k \in 1..(to + 1 - from) : from - 1 + k \in 1..to
  OBVIOUS
<1>4. Span(from, to) \in [1..(to + 1 - from) -> 1..to]
  BY <1>2, <1>3
<1>5. Span(from, to) \in Seq(1..to) /\ Len(Span(from, to)) = to + 1 - from
  BY <1>1, <1>4
<1>6. QED  BY <1>2, <1>5

\* The elements of a concatenation, part by part.
LEMMA ConcatParts ==
  ASSUME NEW S, NEW u \in Seq(S), NEW v \in Seq(S)
  PROVE  /\ u \o v \in Seq(S) /\ Len(u \o v) = Len(u) + Len(v)
         /\ \A i \in 1..Len(u) : (u \o v)[i] = u[i]
         /\ \A i \in 1..Len(v) : (u \o v)[Len(u) + i] = v[i]
<1>1. /\ u \o v \in Seq(S) /\ Len(u \o v) = Len(u) + Len(v)
      /\ \A i \in 1..(Len(u) + Len(v)) :
           (u \o v)[i] = IF i <= Len(u) THEN u[i] ELSE v[i - Len(u)]
  BY ConcatProperties
<1>2. Len(u) \in Nat /\ Len(v) \in Nat
  OBVIOUS
<1>3. ASSUME NEW i \in 1..Len(u) PROVE (u \o v)[i] = u[i]
  <2>1. i \in 1..(Len(u) + Len(v)) /\ i <= Len(u)
    BY <1>2
  <2>2. QED  BY <1>1, <2>1
<1>4. ASSUME NEW i \in 1..Len(v) PROVE (u \o v)[Len(u) + i] = v[i]
  <2>1. PICK j \in Nat : j = Len(u) + i
    BY <1>2
  <2>2. j \in 1..(Len(u) + Len(v)) /\ ~(j <= Len(u)) /\ j - Len(u) = i
    BY <1>2, <2>1
  <2>3. (u \o v)[j] = v[i]
    BY <1>1, <2>2
  <2>4. QED  BY <2>1, <2>3
<1>5. QED  BY <1>1, <1>3, <1>4

\* The window behind a summary at s that leaves what begins at a.
Compressed(w, a, s, n) ==
  /\ w \in Seq(1..n) /\ Len(w) = n + 1 - a
  /\ w[1] = s
  /\ \A k \in 1..(s - a) : w[1 + k] = a - 1 + k
  /\ \A k \in 1..(n - s) : w[(1 + (s - a)) + k] = s + k

\* w is e followed by A and by B.
Parts(w, S, e, A, B) ==
  /\ w = <<e>> \o (A \o B)
  /\ w \in Seq(S) /\ Len(w) = (1 + Len(A)) + Len(B)
  /\ w[1] = e
  /\ \A k \in 1..Len(A) : w[1 + k] = A[k]
  /\ \A k \in 1..Len(B) : w[(1 + Len(A)) + k] = B[k]

\* An item and two sequences behind it, joined, place by place.
LEMMA ThreeParts ==
  ASSUME NEW S, NEW e \in S, NEW A \in Seq(S), NEW B \in Seq(S)
  PROVE  Parts((<<e>> \o A) \o B, S, e, A, B)
<1> DEFINE H == <<e>>
           C == H \o A
           w == C \o B
<1>1. H \in Seq(S)
  OBVIOUS
<1>2. Len(H) = 1 /\ H[1] = e
  OBVIOUS
<1> HIDE DEF H
<1>3. C \in Seq(S)
  BY <1>1, ConcatProperties
<1>4. /\ Len(C) = Len(H) + Len(A)
      /\ \A i \in 1..Len(H) : C[i] = H[i]
      /\ \A i \in 1..Len(A) : C[Len(H) + i] = A[i]
  BY <1>1, ConcatParts
<1> HIDE DEF C
<1>5. w \in Seq(S)
  BY <1>3, ConcatProperties
<1>6. /\ Len(w) = Len(C) + Len(B)
      /\ \A i \in 1..Len(C) : w[i] = C[i]
      /\ \A i \in 1..Len(B) : w[Len(C) + i] = B[i]
  BY <1>3, ConcatParts
<1> HIDE DEF w
<1>7. PICK p \in Nat, q \in Nat : p = Len(A) /\ q = Len(B)
  OBVIOUS
<1>8. Len(C) = 1 + p
  BY <1>2, <1>4, <1>7
<1>9. w[1] = e
  <2>1. 1 \in 1..Len(C) /\ 1 \in 1..Len(H)
    BY <1>2, <1>8
  <2>2. w[1] = C[1] /\ C[1] = H[1]
    BY <1>4, <1>6, <2>1
  <2>3. QED  BY <1>2, <2>2
<1>10. ASSUME NEW k \in 1..p PROVE w[1 + k] = A[k]
  <2>1. 1 + k \in 1..Len(C)
    BY <1>8
  <2>2. w[1 + k] = C[1 + k]
    BY <1>6, <2>1
  <2>3. C[1 + k] = A[k]
    BY <1>2, <1>4, <1>7
  <2>4. QED  BY <2>2, <2>3
<1>11. \A k \in 1..q : w[(1 + p) + k] = B[k]
  BY <1>6, <1>7, <1>8
<1>12. (H \o A) \o B = H \o (A \o B)
  BY <1>1, ConcatAssociative
<1>13. Len(w) = (1 + p) + q
  BY <1>6, <1>7, <1>8
<1>14. /\ Len(w) = (1 + Len(A)) + Len(B) /\ w[1] = e
       /\ \A k \in 1..Len(A) : w[1 + k] = A[k]
       /\ \A k \in 1..Len(B) : w[(1 + Len(A)) + k] = B[k]
  BY <1>7, <1>9, <1>10, <1>11, <1>13
<1>15. QED  BY <1>5, <1>12, <1>14 DEF w, C, H, Parts

\* The summary, what was kept before it and what came after it, joined, are the
\* compressed window.
LEMMA ThreePartsCompress ==
  ASSUME NEW n \in Nat, NEW s \in 1..n, NEW a \in 1..(s - 1),
         NEW A \in Seq(1..n), Len(A) = s - a, \A k \in 1..(s - a) : A[k] = a - 1 + k,
         NEW B \in Seq(1..n), Len(B) = n - s, \A k \in 1..(n - s) : B[k] = s + k
  PROVE  /\ Compressed((<<s>> \o A) \o B, a, s, n)
         /\ (<<s>> \o A) \o B = <<s>> \o (A \o B)
<1> DEFINE w == (<<s>> \o A) \o B
<1>1. PICK p \in Nat, q \in Nat : p = s - a /\ q = n - s
  OBVIOUS
<1>2. /\ w = <<s>> \o (A \o B)
      /\ w \in Seq(1..n) /\ Len(w) = (1 + p) + q /\ w[1] = s
      /\ \A k \in 1..p : w[1 + k] = A[k]
      /\ \A k \in 1..q : w[(1 + p) + k] = B[k]
  <2>1. Len(A) = p /\ Len(B) = q
    BY <1>1
  <2> DEFINE S == 1..n
  <2>2. PICK e : e = s
    OBVIOUS
  <2>3. e \in S /\ A \in Seq(S) /\ B \in Seq(S)
    BY <2>2
  <2> HIDE DEF S
  <2>4. Parts((<<e>> \o A) \o B, S, e, A, B)
    BY <2>3, ThreeParts
  <2>5. Parts(w, S, s, A, B)
    BY <2>2, <2>4
  <2> HIDE DEF w
  <2>6. QED  BY <2>1, <2>5 DEF S, Parts
<1> HIDE DEF w
<1>3. (1 + p) + q = n + 1 - a
  BY <1>1
<1>4. Compressed(w, a, s, n)
  BY <1>1, <1>2, <1>3 DEF Compressed
<1>5. QED  BY <1>2, <1>4 DEF w

\* RemoveAt joins what is before the place with what is behind it.
LEMMA RemoveAtIs ==
  ASSUME NEW s, NEW i
  PROVE  RemoveAt(s, i) = SubSeq(s, 1, i - 1) \o SubSeq(s, i + 1, Len(s))
BY DEF RemoveAt

\* The scan by message ids gives the compressed window.
LEMMA FullIsCompressed ==
  ASSUME NEW l, Len(l) \in Nat, NEW st, StateOK(l, st), st # NoState
  PROVE  Compressed(FullWindow(l, st), st.start, st.id, Len(l))
<1>1. PICK n \in Nat, s \in Nat, a \in Nat : s = st.id /\ a = st.start /\ n = Len(l)
  BY DEF StateOK, States
<1>2. s \in 1..n /\ a \in 1..(s - 1)
  BY <1>1 DEF StateOK
<1> DEFINE A == Span(a, s - 1)
           B == Span(s + 1, n)
<1>3. FullWindow(l, st) = (<<s>> \o A) \o B
  <2>1. a \in 1..n /\ ~(a > s)
    BY <1>2
  <2>2. FullWindow(l, st) = <<s>> \o A \o B
    BY <1>1, <1>2, <2>1 DEF FullWindow
  <2>3. QED  BY <2>2
<1>4. A \in Seq(1..n) /\ Len(A) = s - a /\ \A k \in 1..(s - a) : A[k] = a - 1 + k
  <2>1. a \in Nat \ {0} /\ s - 1 \in Nat /\ a <= (s - 1) + 1 /\ (s - 1) + 1 - a = s - a
    BY <1>2
  <2>2. /\ A \in Seq(1..(s - 1)) /\ Len(A) = (s - 1) + 1 - a
        /\ \A k \in 1..((s - 1) + 1 - a) : A[k] = a - 1 + k
    BY <2>1, SpanIs
  <2>3. 1..(s - 1) \subseteq 1..n
    BY <1>2
  <2> HIDE DEF A
  <2>4. A \in Seq(1..n)
    BY <2>2, <2>3, SeqMonotonic
  <2>5. QED  BY <2>1, <2>2, <2>4
<1>5. B \in Seq(1..n) /\ Len(B) = n - s /\ \A k \in 1..(n - s) : B[k] = s + k
  <2>1. s + 1 \in Nat \ {0} /\ s + 1 <= n + 1 /\ n + 1 - (s + 1) = n - s
    BY <1>2
  <2>2. /\ B \in Seq(1..n) /\ Len(B) = n + 1 - (s + 1)
        /\ \A k \in 1..(n + 1 - (s + 1)) : B[k] = (s + 1) - 1 + k
    BY <2>1, SpanIs
  <2>3. \A k \in 1..(n - s) : (s + 1) - 1 + k = s + k
    BY <1>2
  <2> HIDE DEF B
  <2>4. QED  BY <2>1, <2>2, <2>3
<1> HIDE DEF A, B
<1>6. Compressed((<<s>> \o A) \o B, a, s, n)
  BY <1>2, <1>4, <1>5, ThreePartsCompress
<1>7. QED  BY <1>1, <1>3, <1>6

\* So does the read from the cached offsets, when its checks pass.
LEMMA RangedIsCompressed ==
  ASSUME NEW l, Len(l) \in Nat, NEW st, StateOK(l, st), st # NoState, Ranged(l, st)
  PROVE  Compressed(RangedWindow(l, st), st.start, st.id, Len(l))
<1>1. PICK n \in Nat, s \in Nat, a \in Nat : s = st.id /\ a = st.start /\ n = Len(l)
  BY DEF StateOK, States
<1>2. s \in 1..n /\ a \in 1..(s - 1)
  BY <1>1 DEF StateOK
<1>3. st.offset = s /\ st.startOffset = a
  BY <1>1 DEF StateOK, Ranged
<1> DEFINE R == Span(a, n)
<1>4. /\ R \in Seq(1..n) /\ Len(R) = n + 1 - a
      /\ \A k \in 1..(n + 1 - a) : R[k] = a - 1 + k
  <2>1. a \in Nat \ {0} /\ a <= n + 1
    BY <1>2
  <2>2. QED  BY <2>1, SpanIs
<1>5. RangedWindow(l, st) = <<s>> \o RemoveAt(R, s + 1 - a)
  BY <1>1, <1>3 DEF RangedWindow
<1> HIDE DEF R
<1> DEFINE A == SubSeq(R, 1, s - a)
           B == SubSeq(R, s + 2 - a, n + 1 - a)
<1>6. RemoveAt(R, s + 1 - a) = A \o B
  <2>1. s + 1 - a - 1 = s - a /\ s + 1 - a + 1 = s + 2 - a
    BY <1>2
  <2>2. PICK i \in Nat : i = s + 1 - a
    BY <1>2
  <2>3. RemoveAt(R, i) = SubSeq(R, 1, i - 1) \o SubSeq(R, i + 1, Len(R))
    BY RemoveAtIs
  <2>4. i - 1 = s - a /\ i + 1 = s + 2 - a
    BY <2>1, <2>2
  <2>5. QED  BY <1>4, <2>2, <2>3, <2>4
<1>7. A \in Seq(1..n) /\ Len(A) = s - a /\ \A k \in 1..(s - a) : A[k] = a - 1 + k
  <2>1. ASSUME NEW i \in 1..(s - a)
        PROVE  i \in 1..(n + 1 - a) /\ R[i] = a - 1 + i /\ a - 1 + i \in 1..n
    <3>1. i \in 1..(n + 1 - a) /\ a - 1 + i \in 1..n
      BY <1>2
    <3>2. QED  BY <1>4, <3>1
  <2>2. \A i \in 1..(s - a) : R[i] \in 1..n
    BY <2>1
  <2>3. 1 \in Int /\ s - a \in Int
    BY <1>2
  <2>4. /\ A \in Seq(1..n) /\ Len(A) = IF 1 <= s - a THEN s - a - 1 + 1 ELSE 0
        /\ \A i \in 1..(s - a - 1 + 1) : A[i] = R[1 + i - 1]
    BY <2>2, <2>3, SubSeqProperties
  <2> HIDE DEF A
  <2>5. Len(A) = s - a
    BY <1>2, <2>4
  <2>6. ASSUME NEW k \in 1..(s - a) PROVE A[k] = a - 1 + k
    <3>1. k \in 1..(s - a - 1 + 1) /\ 1 + k - 1 = k
      BY <1>2
    <3>2. A[k] = R[k]
      BY <2>4, <3>1
    <3>3. QED  BY <2>1, <3>2
  <2>7. QED  BY <2>4, <2>5, <2>6
<1>8. B \in Seq(1..n) /\ Len(B) = n - s /\ \A k \in 1..(n - s) : B[k] = s + k
  <2>1. ASSUME NEW i \in (s + 2 - a)..(n + 1 - a)
        PROVE  i \in 1..(n + 1 - a) /\ R[i] = a - 1 + i /\ a - 1 + i \in 1..n
    <3>1. i \in 1..(n + 1 - a) /\ a - 1 + i \in 1..n
      BY <1>2
    <3>2. QED  BY <1>4, <3>1
  <2>2. \A i \in (s + 2 - a)..(n + 1 - a) : R[i] \in 1..n
    BY <2>1
  <2>3. s + 2 - a \in Int /\ n + 1 - a \in Int
    BY <1>2
  <2>4. /\ B \in Seq(1..n)
        /\ Len(B) = IF s + 2 - a <= n + 1 - a THEN (n + 1 - a) - (s + 2 - a) + 1 ELSE 0
        /\ \A i \in 1..((n + 1 - a) - (s + 2 - a) + 1) : B[i] = R[(s + 2 - a) + i - 1]
    BY <2>2, <2>3, SubSeqProperties
  <2> HIDE DEF B
  <2>5. (n + 1 - a) - (s + 2 - a) + 1 = n - s
    BY <1>2
  <2>6. Len(B) = n - s
    BY <1>2, <2>4, <2>5
  <2>7. ASSUME NEW k \in 1..(n - s) PROVE B[k] = s + k
    <3>1. /\ (s + 2 - a) + k - 1 \in (s + 2 - a)..(n + 1 - a)
          /\ a - 1 + ((s + 2 - a) + k - 1) = s + k
      BY <1>2
    <3>2. B[k] = R[(s + 2 - a) + k - 1]
      BY <2>4, <2>5
    <3>3. QED  BY <2>1, <3>1, <3>2
  <2>8. QED  BY <2>4, <2>6, <2>7
<1> HIDE DEF A, B
<1>9. Compressed(<<s>> \o (A \o B), a, s, n)
  BY <1>2, <1>7, <1>8, ThreePartsCompress
<1>10. QED  BY <1>1, <1>5, <1>6, <1>9

\* The places of a compressed window are those of its three parts.
LEMMA CompressedIndex ==
  ASSUME NEW n \in Nat, NEW s \in 1..n, NEW a \in 1..(s - 1), NEW k \in 1..(n + 1 - a)
  PROVE  \/ k = 1
         \/ \E i \in 1..(s - a) : k = 1 + i
         \/ \E i \in 1..(n - s) : k = (1 + (s - a)) + i
<1>1. CASE k # 1 /\ k <= 1 + (s - a)
  <2>1. k - 1 \in 1..(s - a) /\ k = 1 + (k - 1)
    BY <1>1
  <2>2. QED  BY <2>1
<1>2. CASE k > 1 + (s - a)
  <2>1. k - (1 + (s - a)) \in 1..(n - s) /\ k = (1 + (s - a)) + (k - (1 + (s - a)))
    BY <1>2
  <2>2. QED  BY <2>1
<1>3. QED  BY <1>1, <1>2

\* Both ways to read a window give the same.
LEMMA WindowsAgree ==
  ASSUME NEW l, Len(l) \in Nat, NEW st, StateOK(l, st), st # NoState, Ranged(l, st)
  PROVE  RangedWindow(l, st) = FullWindow(l, st)
<1> DEFINE u == RangedWindow(l, st)
           w == FullWindow(l, st)
<1>1. PICK n \in Nat, s \in Nat, a \in Nat : s = st.id /\ a = st.start /\ n = Len(l)
  BY DEF StateOK, States
<1>2. s \in 1..n /\ a \in 1..(s - 1)
  BY <1>1 DEF StateOK
<1>3. Compressed(u, a, s, n) /\ Compressed(w, a, s, n)
  BY <1>1, FullIsCompressed, RangedIsCompressed
<1> HIDE DEF u, w
<1>4. ASSUME NEW k \in 1..(n + 1 - a) PROVE u[k] = w[k]
  <2>1. \/ k = 1
        \/ \E i \in 1..(s - a) : k = 1 + i
        \/ \E i \in 1..(n - s) : k = (1 + (s - a)) + i
    BY <1>2, CompressedIndex
  <2>2. QED  BY <1>3, <2>1 DEF Compressed
<1>5. u \in Seq(1..n) /\ w \in Seq(1..n) /\ Len(u) = n + 1 - a /\ Len(w) = n + 1 - a
  BY <1>3 DEF Compressed
<1>6. u = w
  BY <1>4, <1>5, SeqEqual
<1>7. QED  BY <1>6 DEF u, w

\* A window is what the list has from a on, in any order.
IsWindow(w, a, n) ==
  /\ w \in Seq(1..n)
  /\ Range(w) = a..n
  /\ \A j, k \in DOMAIN w : w[j] = w[k] => j = k

\* In the order of the list, but for a summary in front.
Ascends(w, first) ==
  \A j, k \in DOMAIN w : first <= j /\ j < k => w[j] < w[k]

First(st) == IF st = NoState THEN 1 ELSE 2

\* The compressed window holds the list from its start on, in order behind the summary.
LEMMA CompressedIsWindow ==
  ASSUME NEW n \in Nat, NEW s \in 1..n, NEW a \in 1..(s - 1), NEW w, Compressed(w, a, s, n)
  PROVE  IsWindow(w, a, n) /\ Ascends(w, 2)
<1>1. /\ w \in Seq(1..n) /\ DOMAIN w = 1..(n + 1 - a)
      /\ w[1] = s
      /\ \A k \in 1..(s - a) : w[1 + k] = a - 1 + k
      /\ \A k \in 1..(n - s) : w[(1 + (s - a)) + k] = s + k
  BY DEF Compressed
<1>2. \A k \in DOMAIN w : /\ k = 1 => w[k] = s
                          /\ k \in 2..(1 + (s - a)) => w[k] = a - 2 + k
                          /\ k \in (2 + (s - a))..(n + 1 - a) => w[k] = a - 1 + k
  <2> TAKE k \in DOMAIN w
  <2>1. k \in 2..(1 + (s - a)) => w[k] = a - 2 + k
    <3> SUFFICES ASSUME k \in 2..(1 + (s - a)) PROVE w[k] = a - 2 + k
      OBVIOUS
    <3>1. PICK i \in Nat : i = k - 1
      OBVIOUS
    <3>2. i \in 1..(s - a) /\ 1 + i = k /\ a - 1 + i = a - 2 + k
      BY <3>1
    <3>3. QED  BY <1>1, <3>2
  <2>2. k \in (2 + (s - a))..(n + 1 - a) => w[k] = a - 1 + k
    <3> SUFFICES ASSUME k \in (2 + (s - a))..(n + 1 - a) PROVE w[k] = a - 1 + k
      OBVIOUS
    <3>1. PICK i \in Nat : i = k - (1 + (s - a))
      OBVIOUS
    <3>2. i \in 1..(n - s) /\ (1 + (s - a)) + i = k /\ s + i = a - 1 + k
      BY <3>1
    <3>3. QED  BY <1>1, <3>2
  <2>3. QED  BY <1>1, <2>1, <2>2
<1>3. \A k \in DOMAIN w :
        k = 1 \/ k \in 2..(1 + (s - a)) \/ k \in (2 + (s - a))..(n + 1 - a)
  BY <1>1
<1>4. \A k \in DOMAIN w : w[k] \in a..n
  <2> TAKE k \in DOMAIN w
  <2>1. k \in Nat
    BY <1>1
  <2>2. QED  BY <1>2, <1>3, <2>1
<1>5. \A i \in a..n : \E k \in DOMAIN w : w[k] = i
  <2> TAKE i \in a..n
  <2>1. CASE i = s
    <3>1. 1 \in DOMAIN w
      BY <1>1
    <3>2. QED  BY <1>1, <2>1, <3>1
  <2>2. CASE i < s
    <3>1. PICK k \in Nat : k = i + 2 - a
      OBVIOUS
    <3>2. k \in 2..(1 + (s - a)) /\ k \in DOMAIN w /\ a - 2 + k = i
      BY <1>1, <2>2, <3>1
    <3>3. w[k] = i
      BY <1>2, <3>2
    <3>4. QED  BY <3>2, <3>3
  <2>3. CASE i > s
    <3>1. PICK k \in Nat : k = i + 1 - a
      OBVIOUS
    <3>2. k \in (2 + (s - a))..(n + 1 - a) /\ k \in DOMAIN w /\ a - 1 + k = i
      BY <1>1, <2>3, <3>1
    <3>3. w[k] = i
      BY <1>2, <3>2
    <3>4. QED  BY <3>2, <3>3
  <2>4. QED  BY <2>1, <2>2, <2>3
<1>6. Range(w) = a..n
  BY <1>4, <1>5 DEF Range
<1>7. ASSUME NEW j \in DOMAIN w, NEW k \in DOMAIN w, 2 <= j, j < k
      PROVE  w[j] < w[k]
  <2>1. j \in Nat /\ k \in Nat
    BY <1>1
  <2>2. \/ j \in 2..(1 + (s - a)) /\ k \in 2..(1 + (s - a))
        \/ j \in 2..(1 + (s - a)) /\ k \in (2 + (s - a))..(n + 1 - a)
        \/ j \in (2 + (s - a))..(n + 1 - a) /\ k \in (2 + (s - a))..(n + 1 - a)
    BY <1>1, <1>7, <2>1
  <2>3. QED  BY <1>2, <1>7, <2>1, <2>2
<1>8. ASSUME NEW k \in DOMAIN w, 2 <= k
      PROVE  w[k] # s
  <2>1. k \in Nat /\ (k \in 2..(1 + (s - a)) \/ k \in (2 + (s - a))..(n + 1 - a))
    BY <1>1, <1>8
  <2>2. QED  BY <1>2, <2>1
<1>9. ASSUME NEW j \in DOMAIN w, NEW k \in DOMAIN w, w[j] = w[k], j # k
      PROVE  FALSE
  <2>1. j \in Nat /\ k \in Nat /\ 1 <= j /\ 1 <= k
    BY <1>1
  <2>2. CASE j = 1 \/ k = 1
    <3>1. (j = 1 /\ 2 <= k) \/ (k = 1 /\ 2 <= j)
      BY <1>9, <2>1, <2>2
    <3>2. (w[j] = s /\ w[k] # s) \/ (w[k] = s /\ w[j] # s)
      BY <1>1, <1>8, <3>1
    <3>3. QED  BY <1>9, <3>2
  <2>3. CASE 2 <= j /\ 2 <= k
    <3>1. j < k \/ k < j
      BY <1>9, <2>1
    <3>2. w[j] < w[k] \/ w[k] < w[j]
      BY <1>7, <2>3, <3>1
    <3>3. w[j] \in a..n /\ w[k] \in a..n
      BY <1>4
    <3>4. QED  BY <1>9, <3>2, <3>3
  <2>4. QED  BY <2>1, <2>2, <2>3
<1>10. QED  BY <1>1, <1>6, <1>7, <1>9 DEF IsWindow, Ascends

\* Without a summary the window is the list.
LEMMA WholeIsWindow ==
  ASSUME NEW n \in Nat
  PROVE  IsWindow(Span(1, n), 1, n) /\ Ascends(Span(1, n), 1)
<1>1. Span(1, n) = [k \in 1..n |-> k]
  <2>1. n + 1 - 1 = n /\ \A k \in 1..n : 1 - 1 + k = k
    OBVIOUS
  <2>2. Span(1, n) = [k \in 1..(n + 1 - 1) |-> 1 - 1 + k]
    BY DEF Span
  <2>3. QED  BY <2>1, <2>2
<1>2. Span(1, n) \in [1..n -> 1..n] /\ DOMAIN Span(1, n) = 1..n
  BY <1>1
<1>3. Span(1, n) \in Seq(1..n)
  BY <1>2
<1>4. \A k \in 1..n : Span(1, n)[k] = k
  BY <1>1
<1>5. Range(Span(1, n)) = 1..n
  BY <1>2, <1>4 DEF Range
<1>6. QED  BY <1>2, <1>3, <1>4, <1>5 DEF IsWindow, Ascends

\* What a run reads as its window, and what it holds before.
LEMMA FullWindowIs ==
  ASSUME NEW l, Len(l) \in Nat, NEW st, StateOK(l, st)
  PROVE  /\ IsWindow(FullWindow(l, st), From(st), Len(l))
         /\ Ascends(FullWindow(l, st), First(st))
         /\ FullWindow(l, st) # <<>> =>
              FullWindow(l, st)[1] = IF st = NoState THEN 1 ELSE st.id
<1>1. CASE st = NoState
  <2>1. FullWindow(l, st) = Span(1, Len(l))
    <3>1. st.id \notin 1..Len(l)
      BY <1>1 DEF NoState
    <3>2. QED  BY <1>1, <3>1 DEF FullWindow
  <2>2. IsWindow(FullWindow(l, st), 1, Len(l)) /\ Ascends(FullWindow(l, st), 1)
    BY <2>1, WholeIsWindow
  <2>3. FullWindow(l, st) # <<>> => FullWindow(l, st)[1] = 1
    <3>1. Len(l) + 1 - 1 = Len(l)
      OBVIOUS
    <3>2. FullWindow(l, st) = [k \in 1..(Len(l) + 1 - 1) |-> 1 - 1 + k]
      BY <2>1 DEF Span
    <3>3. FullWindow(l, st) # <<>> => 1 \in 1..(Len(l) + 1 - 1)
      <4>1. FullWindow(l, st) \in Seq(1..Len(l)) /\ DOMAIN FullWindow(l, st) = 1..Len(l)
        BY <2>2, <3>1, <3>2 DEF IsWindow
      <4>2. FullWindow(l, st) # <<>> => Len(FullWindow(l, st)) # 0
        BY <4>1
      <4>3. Len(FullWindow(l, st)) = Len(l)
        BY <4>1
      <4>4. QED  BY <3>1, <4>2, <4>3
    <3>4. QED  BY <3>2, <3>3
  <2>4. QED  BY <1>1, <2>2, <2>3 DEF From, First
<1>2. CASE st # NoState
  <2>1. PICK n \in Nat, s \in Nat, a \in Nat : s = st.id /\ a = st.start /\ n = Len(l)
    BY DEF StateOK, States
  <2>2. s \in 1..n /\ a \in 1..(s - 1)
    BY <1>2, <2>1 DEF StateOK
  <2>3. Compressed(FullWindow(l, st), a, s, n)
    BY <1>2, <2>1, FullIsCompressed
  <2>4. IsWindow(FullWindow(l, st), a, n) /\ Ascends(FullWindow(l, st), 2)
    BY <2>2, <2>3, CompressedIsWindow
  <2>5. FullWindow(l, st)[1] = s
    BY <2>3 DEF Compressed
  <2>6. QED  BY <1>2, <2>1, <2>4, <2>5 DEF From, First
<1>3. QED  BY <1>1, <1>2

\* The start of a window is a place, 1 in an empty list.
LEMMA FromIsPlace ==
  ASSUME NEW l, Len(l) \in Nat, NEW st, StateOK(l, st)
  PROVE  From(st) \in Nat \ {0} /\ (From(st) = 1 \/ From(st) <= Len(l))
<1>1. CASE st = NoState
  BY <1>1 DEF From
<1>2. CASE st # NoState
  <2>1. PICK s \in Nat, a \in Nat : s = st.id /\ a = st.start
    BY DEF StateOK, States
  <2>2. s \in 1..Len(l) /\ a \in 1..(s - 1)
    BY <1>2, <2>1 DEF StateOK
  <2>3. QED  BY <1>2, <2>1, <2>2 DEF From
<1>3. QED  BY <1>1, <1>2

\* The border of the rounds that stay: the last start of a round but one, or
\* the front of the window.
LEMMA KeepStartIs ==
  ASSUME NEW n \in Nat, NEW w \in Seq(1..n), w # <<>>
  PROVE  /\ KeepStart(w) \in Range(w)
         /\ Cardinality(RoundStarts(w)) <= 2 => KeepStart(w) = w[1]
         /\ Cardinality(RoundStarts(w)) > 2 =>
              \E k, j \in RoundStarts(w) : k < j /\ KeepStart(w) = w[k]
<1> DEFINE S == RoundStarts(w)
<1>1. S \in SUBSET (1..Len(w)) /\ DOMAIN w = 1..Len(w) /\ Len(w) \in Nat
  BY DEF RoundStarts
<1>2. S \in SUBSET (0..Len(w)) /\ IsFiniteSet(S) /\ Cardinality(S) \in Nat
  <2>1. 1..Len(w) \subseteq 0..Len(w)
    BY <1>1
  <2>2. IsFiniteSet(S)
    BY <1>1, RankRange
  <2>3. QED  BY <1>1, <2>1, <2>2, FS_CardinalityType
<1>3. 1 \in DOMAIN w /\ Head(w) = w[1]
  BY <1>1
<1> HIDE DEF S
<1>4. CASE Cardinality(S) <= 2
  <2>1. KeepStart(w) = w[1]
    BY <1>3, <1>4 DEF KeepStart, S
  <2>2. ~(Cardinality(S) > 2)
    BY <1>2, <1>4
  <2>3. QED  BY <1>3, <2>1, <2>2 DEF S, Range
<1>5. CASE ~(Cardinality(S) <= 2)
  <2> DEFINE k == CHOOSE k \in S : Cardinality({j \in S : j > k}) = 1
  <2>1. Cardinality(S) > 1
    BY <1>2, <1>5
  <2>2. \E i \in S : Cardinality({j \in S : j > i}) = 1
    BY <1>1, <1>2, <2>1, LastButOne
  <2>3. k \in S /\ Cardinality({j \in S : j > k}) = 1
    BY <2>2
  <2>4. KeepStart(w) = w[k]
    BY <1>5 DEF KeepStart, S
  <2> HIDE DEF k
  <2> DEFINE T == {j \in S : j > k}
  <2>5. IsFiniteSet(T)
    BY <1>2, FS_Subset
  <2>6. \E j : T = {j}
    BY <2>3, <2>5, FS_Singleton
  <2>7. PICK j \in S : j > k
    BY <2>6
  <2>8. k \in Nat /\ j \in Nat
    BY <1>1, <2>3
  <2>9. k < j
    BY <2>7, <2>8
  <2>10. k \in DOMAIN w
    BY <1>1, <2>3
  <2>11. KeepStart(w) \in Range(w)
    BY <2>4, <2>10 DEF Range
  <2>12. \E i, m \in S : i < m /\ KeepStart(w) = w[i]
    BY <2>3, <2>4, <2>9
  <2>13. QED  BY <1>5, <2>11, <2>12 DEF S
<1>6. QED  BY <1>4, <1>5

-----------------------------------------------------------------------------
(* The fold of Normalize.                                                   *)

\* f holds what repair has after each message of the window.
Scanned(f, l, w) ==
  /\ DOMAIN f = 0..Len(w)
  /\ f[0] = Blank
  /\ \A k \in 1..Len(w) : f[k] = Scan(l, f[k - 1], w[k])

\* Up to n such an f exists.
FoldExists(l, w, n) ==
  \E f : f = [k \in 0..n |-> IF k = 0 THEN Blank ELSE Scan(l, f[k - 1], w[k])]

\* The recursion of Normalize has a solution for the empty window ...
LEMMA FoldStarts ==
  ASSUME NEW l, NEW w
  PROVE  FoldExists(l, w, 0)
<1> DEFINE f == [k \in 0..0 |-> Blank]
<1>1. f = [k \in 0..0 |-> IF k = 0 THEN Blank ELSE Scan(l, f[k - 1], w[k])]
  <2>1. \A k \in 0..0 : k = 0
    OBVIOUS
  <2>2. QED  BY <2>1
<1>2. QED  BY <1>1 DEF FoldExists

\* ... and one for a message more ...
LEMMA FoldGoesOn ==
  ASSUME NEW l, NEW w, NEW n \in Nat, FoldExists(l, w, n)
  PROVE  FoldExists(l, w, n + 1)
<1>1. PICK f : f = [k \in 0..n |-> IF k = 0 THEN Blank ELSE Scan(l, f[k - 1], w[k])]
  BY DEF FoldExists
<1> DEFINE Value(k) == IF k = n + 1 THEN Scan(l, f[n], w[n + 1]) ELSE f[k]
           g == [k \in 0..(n + 1) |-> Value(k)]
<1>2. \A k \in 0..n : g[k] = f[k]
  <2> TAKE k \in 0..n
  <2>1. k \in 0..(n + 1) /\ k # n + 1
    OBVIOUS
  <2>2. QED  BY <2>1
<1>3. ASSUME NEW k \in 0..(n + 1)
      PROVE  Value(k) = IF k = 0 THEN Blank ELSE Scan(l, g[k - 1], w[k])
  <2>1. CASE k = n + 1
    <3>1. k - 1 = n /\ n \in 0..n /\ k # 0
      BY <2>1
    <3>2. g[k - 1] = f[n]
      BY <1>2, <3>1
    <3>3. Value(k) = Scan(l, f[n], w[n + 1])
      BY <2>1
    <3> HIDE DEF g, Value
    <3>4. QED  BY <2>1, <3>1, <3>2, <3>3
  <2>2. CASE k # n + 1 /\ k # 0
    <3>1. k \in 0..n /\ k - 1 \in 0..n
      BY <2>2
    <3>2. Value(k) = f[k]
      BY <2>2
    <3>3. f[k] = Scan(l, f[k - 1], w[k])
      BY <1>1, <2>2, <3>1
    <3>4. g[k - 1] = f[k - 1]
      BY <1>2, <3>1
    <3> HIDE DEF g, Value
    <3>5. QED  BY <2>2, <3>2, <3>3, <3>4
  <2>3. CASE k = 0
    <3>1. Value(k) = f[0]
      BY <2>3
    <3>2. f[0] = Blank
      BY <1>1
    <3> HIDE DEF g, Value
    <3>3. QED  BY <2>3, <3>1, <3>2
  <2>4. QED  BY <2>1, <2>2, <2>3
<1> DEFINE h == [k \in 0..(n + 1) |-> IF k = 0 THEN Blank ELSE Scan(l, g[k - 1], w[k])]
<1>4. g = h
  <2> HIDE DEF Value
  <2>1. QED  BY <1>3
<1>5. QED  BY <1>4 DEF FoldExists

\* ... and so for every length, as the least length without one does not exist.
LEMMA FoldsExist ==
  ASSUME NEW l, NEW w
  PROVE  \A n \in Nat : FoldExists(l, w, n)
<1> DEFINE T == {m \in Nat : ~FoldExists(l, w, m)}
<1>1. T = {}
  <2> SUFFICES ASSUME T # {} PROVE FALSE
    OBVIOUS
  <2>1. T \in SUBSET Nat
    OBVIOUS
  <2>2. PICK m \in T : \A i \in T : m <= i
    BY <2>1, LeastNat
  <2>3. m # 0
    BY FoldStarts, <2>2
  <2>4. PICK i \in Nat : i + 1 = m /\ ~(m <= i)
    <3>1. m - 1 \in Nat /\ (m - 1) + 1 = m /\ ~(m <= m - 1)
      BY <2>1, <2>3
    <3>2. QED  BY <3>1
  <2>5. FoldExists(l, w, i)
    BY <2>2, <2>4
  <2>6. FoldExists(l, w, i + 1)
    BY <2>5, FoldGoesOn
  <2>7. QED  BY <2>2, <2>4, <2>6
<1>2. QED  BY <1>1

\* Normalize scans the window message by message and flushes at the end.
LEMMA NormalizeScans ==
  ASSUME NEW l, NEW w, Len(w) \in Nat
  PROVE  \E f : Scanned(f, l, w) /\ Normalize(l, w) = Flush(l, f[Len(w)])
<1> DEFINE f == CHOOSE f : f = [k \in 0..Len(w) |->
                                  IF k = 0 THEN Blank ELSE Scan(l, f[k - 1], w[k])]
<1>1. \E g : g = [k \in 0..Len(w) |-> IF k = 0 THEN Blank ELSE Scan(l, g[k - 1], w[k])]
  <2>1. FoldExists(l, w, Len(w))
    BY FoldsExist
  <2>2. QED  BY <2>1 DEF FoldExists
<1>2. f = [k \in 0..Len(w) |-> IF k = 0 THEN Blank ELSE Scan(l, f[k - 1], w[k])]
  BY <1>1
<1>3. Normalize(l, w) = Flush(l, f[Len(w)])
  BY DEF Normalize
<1> HIDE DEF f
<1>4. Scanned(f, l, w)
  BY <1>2 DEF Scanned
<1>5. QED  BY <1>3, <1>4

-----------------------------------------------------------------------------
(* Repair gives records whose calls are answered at once.                   *)

\* The list is of its type, and each result answers a call, no two the same.
LogOK(l) == l \in Seq(Messages) /\ Answers(l) /\ AnswersOnce(l)

RecordSet(l) == [at : 1..Len(l), role : Kinds, calls : SUBSET (Nat \X Nat), call : Nat \X Nat]

OneRecord(l, r) ==
  /\ r.role = "tool" => /\ r.calls = {} /\ r.call # NoCall
                        /\ l[r.at].kind = "tool" /\ r.call = l[r.at].call
  /\ r.role # "tool" => r.call = NoCall
  /\ r.calls # {} => l[r.at].kind \in {"calls", "tool"} /\ NoCall \notin r.calls
  /\ IsFiniteSet(r.calls)

\* A result stems from the message with its call, or from a message behind it.
Near(l, a, t) == t.at = a.at \/ l[t.at].call[1] = a.at

Followed(l, R, k) ==
  R[k].calls # {} =>
    /\ k + Cardinality(R[k].calls) <= Len(R)
    /\ {R[k + j].call : j \in 1..Cardinality(R[k].calls)} = R[k].calls
    /\ \A j \in 1..Cardinality(R[k].calls) :
         R[k + j].role = "tool" /\ Near(l, R[k], R[k + j])

AskedFor(R, k) ==
  R[k].role = "tool" => \E j \in 1..(k - 1) : /\ R[k].call \in R[j].calls
                                              /\ k <= j + Cardinality(R[j].calls)

Sound(l, R) ==
  /\ R \in Seq(RecordSet(l))
  /\ \A k \in 1..Len(R) : OneRecord(l, R[k]) /\ Followed(l, R, k) /\ AskedFor(R, k)

\* Sound records are a well-formed request, as RequestsWellFormed has it.
LEMMA SoundIsWellFormed ==
  ASSUME NEW l, NEW R, Sound(l, R)
  PROVE  WellFormed(R)
<1>1. DOMAIN R = 1..Len(R)
  BY DEF Sound
<1>2. ASSUME NEW k \in 1..Len(R)
      PROVE  /\ R[k].calls # {} => /\ k + Cardinality(R[k].calls) <= Len(R)
                                   /\ {R[k + j].call : j \in 1..Cardinality(R[k].calls)} = R[k].calls
             /\ R[k].role = "tool" => \E j \in 1..(k - 1) : /\ R[k].call \in R[j].calls
                                                           /\ k <= j + Cardinality(R[j].calls)
  BY DEF Sound, Followed, AskedFor
<1>3. QED  BY <1>1, <1>2 DEF WellFormed

\* No records are sound.
LEMMA EmptySound == ASSUME NEW l PROVE Sound(l, <<>>)
<1>1. <<>> \in Seq(RecordSet(l)) /\ Len(<<>>) = 0
  OBVIOUS
<1>2. QED  BY <1>1 DEF Sound

\* Records that are sound stay so with others in front.
LEMMA FollowedShifts ==
  ASSUME NEW l, NEW S, NEW u \in Seq(S), NEW v \in Seq(S), NEW i \in 1..Len(v),
         IsFiniteSet(v[i].calls), Followed(l, v, i)
  PROVE  Followed(l, u \o v, Len(u) + i)
<1> DEFINE w == u \o v
<1>1. /\ Len(w) = Len(u) + Len(v)
      /\ \A j \in 1..Len(v) : w[Len(u) + j] = v[j]
  BY ConcatParts
<1> HIDE DEF w
<1>2. PICK p \in Nat, q \in Nat, n \in Nat : p = Len(u) /\ q = Len(v) /\ n = Cardinality(v[i].calls)
  BY FS_CardinalityType
<1>3. w[p + i].calls = v[i].calls
  BY <1>1, <1>2
<1>4. CASE v[i].calls # {}
  <2>1. /\ i + n <= q
        /\ {v[i + j].call : j \in 1..n} = v[i].calls
        /\ \A j \in 1..n : v[i + j].role = "tool" /\ Near(l, v[i], v[i + j])
    BY <1>2, <1>4 DEF Followed
  <2>2. \A j \in 1..n : w[(p + i) + j] = v[i + j]
    <3> TAKE j \in 1..n
    <3>1. PICK m \in Nat : m = i + j
      OBVIOUS
    <3>2. m \in 1..q /\ p + m = (p + i) + j
      BY <1>2, <2>1, <3>1
    <3>3. w[p + m] = v[m]
      BY <1>1, <1>2, <3>2
    <3>4. QED  BY <3>1, <3>2, <3>3
  <2>3. {w[(p + i) + j].call : j \in 1..n} = v[i].calls
    BY <2>1, <2>2
  <2>4. (p + i) + n <= Len(w)
    BY <1>1, <1>2, <2>1
  <2>5. w[p + i] = v[i]
    BY <1>1, <1>2
  <2>6. \A j \in 1..n : w[(p + i) + j].role = "tool" /\ Near(l, w[p + i], w[(p + i) + j])
    BY <2>1, <2>2, <2>5
  <2>7. Followed(l, w, p + i)
    BY <1>2, <1>3, <2>3, <2>4, <2>6 DEF Followed
  <2>8. QED  BY <1>2, <2>7 DEF w
<1>5. CASE v[i].calls = {}
  <2>1. Followed(l, w, p + i)
    BY <1>3, <1>5 DEF Followed
  <2>2. QED  BY <1>2, <2>1 DEF w
<1>6. QED  BY <1>4, <1>5

\* A message stays followed by its results with records behind them.
LEMMA FollowedStays ==
  ASSUME NEW l, NEW S, NEW u \in Seq(S), NEW v \in Seq(S), NEW i \in 1..Len(u),
         IsFiniteSet(u[i].calls), Followed(l, u, i)
  PROVE  Followed(l, u \o v, i)
<1> DEFINE w == u \o v
<1>1. /\ Len(w) = Len(u) + Len(v)
      /\ \A j \in 1..Len(u) : w[j] = u[j]
  BY ConcatParts
<1> HIDE DEF w
<1>2. PICK p \in Nat, q \in Nat, n \in Nat : p = Len(u) /\ q = Len(v) /\ n = Cardinality(u[i].calls)
  BY FS_CardinalityType
<1>3. w[i] = u[i]
  BY <1>1
<1>4. CASE u[i].calls # {}
  <2>1. /\ i + n <= p
        /\ {u[i + j].call : j \in 1..n} = u[i].calls
        /\ \A j \in 1..n : u[i + j].role = "tool" /\ Near(l, u[i], u[i + j])
    BY <1>2, <1>4 DEF Followed
  <2>2. \A j \in 1..n : w[i + j] = u[i + j]
    <3> TAKE j \in 1..n
    <3>1. i + j \in 1..p
      BY <1>2, <2>1
    <3>2. QED  BY <1>1, <1>2, <3>1
  <2>3. {w[i + j].call : j \in 1..n} = u[i].calls
    BY <2>1, <2>2
  <2>4. i + n <= Len(w)
    BY <1>1, <1>2, <2>1
  <2>5. \A j \in 1..n : w[i + j].role = "tool" /\ Near(l, w[i], w[i + j])
    BY <1>3, <2>1, <2>2
  <2>6. QED  BY <1>2, <1>3, <2>3, <2>4, <2>5 DEF Followed, w
<1>5. CASE u[i].calls = {}
  BY <1>3, <1>5 DEF Followed, w
<1>6. QED  BY <1>4, <1>5

\* A result stays asked for with other records in front.
LEMMA AskedShifts ==
  ASSUME NEW S, NEW u \in Seq(S), NEW v \in Seq(S), NEW i \in 1..Len(v),
         \A k \in 1..Len(v) : IsFiniteSet(v[k].calls), AskedFor(v, i)
  PROVE  AskedFor(u \o v, Len(u) + i)
<1> DEFINE w == u \o v
<1>1. /\ Len(w) = Len(u) + Len(v)
      /\ \A j \in 1..Len(v) : w[Len(u) + j] = v[j]
  BY ConcatParts
<1> HIDE DEF w
<1>2. PICK p \in Nat, q \in Nat : p = Len(u) /\ q = Len(v)
  OBVIOUS
<1>3. w[p + i] = v[i]
  BY <1>1, <1>2
<1>4. CASE v[i].role = "tool"
  <2>1. PICK j \in 1..(i - 1) : v[i].call \in v[j].calls /\ i <= j + Cardinality(v[j].calls)
    BY <1>4 DEF AskedFor
  <2>2. j \in 1..q /\ p + j \in 1..((p + i) - 1)
    BY <1>2
  <2>3. w[p + j] = v[j]
    BY <1>1, <1>2, <2>2
  <2>4. PICK n \in Nat : n = Cardinality(v[j].calls)
    BY <1>2, <2>2, FS_CardinalityType
  <2>5. p + i <= (p + j) + n
    BY <2>1, <2>4
  <2>6. w[p + i].call \in w[p + j].calls /\ p + i <= (p + j) + Cardinality(w[p + j].calls)
    BY <1>3, <2>1, <2>3, <2>4, <2>5
  <2>7. AskedFor(w, p + i)
    BY <2>2, <2>6 DEF AskedFor
  <2>8. QED  BY <1>2, <2>7 DEF w
<1>5. CASE v[i].role # "tool"
  <2>1. AskedFor(w, p + i)
    BY <1>3, <1>5 DEF AskedFor
  <2>2. QED  BY <1>2, <2>1 DEF w
<1>6. QED  BY <1>4, <1>5

\* A result stays asked for with other records behind.
LEMMA AskedStays ==
  ASSUME NEW S, NEW u \in Seq(S), NEW v \in Seq(S), NEW i \in 1..Len(u), AskedFor(u, i)
  PROVE  AskedFor(u \o v, i)
<1> DEFINE w == u \o v
<1>1. \A j \in 1..Len(u) : w[j] = u[j]
  BY ConcatParts
<1> HIDE DEF w
<1>2. w[i] = u[i] /\ \A j \in 1..(i - 1) : w[j] = u[j]
  BY <1>1
<1>3. QED  BY <1>2 DEF AskedFor, w

\* Sound records joined are sound.
LEMMA SoundConcat ==
  ASSUME NEW l, NEW u, NEW v, Sound(l, u), Sound(l, v)
  PROVE  Sound(l, u \o v)
<1> DEFINE w == u \o v
<1>1. u \in Seq(RecordSet(l)) /\ v \in Seq(RecordSet(l))
  BY DEF Sound
<1>2. w \in Seq(RecordSet(l))
  BY <1>1, ConcatParts
<1>3. /\ Len(w) = Len(u) + Len(v)
      /\ \A j \in 1..Len(u) : w[j] = u[j]
      /\ \A j \in 1..Len(v) : w[Len(u) + j] = v[j]
  BY <1>1, ConcatParts
<1>4. \A k \in 1..Len(u) : IsFiniteSet(u[k].calls)
  BY DEF Sound, OneRecord
<1>5. \A k \in 1..Len(v) : IsFiniteSet(v[k].calls)
  BY DEF Sound, OneRecord
<1>6. ASSUME NEW i \in 1..Len(u)
      PROVE  OneRecord(l, w[i]) /\ Followed(l, w, i) /\ AskedFor(w, i)
  <2>1. OneRecord(l, u[i]) /\ Followed(l, u, i) /\ AskedFor(u, i)
    BY DEF Sound
  <2>2. w[i] = u[i]
    BY <1>3
  <2>3. Followed(l, w, i)
    BY <1>1, <1>4, <2>1, FollowedStays
  <2>4. AskedFor(w, i)
    BY <1>1, <2>1, AskedStays
  <2> HIDE DEF w
  <2>5. QED  BY <2>1, <2>2, <2>3, <2>4
<1>7. ASSUME NEW i \in 1..Len(v)
      PROVE  OneRecord(l, w[Len(u) + i]) /\ Followed(l, w, Len(u) + i) /\ AskedFor(w, Len(u) + i)
  <2>1. OneRecord(l, v[i]) /\ Followed(l, v, i) /\ AskedFor(v, i)
    BY DEF Sound
  <2>2. w[Len(u) + i] = v[i]
    BY <1>3
  <2>3. Followed(l, w, Len(u) + i)
    BY <1>1, <1>5, <2>1, FollowedShifts
  <2>4. AskedFor(w, Len(u) + i)
    BY <1>1, <1>5, <2>1, AskedShifts
  <2> HIDE DEF w
  <2>5. QED  BY <2>1, <2>2, <2>3, <2>4
<1> HIDE DEF w
<1>8. ASSUME NEW k \in 1..Len(w)
      PROVE  OneRecord(l, w[k]) /\ Followed(l, w, k) /\ AskedFor(w, k)
  <2>1. PICK p \in Nat, q \in Nat : p = Len(u) /\ q = Len(v)
    BY <1>1
  <2>2. CASE k <= p
    <3>1. k \in 1..Len(u)
      BY <2>1, <2>2
    <3>2. QED  BY <1>6, <3>1
  <2>3. CASE ~(k <= p)
    <3>1. PICK i \in Nat : i = k - p
      BY <2>1, <2>3
    <3>2. i \in 1..Len(v) /\ Len(u) + i = k
      BY <1>3, <2>1, <2>3, <3>1
    <3>3. QED  BY <1>7, <3>2
  <2>4. QED  BY <2>2, <2>3
<1>9. QED  BY <1>2, <1>8 DEF Sound, w

-----------------------------------------------------------------------------
(* The types, and what a step of a run leaves alone.                        *)

Frames == [pc : Pcs, state : States, window : Seq(Nat), keep : Nat, old : SUBSET Nat,
           offset : Nat, group : Nat, left : SUBSET Nat]

Typed ==
  /\ log \in Seq(Messages) /\ Len(log) <= MaxLog
  /\ summary \in States
  /\ dirty \in BOOLEAN
  /\ run \in [Runs -> Frames]
  /\ seen \subseteq Mishaps

\* The list only grows, by one message at most.
Grows ==
  \/ log' = log
  \/ \E m \in Messages : log' = Append(log, m) /\ Len(log) < MaxLog

Others(r) == \A q \in Runs \ {r} : run'[q] = run[q]

\* The frame a run starts with is of its type.
LEMMA FrameTyped == Frame \in Frames /\ NoState \in States /\ NoCall \in Nat \X Nat
<1>1. NoState \in States
  BY DEF NoState, States
<1>2. <<>> \in Seq(Nat)
  OBVIOUS
<1>3. Frame \in Frames
  BY <1>1, <1>2 DEF Frame, Frames, Pcs
<1>4. QED  BY <1>1, <1>3 DEF NoCall

\* A plain message is of its type and stands for none.
LEMMA MessageTyped ==
  ASSUME NEW kind \in Kinds
  PROVE  /\ Message(kind) \in Messages
         /\ Message(kind).kind = kind /\ Message(kind).covers = {}
<1>1. <<>> \in Seq(Tools) /\ NoCall \in Nat \X Nat
  BY DEF NoCall
<1>2. QED  BY <1>1 DEF Message, Messages

\* The run takes its new frame, and the others keep theirs.
LEMMA Becoming ==
  ASSUME Typed, NEW r \in Runs, NEW frame \in Frames, Becomes(r, frame)
  PROVE  run' \in [Runs -> Frames] /\ run'[r] = frame /\ Others(r)
BY DEF Typed, Becomes, Others

\* A message pushed is the last, and those before it stay.
LEMMA Pushing ==
  ASSUME Typed, NEW m \in Messages, Push(m)
  PROVE  /\ log' \in Seq(Messages) /\ Len(log') = Len(log) + 1 /\ Len(log') <= MaxLog
         /\ log'[Len(log) + 1] = m
         /\ \A i \in 1..Len(log) : log'[i] = log[i]
         /\ Grows
<1>1. log \in Seq(Messages) /\ Len(log) \in Nat /\ MaxLog \in Nat
  BY BoundsAssumption DEF Typed
<1>2. log' = Append(log, m) /\ Len(log) < MaxLog
  BY DEF Push
<1>3. /\ log' \in Seq(Messages) /\ Len(log') = Len(log) + 1
      /\ log'[Len(log) + 1] = m
      /\ \A i \in 1..Len(log) : log'[i] = log[i]
  BY <1>1, <1>2
<1>4. Len(log') <= MaxLog
  BY <1>1, <1>2, <1>3
<1>5. QED  BY <1>2, <1>3, <1>4 DEF Grows

\* What a list that grows keeps.
LEMMA Growing ==
  ASSUME Typed, Grows
  PROVE  /\ log' \in Seq(Messages) /\ Len(log') <= MaxLog
         /\ Len(log) \in Nat /\ Len(log') \in Nat
         /\ Len(log') = Len(log) \/ Len(log') = Len(log) + 1
         /\ \A i \in 1..Len(log) : log'[i] = log[i] /\ i \in 1..Len(log')
<1>1. log \in Seq(Messages) /\ Len(log) \in Nat /\ MaxLog \in Nat /\ Len(log) <= MaxLog
  BY BoundsAssumption DEF Typed
<1>2. CASE log' = log
  BY <1>1, <1>2
<1>3. ASSUME NEW m \in Messages, log' = Append(log, m), Len(log) < MaxLog
      PROVE  /\ log' \in Seq(Messages) /\ Len(log') <= MaxLog
             /\ Len(log') = Len(log) + 1
             /\ \A i \in 1..Len(log) : log'[i] = log[i] /\ i \in 1..Len(log')
  <2>1. /\ log' \in Seq(Messages) /\ Len(log') = Len(log) + 1
        /\ \A i \in 1..Len(log) : log'[i] = log[i]
    BY <1>1, <1>3
  <2>2. QED  BY <1>1, <1>3, <2>1
<1>4. QED  BY <1>1, <1>2, <1>3 DEF Grows

\* The frame of a run whose program counter moves on.
LEMMA Going ==
  ASSUME Typed, NEW r \in Runs, NEW pc \in Pcs, Goto(r, pc)
  PROVE  /\ run' \in [Runs -> Frames] /\ Others(r)
         /\ run'[r] = [run[r] EXCEPT !.pc = pc]
         /\ run'[r].pc = pc /\ run'[r].state = run[r].state /\ run'[r].window = run[r].window
         /\ run'[r].keep = run[r].keep /\ run'[r].group = run[r].group
         /\ run'[r].left = run[r].left
<1>1. run[r] \in Frames
  BY DEF Typed
<1>2. [run[r] EXCEPT !.pc = pc] \in Frames
  BY <1>1 DEF Frames
<1>3. run' \in [Runs -> Frames] /\ run'[r] = [run[r] EXCEPT !.pc = pc] /\ Others(r)
  BY <1>2, Becoming DEF Goto
<1>4. QED  BY <1>1, <1>3 DEF Frames

\* A run that ends forgets its frame.
LEMMA Ending ==
  ASSUME Typed, NEW r \in Runs, End(r)
  PROVE  /\ run' \in [Runs -> Frames] /\ Others(r)
         /\ run'[r] \in Frames
         /\ run'[r].pc = "done" /\ run'[r].state = NoState /\ run'[r].keep = 0
<1>1. /\ [Frame EXCEPT !.pc = "done"] \in Frames
      /\ [Frame EXCEPT !.pc = "done"].pc = "done"
      /\ [Frame EXCEPT !.pc = "done"].state = NoState
      /\ [Frame EXCEPT !.pc = "done"].keep = 0
  BY FrameTyped DEF Frames, Frame, Pcs
<1>2. QED  BY <1>1, Becoming DEF End

\* A run whose context is built keeps its border alone.
LEMMA Building ==
  ASSUME Typed, NEW r \in Runs, Built(r)
  PROVE  /\ run' \in [Runs -> Frames] /\ Others(r)
         /\ run'[r].pc \in {"mark", "user"} /\ run'[r].state = NoState
         /\ run'[r].keep = run[r].keep
<1> DEFINE pc == IF Normalize(log, run[r].window).dirty THEN "mark" ELSE "user"
           frame == [Frame EXCEPT !.keep = run[r].keep, !.pc = pc]
<1>1. pc \in {"mark", "user"}
  OBVIOUS
<1>2. run[r].keep \in Nat
  BY DEF Typed, Frames
<1> HIDE DEF pc
<1>3. frame \in Frames /\ frame.pc = pc /\ frame.state = NoState /\ frame.keep = run[r].keep
  BY <1>1, <1>2, FrameTyped DEF Frames, Frame, Pcs
<1>4. Becomes(r, frame)
  BY DEF Built, pc
<1> HIDE DEF frame
<1>5. run' \in [Runs -> Frames] /\ run'[r] = frame /\ Others(r)
  BY <1>3, <1>4, Becoming
<1>6. QED  BY <1>1, <1>3, <1>5

\* What an action leaves: the types, the list but for a new message, and the
\* frames of the other runs.
Keeps(r) == Typed' /\ Grows /\ Others(r)

\* An action on the frame of one run.
LEMMA QuietKeeps ==
  ASSUME Typed, NEW r \in Runs, run' \in [Runs -> Frames], Others(r),
         UNCHANGED <<log, summary>>, dirty' \in BOOLEAN, seen' \subseteq Mishaps
  PROVE  Keeps(r)
<1>1. log' \in Seq(Messages) /\ Len(log') <= MaxLog /\ summary' \in States /\ Grows
  BY DEF Typed, Grows
<1>2. QED  BY <1>1 DEF Keeps, Typed

\* An action that pushes a message.
LEMMA PushKeeps ==
  ASSUME Typed, NEW r \in Runs, run' \in [Runs -> Frames], Others(r),
         Grows, summary' \in States, dirty' \in BOOLEAN, seen' \subseteq Mishaps
  PROVE  Keeps(r)
<1>1. log' \in Seq(Messages) /\ Len(log') <= MaxLog
  BY Growing
<1>2. QED  BY <1>1 DEF Keeps, Typed

\* Start: beside an active run it is an overlap.
LEMMA StartDoes ==
  ASSUME Typed, NEW r \in Runs, Start(r)
  PROVE  /\ Keeps(r) /\ UNCHANGED <<log, summary, dirty>> /\ At(r, "idle")
         /\ \A q \in 1..(r - 1) : ~At(q, "idle")
         /\ run'[r].pc = "state" /\ run'[r].state = run[r].state
         /\ run'[r].keep = run[r].keep /\ seen \subseteq seen'
         /\ (\E q \in Runs : Active(q)) => "overlap" \in seen'
<1>1. "state" \in Pcs
  BY DEF Pcs
<1>2. /\ run' \in [Runs -> Frames] /\ Others(r)
      /\ run'[r].pc = "state" /\ run'[r].state = run[r].state /\ run'[r].keep = run[r].keep
  BY <1>1, Going DEF Start
<1>3. seen' \subseteq Mishaps /\ dirty' \in BOOLEAN
  BY DEF Start, Typed, Mishaps
<1>4. Keeps(r)
  BY <1>2, <1>3, QuietKeeps DEF Start
<1>5. QED  BY <1>2, <1>4 DEF Start

\* ReadState: the run has the summary state of this moment.
LEMMA ReadStateDoes ==
  ASSUME Typed, NEW r \in Runs, ReadState(r)
  PROVE  /\ Keeps(r) /\ UNCHANGED <<log, summary, dirty, seen>> /\ At(r, "state")
         /\ run'[r].pc \in {"range", "all"} /\ run'[r].state = summary
         /\ run'[r].keep = run[r].keep
         /\ run'[r].pc = "range" => summary # NoState
<1> DEFINE pc == IF summary = NoState THEN "all" ELSE "range"
           frame == [run[r] EXCEPT !.state = summary, !.pc = pc]
<1>1. pc \in {"range", "all"}
  OBVIOUS
<1>2. run[r] \in Frames /\ summary \in States
  BY DEF Typed
<1> HIDE DEF pc
<1>3. /\ frame \in Frames
      /\ frame.pc = pc /\ frame.state = summary /\ frame.keep = run[r].keep
  BY <1>1, <1>2 DEF Frames, Pcs
<1>4. Becomes(r, frame)
  BY DEF ReadState, pc
<1> HIDE DEF frame
<1>5. run' \in [Runs -> Frames] /\ run'[r] = frame /\ Others(r)
  BY <1>3, <1>4, Becoming
<1>6. Keeps(r)
  BY <1>5, QuietKeeps DEF ReadState, Typed
<1>7. pc = "range" => summary # NoState
  BY DEF pc
<1>8. QED  BY <1>1, <1>3, <1>5, <1>6, <1>7 DEF ReadState

\* A run takes a window.
LEMMA WindowSet ==
  ASSUME Typed, NEW r \in Runs, NEW w \in Seq(Nat),
         Becomes(r, [run[r] EXCEPT !.window = w, !.pc = "plan"])
  PROVE  /\ run' \in [Runs -> Frames] /\ Others(r)
         /\ run'[r].pc = "plan" /\ run'[r].state = run[r].state
         /\ run'[r].window = w /\ run'[r].keep = run[r].keep
<1> DEFINE frame == [run[r] EXCEPT !.window = w, !.pc = "plan"]
<1>1. run[r] \in Frames
  BY DEF Typed
<1>2. /\ frame \in Frames /\ frame.pc = "plan" /\ frame.state = run[r].state
      /\ frame.window = w /\ frame.keep = run[r].keep
  BY <1>1 DEF Frames, Pcs
<1> HIDE DEF frame
<1>3. run' \in [Runs -> Frames] /\ run'[r] = frame /\ Others(r)
  BY <1>2, Becoming DEF frame
<1>4. QED  BY <1>2, <1>3

\* Either way a run reads its window, it is that of the state it has read.
ReadsWindow(r) ==
  /\ run'[r].pc = "plan" /\ run'[r].state = run[r].state /\ run'[r].keep = run[r].keep
  /\ run'[r].window = FullWindow(log, run[r].state)

\* The window of a right state is a sequence of places.
LEMMA WindowTyped ==
  ASSUME Typed, NEW st, StateOK(log, st)
  PROVE  FullWindow(log, st) \in Seq(Nat)
<1>1. Len(log) \in Nat
  BY DEF Typed
<1>2. FullWindow(log, st) \in Seq(1..Len(log))
  BY <1>1, FullWindowIs DEF IsWindow
<1>3. 1..Len(log) \subseteq Nat
  BY <1>1
<1>4. QED  BY <1>2, <1>3, SeqMonotonic

\* ReadRange: the same window as by the scan, or a scan follows.
LEMMA ReadRangeDoes ==
  ASSUME Typed, NEW r \in Runs, ReadRange(r), StateOK(log, run[r].state), run[r].state # NoState
  PROVE  /\ Keeps(r) /\ UNCHANGED <<log, summary, dirty, seen>> /\ At(r, "range")
         /\ \/ ReadsWindow(r)
            \/ run'[r].pc = "all" /\ run'[r].state = run[r].state /\ run'[r].keep = run[r].keep
<1>1. CASE Ranged(log, run[r].state)
  <2>1. Len(log) \in Nat
    BY DEF Typed
  <2>2. RangedWindow(log, run[r].state) = FullWindow(log, run[r].state)
    BY <1>1, <2>1, WindowsAgree
  <2>3. FullWindow(log, run[r].state) \in Seq(Nat)
    BY WindowTyped
  <2>4. Becomes(r, [run[r] EXCEPT !.window = FullWindow(log, run[r].state), !.pc = "plan"])
    BY <1>1, <2>2 DEF ReadRange
  <2>5. run' \in [Runs -> Frames] /\ Others(r) /\ ReadsWindow(r)
    BY <2>3, <2>4, WindowSet DEF ReadsWindow
  <2>6. Keeps(r)
    BY <2>5, QuietKeeps DEF ReadRange, Typed
  <2>7. QED  BY <2>5, <2>6 DEF ReadRange
<1>2. CASE ~Ranged(log, run[r].state)
  <2>1. "all" \in Pcs /\ Goto(r, "all")
    BY <1>2 DEF ReadRange, Pcs
  <2>2. /\ run' \in [Runs -> Frames] /\ Others(r)
        /\ run'[r].pc = "all" /\ run'[r].state = run[r].state /\ run'[r].keep = run[r].keep
    BY <2>1, Going
  <2>3. Keeps(r)
    BY <2>2, QuietKeeps DEF ReadRange, Typed
  <2>4. QED  BY <2>2, <2>3 DEF ReadRange
<1>3. QED  BY <1>1, <1>2

\* ReadAll: the window of the state that was read.
LEMMA ReadAllDoes ==
  ASSUME Typed, NEW r \in Runs, ReadAll(r), StateOK(log, run[r].state)
  PROVE  /\ Keeps(r) /\ UNCHANGED <<log, summary, dirty, seen>> /\ At(r, "all")
         /\ ReadsWindow(r)
<1>1. FullWindow(log, run[r].state) \in Seq(Nat)
  BY WindowTyped
<1>2. run' \in [Runs -> Frames] /\ Others(r) /\ ReadsWindow(r)
  BY <1>1, WindowSet DEF ReadAll, ReadsWindow
<1>3. Keeps(r)
  BY <1>2, QuietKeeps DEF ReadAll, Typed
<1>4. QED  BY <1>2, <1>3 DEF ReadAll

\* Fits: the context is built.
LEMMA FitsDoes ==
  ASSUME Typed, NEW r \in Runs, Fits(r)
  PROVE  /\ Keeps(r) /\ UNCHANGED <<log, summary, dirty, seen>> /\ At(r, "plan")
         /\ run'[r].pc \in {"mark", "user"} /\ run'[r].state = NoState
         /\ run'[r].keep = run[r].keep
<1>1. /\ run' \in [Runs -> Frames] /\ Others(r)
      /\ run'[r].pc \in {"mark", "user"} /\ run'[r].state = NoState
      /\ run'[r].keep = run[r].keep
  BY Building DEF Fits
<1>2. Keeps(r)
  BY <1>1, QuietKeeps DEF Fits, Typed
<1>3. QED  BY <1>1, <1>2 DEF Fits

\* Refused: the run ends.
LEMMA RefusedDoes ==
  ASSUME Typed, NEW r \in Runs, Refused(r)
  PROVE  /\ Keeps(r) /\ UNCHANGED <<log, summary, dirty, seen>> /\ At(r, "plan")
         /\ run'[r].pc = "done" /\ run'[r].state = NoState /\ run'[r].keep = 0
<1>1. /\ run' \in [Runs -> Frames] /\ Others(r)
      /\ run'[r].pc = "done" /\ run'[r].state = NoState /\ run'[r].keep = 0
  BY Ending DEF Refused
<1>2. Keeps(r)
  BY <1>1, QuietKeeps DEF Refused, Typed
<1>3. QED  BY <1>1, <1>2 DEF Refused

-----------------------------------------------------------------------------
(* What the loop of repair has found is sound.                              *)

\* The message whose results are awaited, and those found, each once, among
\* the messages in W.
GroupOK(l, g, W) ==
  /\ g.at \in W /\ g.at \in 1..Len(l) /\ l[g.at].kind = "calls"
  /\ g.matched \in Seq(1..Len(l))
  /\ \A k \in 1..Len(g.matched) :
       /\ g.matched[k] \in W
       /\ l[g.matched[k]].kind = "tool"
       /\ l[g.matched[k]].call \in CallsOf(l, g.at)
  /\ \A j, k \in 1..Len(g.matched) : g.matched[j] = g.matched[k] => j = k

\* A message that repair may drop.
Droppable(l, i) == l[i].kind = "calls" /\ ~l[i].text

\* What repair holds after the messages in W.
AccOK(l, acc, W) ==
  /\ acc = [out |-> acc.out, dirty |-> acc.dirty, group |-> acc.group]
  /\ Sound(l, acc.out)
  /\ Kept(acc.out) \subseteq W
  /\ acc.group # NoGroup => GroupOK(l, acc.group, W)
  /\ \A i \in W : \/ i \in Kept(acc.out)
                  \/ Droppable(l, i)
                  \/ acc.group # NoGroup /\ (i = acc.group.at \/ i \in Range(acc.group.matched))

\* Records joined keep what both keep.
LEMMA KeptConcat ==
  ASSUME NEW S, NEW u \in Seq(S), NEW v \in Seq(S)
  PROVE  Kept(u \o v) = Kept(u) \union Kept(v)
<1> DEFINE w == u \o v
<1>1. /\ w \in Seq(S) /\ Len(w) = Len(u) + Len(v)
      /\ \A j \in 1..Len(u) : w[j] = u[j]
      /\ \A j \in 1..Len(v) : w[Len(u) + j] = v[j]
  BY ConcatParts
<1> HIDE DEF w
<1>2. PICK p \in Nat, q \in Nat : p = Len(u) /\ q = Len(v)
  OBVIOUS
<1>3. DOMAIN w = 1..(p + q) /\ DOMAIN u = 1..p /\ DOMAIN v = 1..q
  BY <1>1, <1>2
<1>4. \A k \in 1..p : k \in 1..(p + q)
  BY <1>2
<1>5. \A k \in 1..q : p + k \in 1..(p + q)
  BY <1>2
<1>6. ASSUME NEW k \in 1..(p + q) PROVE w[k].at \in Kept(u) \union Kept(v)
  <2>1. CASE k <= p
    <3>1. k \in 1..p
      BY <2>1
    <3>2. QED  BY <1>1, <1>2, <1>3, <3>1 DEF Kept
  <2>2. CASE ~(k <= p)
    <3>1. PICK i \in Nat : i = k - p
      BY <2>2
    <3>2. i \in 1..q /\ p + i = k
      BY <2>2, <3>1
    <3>3. w[k] = v[i]
      BY <1>1, <1>2, <3>2
    <3>4. QED  BY <1>3, <3>2, <3>3 DEF Kept
  <2>3. QED  BY <2>1, <2>2
<1>7. ASSUME NEW k \in 1..p PROVE u[k].at \in Kept(w)
  BY <1>1, <1>2, <1>3, <1>4 DEF Kept
<1>8. ASSUME NEW k \in 1..q PROVE v[k].at \in Kept(w)
  <2>1. w[p + k] = v[k] /\ p + k \in DOMAIN w
    BY <1>1, <1>2, <1>3, <1>5
  <2>2. QED  BY <2>1 DEF Kept
<1>9. Kept(w) \subseteq Kept(u) \union Kept(v)
  BY <1>3, <1>6 DEF Kept
<1>10. Kept(u) \union Kept(v) \subseteq Kept(w)
  <2>1. Kept(u) \subseteq Kept(w)
    BY <1>3, <1>7 DEF Kept
  <2>2. Kept(v) \subseteq Kept(w)
    BY <1>3, <1>8 DEF Kept
  <2>3. QED  BY <2>1, <2>2
<1>11. QED  BY <1>9, <1>10 DEF w

\* A call names the place of its message.
LEMMA CallsAre ==
  ASSUME NEW l, LogOK(l), NEW i \in 1..Len(l), NEW c \in CallsOf(l, i)
  PROVE  c \in Nat \X Nat /\ c[1] = i /\ c # NoCall
<1>1. Len(l[i].calls) \in Nat
  BY DEF LogOK, Messages
<1>2. PICK k \in 1..Len(l[i].calls) : c = <<i, k>>
  BY DEF CallsOf
<1>3. k \in Nat /\ i \in Nat /\ i # 0
  BY <1>1
<1>4. QED  BY <1>2, <1>3 DEF NoCall

\* A message that asks for nothing, by itself.
LEMMA SingleSound ==
  ASSUME NEW l, LogOK(l), NEW i \in 1..Len(l), NEW role \in Kinds, role # "tool"
  PROVE  /\ Sound(l, <<Record(i, role, {}, NoCall)>>)
         /\ Kept(<<Record(i, role, {}, NoCall)>>) = {i}
<1> DEFINE rec == Record(i, role, {}, NoCall)
           R == <<rec>>
<1>1. rec.at = i /\ rec.role = role /\ rec.calls = {} /\ rec.call = NoCall
  BY DEF Record
<1>2. rec \in RecordSet(l)
  BY FrameTyped DEF Record, RecordSet
<1> HIDE DEF rec
<1>3. R \in Seq(RecordSet(l)) /\ Len(R) = 1 /\ R[1] = rec /\ DOMAIN R = {1}
  BY <1>2
<1> HIDE DEF R
<1>4. IsFiniteSet(rec.calls)
  BY <1>1, FS_EmptySet
<1>5. OneRecord(l, rec)
  BY <1>1, <1>4 DEF OneRecord
<1>6. Followed(l, R, 1)
  BY <1>1, <1>3 DEF Followed
<1>7. AskedFor(R, 1)
  BY <1>1, <1>3 DEF AskedFor
<1>8. Sound(l, R)
  <2>1. \A k \in 1..Len(R) : k = 1
    BY <1>3
  <2>2. QED  BY <1>3, <1>5, <1>6, <1>7, <2>1 DEF Sound
<1>9. Kept(R) = {i}
  BY <1>1, <1>3 DEF Kept
<1>10. QED  BY <1>8, <1>9 DEF R, rec

\* A set that another is mapped onto one to one has its size.
LEMMA DistinctImage ==
  ASSUME NEW S, IsFiniteSet(S), NEW T, NEW f \in [S -> T],
         \A j, k \in S : f[j] = f[k] => j = k, \A t \in T : \E k \in S : f[k] = t
  PROVE  IsFiniteSet(T) /\ Cardinality(T) = Cardinality(S)
<1>1. f \in Injection(S, T) /\ f \in Surjection(S, T)
  BY DEF Injection, Surjection, IsInjective
<1>2. ExistsBijection(S, T)
  BY <1>1 DEF ExistsBijection, Bijection
<1>3. QED  BY <1>2, FS_Bijection

\* An interval has its length.
LEMMA IntervalSize ==
  ASSUME NEW n \in Nat
  PROVE  IsFiniteSet(1..n) /\ Cardinality(1..n) = n
<1>1. IsFiniteSet(1..n) /\ Cardinality(1..n) = IF 1 > n THEN 0 ELSE n - 1 + 1
  BY FS_Interval
<1>2. QED  BY <1>1

\* The calls of the results at the places of rs.
Asked(l, rs) == {l[rs[k]].call : k \in 1..Len(rs)}

\* A message with its calls cut to those of some results, and these results.
Block(l, a, rs) ==
  <<Record(a, "assistant", Asked(l, rs), NoCall)>> \o [k \in DOMAIN rs |-> ToolRecord(l, rs[k])]

BlockOK(l, a, rs) ==
  /\ a \in 1..Len(l) /\ rs \in Seq(1..Len(l))
  /\ rs # <<>> => l[a].kind \in {"calls", "tool"}
  /\ \A k \in 1..Len(rs) : /\ l[rs[k]].kind = "tool"
                           /\ rs[k] = a \/ l[rs[k]].call[1] = a
  /\ \A j, k \in 1..Len(rs) : rs[j] = rs[k] => j = k

\* A result names a call of an earlier message.
LEMMA ToolCallIs ==
  ASSUME NEW l, LogOK(l), NEW i \in 1..Len(l), l[i].kind = "tool"
  PROVE  /\ l[i].call \in Nat \X Nat /\ l[i].call # NoCall
         /\ l[i].call[1] \in 1..(i - 1) /\ l[l[i].call[1]].kind = "calls"
         /\ l[i].call \in CallsOf(l, l[i].call[1])
<1>1. PICK g \in 1..(i - 1) : l[g].kind = "calls" /\ l[i].call \in CallsOf(l, g)
  BY DEF LogOK, Answers
<1>2. g \in 1..Len(l)
  BY DEF LogOK
<1>3. l[i].call \in Nat \X Nat /\ l[i].call[1] = g /\ l[i].call # NoCall
  BY <1>1, <1>2, CallsAre
<1>4. QED  BY <1>1, <1>3

\* The elements of a block.
LEMMA BlockIs ==
  ASSUME NEW l, LogOK(l), NEW a, NEW rs, BlockOK(l, a, rs)
  PROVE  /\ Block(l, a, rs) \in Seq(RecordSet(l))
         /\ Len(Block(l, a, rs)) = 1 + Len(rs)
         /\ Block(l, a, rs)[1] = Record(a, "assistant", Asked(l, rs), NoCall)
         /\ \A k \in 1..Len(rs) : Block(l, a, rs)[1 + k] = ToolRecord(l, rs[k])
<1> DEFINE u == <<Record(a, "assistant", Asked(l, rs), NoCall)>>
           v == [k \in DOMAIN rs |-> ToolRecord(l, rs[k])]
<1>1. rs \in Seq(1..Len(l)) /\ DOMAIN rs = 1..Len(rs) /\ Len(rs) \in Nat /\ a \in 1..Len(l)
  BY DEF BlockOK
<1>2. \A k \in 1..Len(rs) : rs[k] \in 1..Len(l) /\ l[rs[k]].call \in Nat \X Nat
  <2> TAKE k \in 1..Len(rs)
  <2>1. rs[k] \in 1..Len(l) /\ l[rs[k]].kind = "tool"
    BY <1>1 DEF BlockOK
  <2>2. QED  BY <2>1, ToolCallIs
<1>3. Asked(l, rs) \subseteq Nat \X Nat
  BY <1>2 DEF Asked
<1>4. Record(a, "assistant", Asked(l, rs), NoCall) \in RecordSet(l)
  BY <1>1, <1>3, FrameTyped DEF Record, RecordSet, Kinds
<1>5. u \in Seq(RecordSet(l))
  BY <1>4
<1>6. \A k \in 1..Len(rs) : ToolRecord(l, rs[k]) \in RecordSet(l)
  BY <1>2 DEF ToolRecord, Record, RecordSet, Kinds
<1>7. v \in [1..Len(rs) -> RecordSet(l)]
  BY <1>1, <1>6
<1>8. v \in Seq(RecordSet(l)) /\ Len(v) = Len(rs)
  BY <1>1, <1>7
<1>9. \A k \in 1..Len(rs) : v[k] = ToolRecord(l, rs[k])
  BY <1>1
<1>10. Len(u) = 1 /\ u[1] = Record(a, "assistant", Asked(l, rs), NoCall)
  OBVIOUS
<1>11. Block(l, a, rs) = u \o v
  BY DEF Block
<1> HIDE DEF u, v
<1> DEFINE w == u \o v
<1>12. /\ w \in Seq(RecordSet(l)) /\ Len(w) = Len(u) + Len(v)
       /\ \A j \in 1..Len(u) : w[j] = u[j]
       /\ \A j \in 1..Len(v) : w[Len(u) + j] = v[j]
  <2> DEFINE S == RecordSet(l)
  <2>1. u \in Seq(S) /\ v \in Seq(S)
    BY <1>5, <1>8
  <2> HIDE DEF S
  <2>2. /\ w \in Seq(S) /\ Len(w) = Len(u) + Len(v)
        /\ \A j \in 1..Len(u) : w[j] = u[j]
        /\ \A j \in 1..Len(v) : w[Len(u) + j] = v[j]
    BY <2>1, ConcatParts
  <2>3. QED  BY <2>2 DEF S
<1> HIDE DEF w
<1>13. w[1] = Record(a, "assistant", Asked(l, rs), NoCall)
  <2>1. 1 \in 1..Len(u)
    BY <1>10
  <2>2. QED  BY <1>10, <1>12, <2>1
<1>14. \A k \in 1..Len(rs) : w[1 + k] = ToolRecord(l, rs[k])
  BY <1>8, <1>9, <1>10, <1>12
<1>15. Len(w) = 1 + Len(rs)
  BY <1>8, <1>10, <1>12
<1>16. QED  BY <1>11, <1>12, <1>13, <1>14, <1>15 DEF w

\* A message with the calls that have a result, and these results, are sound records.
LEMMA BlockSound ==
  ASSUME NEW l, LogOK(l), NEW a, NEW rs, BlockOK(l, a, rs)
  PROVE  Sound(l, Block(l, a, rs)) /\ Kept(Block(l, a, rs)) = {a} \union Range(rs)
<1> DEFINE R == Block(l, a, rs)
           C == Asked(l, rs)
<1>1. rs \in Seq(1..Len(l)) /\ DOMAIN rs = 1..Len(rs) /\ Len(rs) \in Nat
  BY DEF BlockOK
<1>2. /\ R \in Seq(RecordSet(l)) /\ Len(R) = 1 + Len(rs) /\ DOMAIN R = 1..(1 + Len(rs))
      /\ R[1] = Record(a, "assistant", C, NoCall)
      /\ \A k \in 1..Len(rs) : R[1 + k] = ToolRecord(l, rs[k])
  <2>1. /\ R \in Seq(RecordSet(l)) /\ Len(R) = 1 + Len(rs)
        /\ R[1] = Record(a, "assistant", C, NoCall)
        /\ \A k \in 1..Len(rs) : R[1 + k] = ToolRecord(l, rs[k])
    BY BlockIs
  <2> HIDE DEF R, C
  <2>2. DOMAIN R = 1..(1 + Len(rs))
    BY <2>1
  <2>3. QED  BY <2>1, <2>2
<1>3. /\ R[1].at = a /\ R[1].role = "assistant" /\ R[1].calls = C /\ R[1].call = NoCall
  BY <1>2 DEF Record
<1>4. \A k \in 1..Len(rs) : /\ R[1 + k].at = rs[k] /\ R[1 + k].role = "tool"
                            /\ R[1 + k].calls = {} /\ R[1 + k].call = l[rs[k]].call
  <2> TAKE k \in 1..Len(rs)
  <2>1. R[1 + k] = Record(rs[k], "tool", {}, l[rs[k]].call)
    BY <1>2 DEF ToolRecord
  <2> HIDE DEF R, C
  <2>2. QED  BY <2>1 DEF Record
<1>5. \A k \in 1..Len(rs) : /\ rs[k] \in 1..Len(l) /\ l[rs[k]].kind = "tool"
                            /\ l[rs[k]].call \in Nat \X Nat /\ l[rs[k]].call # NoCall
  <2> TAKE k \in 1..Len(rs)
  <2>1. rs[k] \in 1..Len(l) /\ l[rs[k]].kind = "tool"
    BY <1>1 DEF BlockOK
  <2>2. QED  BY <2>1, ToolCallIs
<1>6. IsFiniteSet(C) /\ Cardinality(C) = Len(rs)
  <2> DEFINE f == [k \in 1..Len(rs) |-> l[rs[k]].call]
             S == 1..Len(rs)
  <2>1. f \in [S -> C]
    BY DEF Asked
  <2>2. \A t \in C : \E k \in S : f[k] = t
    BY DEF Asked
  <2>3. ASSUME NEW j \in S, NEW k \in S, f[j] = f[k] PROVE j = k
    <3>1. l[rs[j]].call = l[rs[k]].call
      BY <2>3
    <3>2. rs[j] = rs[k]
      BY <1>5, <3>1 DEF LogOK, AnswersOnce
    <3>3. QED  BY <3>2 DEF BlockOK
  <2>4. IsFiniteSet(S) /\ Cardinality(S) = Len(rs)
    BY <1>1, IntervalSize
  <2> HIDE DEF f, S, C
  <2>5. \A j, k \in S : f[j] = f[k] => j = k
    BY <2>3
  <2>6. IsFiniteSet(C) /\ Cardinality(C) = Cardinality(S)
    BY <2>1, <2>2, <2>4, <2>5, DistinctImage
  <2>7. QED  BY <2>4, <2>6
<1> HIDE DEF R
<1>7. OneRecord(l, R[1])
  <2>1. C # {} => rs # <<>>
    BY <1>1 DEF Asked
  <2>2. NoCall \notin C
    BY <1>5 DEF Asked
  <2>3. C # {} => l[a].kind \in {"calls", "tool"}
    BY <2>1 DEF BlockOK
  <2> HIDE DEF C
  <2>4. QED  BY <1>3, <1>6, <2>2, <2>3 DEF OneRecord
<1>8. \A k \in 1..Len(rs) : OneRecord(l, R[1 + k])
  <2> TAKE k \in 1..Len(rs)
  <2>1. IsFiniteSet(R[1 + k].calls)
    BY <1>4, FS_EmptySet
  <2>2. QED  BY <1>4, <1>5, <2>1 DEF OneRecord
<1>9. Followed(l, R, 1)
  <2>1. 1 + Cardinality(R[1].calls) <= Len(R)
    BY <1>1, <1>2, <1>3, <1>6
  <2>2. {R[1 + j].call : j \in 1..Len(rs)} = C
    <3>1. \A j \in 1..Len(rs) : R[1 + j].call = l[rs[j]].call
      BY <1>4
    <3>2. {R[1 + j].call : j \in 1..Len(rs)} = {l[rs[j]].call : j \in 1..Len(rs)}
      BY <3>1
    <3>3. QED  BY <3>2 DEF Asked
  <2>3. \A j \in 1..Len(rs) : R[1 + j].role = "tool" /\ Near(l, R[1], R[1 + j])
    BY <1>3, <1>4 DEF Near, BlockOK
  <2> HIDE DEF C
  <2>4. QED  BY <1>3, <1>6, <2>1, <2>2, <2>3 DEF Followed
<1>10. \A k \in 1..Len(rs) : Followed(l, R, 1 + k)
  BY <1>4 DEF Followed
<1>11. AskedFor(R, 1)
  BY <1>3 DEF AskedFor
<1>12. ASSUME NEW k \in 1..Len(rs) PROVE AskedFor(R, 1 + k)
  <2>1. R[1 + k].call \in C
    BY <1>4 DEF Asked
  <2>2. 1 \in 1..((1 + k) - 1)
    BY <1>1
  <2>3. R[1 + k].call \in R[1].calls
    BY <1>3, <2>1
  <2>4. 1 + k <= 1 + Cardinality(R[1].calls)
    BY <1>1, <1>3, <1>6
  <2> HIDE DEF C
  <2>5. QED  BY <2>2, <2>3, <2>4 DEF AskedFor
<1>13. \A i \in 1..Len(R) : i = 1 \/ \E k \in 1..Len(rs) : i = 1 + k
  <2> TAKE i \in 1..Len(R)
  <2>1. i = 1 \/ (i - 1 \in 1..Len(rs) /\ i = 1 + (i - 1))
    BY <1>1, <1>2
  <2>2. QED  BY <2>1
<1>14. Sound(l, R)
  <2>1. ASSUME NEW i \in 1..Len(R)
        PROVE  OneRecord(l, R[i]) /\ Followed(l, R, i) /\ AskedFor(R, i)
    BY <1>7, <1>8, <1>9, <1>10, <1>11, <1>12, <1>13
  <2>2. QED  BY <1>2, <2>1 DEF Sound
<1>15. Kept(R) = {a} \union Range(rs)
  <2>1. ASSUME NEW i \in DOMAIN R PROVE R[i].at \in {a} \union Range(rs)
    <3>1. i = 1 \/ \E k \in 1..Len(rs) : i = 1 + k
      BY <1>2, <1>13
    <3>2. CASE i = 1
      BY <1>3, <3>2
    <3>3. ASSUME NEW k \in 1..Len(rs), i = 1 + k PROVE R[i].at \in Range(rs)
      <4>1. R[i].at = rs[k]
        BY <1>4, <3>3
      <4>2. QED  BY <1>1, <4>1 DEF Range
    <3>4. QED  BY <3>1, <3>2, <3>3
  <2>2. a \in Kept(R)
    <3>1. 1 \in DOMAIN R
      BY <1>1, <1>2
    <3>2. QED  BY <1>3, <3>1 DEF Kept
  <2>3. \A k \in 1..Len(rs) : rs[k] \in Kept(R)
    <3> TAKE k \in 1..Len(rs)
    <3>1. 1 + k \in DOMAIN R
      BY <1>1, <1>2
    <3>2. QED  BY <1>4, <3>1 DEF Kept
  <2>4. QED  BY <1>1, <2>1, <2>2, <2>3 DEF Kept, Range
<1>16. QED  BY <1>14, <1>15 DEF R

\* Two items joined are a pair.
LEMMA PairIs ==
  ASSUME NEW x, NEW y
  PROVE  <<x>> \o <<y>> = <<x, y>>
<1> DEFINE S == {x, y}
           u == <<x>>
           v == <<y>>
           s == <<x, y>>
<1>1. u \in Seq(S) /\ Len(u) = 1 /\ u[1] = x
  OBVIOUS
<1>2. v \in Seq(S) /\ Len(v) = 1 /\ v[1] = y
  OBVIOUS
<1>3. s \in Seq(S)
  OBVIOUS
<1>4. Len(s) = 2 /\ s[1] = x /\ s[2] = y
  OBVIOUS
<1> HIDE DEF u, v, s, S
<1> DEFINE w == u \o v
<1>5. /\ w \in Seq(S) /\ Len(w) = Len(u) + Len(v)
      /\ \A i \in 1..Len(u) : w[i] = u[i]
      /\ \A i \in 1..Len(v) : w[Len(u) + i] = v[i]
  BY <1>1, <1>2, ConcatParts
<1> HIDE DEF w
<1>6. Len(w) = 2 /\ w[1] = x /\ w[2] = y
  BY <1>1, <1>2, <1>5
<1>7. \A i \in 1..Len(w) : i = 1 \/ i = 2
  BY <1>6
<1>8. w = s
  BY <1>3, <1>4, <1>5, <1>6, <1>7, SeqEqual
<1>9. QED  BY <1>8 DEF u, v, s, w

\* After a message: what repair holds when it awaits nothing.
Settled(l, a, W) == AccOK(l, a, W) /\ a.group = NoGroup

\* Flush leaves sound records and no open message.
LEMMA FlushSettles ==
  ASSUME NEW l, LogOK(l), NEW W \in SUBSET (1..Len(l)), NEW acc, AccOK(l, acc, W)
  PROVE  Settled(l, Flush(l, acc), W)
<1> DEFINE g == acc.group
           a == Flush(l, acc)
<1>1. CASE g = NoGroup
  <2>1. a = acc
    BY <1>1 DEF Flush
  <2>2. QED  BY <1>1, <2>1 DEF Settled
<1>2. CASE g # NoGroup
  <2>1. GroupOK(l, g, W)
    BY <1>2 DEF AccOK
  <2>2. /\ g.at \in W /\ g.at \in 1..Len(l) /\ l[g.at].kind = "calls"
        /\ g.matched \in Seq(1..Len(l)) /\ Len(g.matched) \in Nat
        /\ DOMAIN g.matched = 1..Len(g.matched)
    BY <2>1 DEF GroupOK
  <2>3. \A k \in 1..Len(g.matched) : /\ g.matched[k] \in W
                                     /\ l[g.matched[k]].kind = "tool"
                                     /\ l[g.matched[k]].call[1] = g.at
    <3> TAKE k \in 1..Len(g.matched)
    <3>1. l[g.matched[k]].call \in CallsOf(l, g.at)
      BY <2>1 DEF GroupOK
    <3>2. l[g.matched[k]].call[1] = g.at
      BY <2>2, <3>1, CallsAre
    <3>3. QED  BY <2>1, <3>2 DEF GroupOK
  <2>4. BlockOK(l, g.at, g.matched)
    <3>1. \A j, k \in 1..Len(g.matched) : g.matched[j] = g.matched[k] => j = k
      BY <2>1 DEF GroupOK
    <3>2. QED  BY <2>2, <2>3, <3>1 DEF BlockOK
  <2> DEFINE kept == {l[i].call : i \in Range(g.matched)}
             stays == kept # {} \/ l[g.at].text
             block == <<Record(g.at, "assistant", kept, NoCall)>>
                        \o [k \in DOMAIN g.matched |-> ToolRecord(l, g.matched[k])]
             out == acc.out \o (IF stays THEN block ELSE <<>>)
             changed == acc.dirty \/ kept # CallsOf(l, g.at)
  <2>5. a = [out |-> out, dirty |-> changed, group |-> NoGroup]
    BY <1>2 DEF Flush
  <2> HIDE DEF changed, out, a
  <2>6. a = [out |-> a.out, dirty |-> a.dirty, group |-> a.group] /\ a.group = NoGroup
    BY <2>5
  <2>7. a.out = acc.out \o (IF stays THEN block ELSE <<>>)
    BY <2>5 DEF out
  <2>8. kept = Asked(l, g.matched)
    BY <2>2 DEF Asked, Range
  <2>9. block = Block(l, g.at, g.matched)
    BY <2>8 DEF Block
  <2>10. Sound(l, acc.out) /\ acc.out \in Seq(RecordSet(l))
    BY DEF AccOK, Sound
  <2>11. Range(g.matched) \subseteq W
    BY <2>2, <2>3 DEF Range
  <2> HIDE DEF g, block, kept
  <2>12. CASE stays
    <3>1. a.out = acc.out \o block
      BY <2>7, <2>12
    <3>2. Sound(l, block) /\ Kept(block) = {g.at} \union Range(g.matched)
      BY <2>4, <2>9, BlockSound
    <3>3. Sound(l, a.out)
      BY <2>10, <3>1, <3>2, SoundConcat
    <3>4. block \in Seq(RecordSet(l))
      BY <3>2 DEF Sound
    <3>5. Kept(a.out) = Kept(acc.out) \union ({g.at} \union Range(g.matched))
      BY <2>10, <3>1, <3>2, <3>4, KeptConcat
    <3>6. Kept(a.out) \subseteq W
      BY <2>2, <2>11, <3>5 DEF AccOK
    <3>7. \A i \in W : i \in Kept(a.out) \/ Droppable(l, i)
      BY <3>5 DEF AccOK, g
    <3>8. QED  BY <2>6, <3>3, <3>6, <3>7 DEF Settled, AccOK, a
  <2>13. CASE ~stays
    <3>1. a.out = acc.out \o <<>>
      BY <2>7, <2>13
    <3>2. a.out = acc.out
      BY <2>10, <3>1
    <3>3. Range(g.matched) = {} /\ ~l[g.at].text
      BY <2>13 DEF kept
    <3>4. \A i \in W : i \in Kept(a.out) \/ Droppable(l, i)
      BY <2>2, <3>2, <3>3 DEF AccOK, Droppable, g
    <3>5. Sound(l, a.out) /\ Kept(a.out) \subseteq W
      BY <2>10, <3>2 DEF AccOK
    <3>6. QED  BY <2>6, <3>4, <3>5 DEF Settled, AccOK, a
  <2>14. QED  BY <2>12, <2>13
<1>3. QED  BY <1>1, <1>2

\* More records that stem from a message i.
LEMMA Extended ==
  ASSUME NEW l, LogOK(l), NEW W \in SUBSET (1..Len(l)), NEW i \in 1..Len(l),
         NEW a, Settled(l, a, W), NEW R, Sound(l, R), Kept(R) = {i},
         NEW b, b = [out |-> b.out, dirty |-> b.dirty, group |-> b.group],
         b.out = a.out \o R, b.group = a.group
  PROVE  AccOK(l, b, W \union {i})
<1>1. /\ Sound(l, a.out) /\ Kept(a.out) \subseteq W /\ a.group = NoGroup
      /\ \A j \in W : j \in Kept(a.out) \/ Droppable(l, j)
  BY DEF Settled, AccOK
<1>2. Sound(l, b.out)
  BY <1>1, SoundConcat
<1>3. Kept(b.out) = Kept(a.out) \union {i}
  <2>1. a.out \in Seq(RecordSet(l)) /\ R \in Seq(RecordSet(l))
    BY <1>1 DEF Sound
  <2>2. Kept(a.out \o R) = Kept(a.out) \union Kept(R)
    BY <2>1, KeptConcat
  <2>3. QED  BY <2>2
<1>4. QED  BY <1>1, <1>2, <1>3 DEF AccOK

\* Scanning one message more keeps the records sound.
LEMMA ScanKeeps ==
  ASSUME NEW l, LogOK(l), NEW W \in SUBSET (1..Len(l)), NEW i \in 1..Len(l), i \notin W,
         NEW acc, AccOK(l, acc, W)
  PROVE  AccOK(l, Scan(l, acc, i), W \union {i})
<1> DEFINE a == Flush(l, acc)
           b == Scan(l, acc, i)
           kind == l[i].kind
           g == acc.group
<1>1. Settled(l, a, W)
  BY FlushSettles
<1>2. /\ Sound(l, a.out) /\ Kept(a.out) \subseteq W /\ a.group = NoGroup
      /\ a = [out |-> a.out, dirty |-> a.dirty, group |-> a.group]
      /\ \A j \in W : j \in Kept(a.out) \/ Droppable(l, j)
  BY <1>1 DEF Settled, AccOK
<1>3. i \in Nat /\ i # 0 /\ kind \in Kinds
  <2>1. l \in Seq(Messages)
    BY DEF LogOK
  <2>2. l[i] \in Messages
    BY <2>1
  <2>3. QED  BY <2>1, <2>2 DEF Messages
<1>4. CASE kind = "calls"
  <2>1. b = [a EXCEPT !.group = [at |-> i, matched |-> <<>>]]
    BY <1>4 DEF Scan
  <2> HIDE DEF a
  <2>2. b = [out |-> a.out, dirty |-> a.dirty, group |-> [at |-> i, matched |-> <<>>]]
    BY <1>2, <2>1
  <2> HIDE DEF b
  <2>3. GroupOK(l, [at |-> i, matched |-> <<>>], W \union {i})
    BY <1>4 DEF GroupOK
  <2>4. [at |-> i, matched |-> <<>>] # NoGroup
    BY <1>3 DEF NoGroup
  <2>5. b.group.at = i
    BY <2>2
  <2>6. QED  BY <1>2, <2>2, <2>3, <2>4, <2>5 DEF AccOK, b
<1>5. CASE kind = "tool" /\ Awaited(l, acc, i)
  <2> DEFINE h == [at |-> g.at, matched |-> Append(g.matched, i)]
  <2>1. b = [acc EXCEPT !.group = h]
    BY <1>5 DEF Scan
  <2>2. acc = [out |-> acc.out, dirty |-> acc.dirty, group |-> acc.group]
    BY DEF AccOK
  <2>3. b = [out |-> acc.out, dirty |-> acc.dirty, group |-> h]
    BY <2>1, <2>2
  <2>4. g # NoGroup /\ l[i].call \in CallsOf(l, g.at)
    BY <1>5 DEF Awaited
  <2>5. GroupOK(l, g, W)
    BY <2>4 DEF AccOK
  <2>6. g.matched \in Seq(1..Len(l)) /\ Len(g.matched) \in Nat
    BY <2>5 DEF GroupOK
  <2>7. /\ h.matched \in Seq(1..Len(l)) /\ Len(h.matched) = Len(g.matched) + 1
        /\ h.matched[Len(g.matched) + 1] = i
        /\ \A k \in 1..Len(g.matched) : h.matched[k] = g.matched[k]
    BY <2>6
  <2>8. h.at = g.at
    OBVIOUS
  <2> HIDE DEF h, g, b
  <2>9. \A k \in 1..Len(h.matched) : k \in 1..Len(g.matched) \/ k = Len(g.matched) + 1
    BY <2>6, <2>7
  <2>10. /\ g.at \in W /\ g.at \in 1..Len(l) /\ l[g.at].kind = "calls"
         /\ \A k \in 1..Len(g.matched) : /\ g.matched[k] \in W
                                         /\ l[g.matched[k]].kind = "tool"
                                         /\ l[g.matched[k]].call \in CallsOf(l, g.at)
         /\ \A j, k \in 1..Len(g.matched) : g.matched[j] = g.matched[k] => j = k
    BY <2>5 DEF GroupOK
  <2>11. \A k \in 1..Len(h.matched) : /\ h.matched[k] \in W \union {i}
                                      /\ l[h.matched[k]].kind = "tool"
                                      /\ l[h.matched[k]].call \in CallsOf(l, h.at)
    <3> TAKE k \in 1..Len(h.matched)
    <3>1. CASE k \in 1..Len(g.matched)
      BY <2>7, <2>8, <2>10, <3>1
    <3>2. CASE k = Len(g.matched) + 1
      BY <1>5, <2>4, <2>7, <2>8, <3>2
    <3>3. QED  BY <2>9, <3>1, <3>2
  <2>12. \A j, k \in 1..Len(h.matched) : h.matched[j] = h.matched[k] => j = k
    <3> SUFFICES ASSUME NEW j \in 1..Len(h.matched), NEW k \in 1..Len(h.matched),
                        h.matched[j] = h.matched[k]
                 PROVE  j = k
      OBVIOUS
    <3>1. CASE j \in 1..Len(g.matched) /\ k \in 1..Len(g.matched)
      BY <2>7, <2>10, <3>1
    <3>2. CASE j \in 1..Len(g.matched) /\ k = Len(g.matched) + 1
      <4>1. h.matched[j] \in W /\ h.matched[k] = i
        BY <2>7, <2>10, <3>2
      <4>2. QED  BY <4>1
    <3>3. CASE k \in 1..Len(g.matched) /\ j = Len(g.matched) + 1
      <4>1. h.matched[k] \in W /\ h.matched[j] = i
        BY <2>7, <2>10, <3>3
      <4>2. QED  BY <4>1
    <3>4. QED  BY <2>9, <3>1, <3>2, <3>3
  <2>13. GroupOK(l, h, W \union {i})
    BY <2>7, <2>8, <2>10, <2>11, <2>12 DEF GroupOK
  <2>14. i \in Range(h.matched) /\ Range(g.matched) \subseteq Range(h.matched)
    <3>1. DOMAIN h.matched = 1..(Len(g.matched) + 1) /\ DOMAIN g.matched = 1..Len(g.matched)
      BY <2>6, <2>7
    <3>2. Len(g.matched) + 1 \in DOMAIN h.matched
      BY <2>6, <3>1
    <3>3. \A k \in 1..Len(g.matched) : k \in DOMAIN h.matched
      BY <2>6, <3>1
    <3>4. QED  BY <2>7, <3>1, <3>2, <3>3 DEF Range
  <2>15. h # NoGroup
    <3>1. h.at # 0
      BY <2>8, <2>10
    <3>2. QED  BY <3>1 DEF NoGroup
  <2>16. b.out = acc.out /\ b.group = h /\ b.dirty = acc.dirty
    BY <2>3
  <2>17. Sound(l, b.out) /\ Kept(b.out) \subseteq W \union {i}
    BY <2>16 DEF AccOK
  <2>18. \A j \in W \union {i} : \/ j \in Kept(b.out)
                                 \/ Droppable(l, j)
                                 \/ j = h.at \/ j \in Range(h.matched)
    BY <2>8, <2>14, <2>16 DEF AccOK, g
  <2>19. QED  BY <2>3, <2>13, <2>15, <2>16, <2>17, <2>18 DEF AccOK, b
<1>6. CASE kind = "tool" /\ ~Awaited(l, acc, i)
  <2> DEFINE asked == Record(i, "assistant", {l[i].call}, NoCall)
             R == <<asked, ToolRecord(l, i)>>
  <2>1. b = Orphan(l, acc, i)
    BY <1>6 DEF Scan
  <2>2. b = [out |-> a.out \o R, dirty |-> TRUE, group |-> a.group]
    BY <2>1 DEF Orphan
  <2>3. R = Block(l, i, <<i>>)
    <3>1. Asked(l, <<i>>) = {l[i].call}
      BY DEF Asked
    <3>2. [k \in DOMAIN <<i>> |-> ToolRecord(l, <<i>>[k])] = <<ToolRecord(l, i)>>
      OBVIOUS
    <3>3. Block(l, i, <<i>>) = <<asked>> \o <<ToolRecord(l, i)>>
      BY <3>1, <3>2 DEF Block
    <3> DEFINE result == ToolRecord(l, i)
    <3> HIDE DEF asked, result
    <3>4. <<asked>> \o <<result>> = <<asked, result>>
      BY PairIs
    <3>5. QED  BY <3>3, <3>4 DEF result
  <2>4. BlockOK(l, i, <<i>>)
    BY <1>6 DEF BlockOK
  <2>5. Range(<<i>>) = {i}
    BY DEF Range
  <2> HIDE DEF R
  <2>6. Sound(l, R) /\ Kept(R) = {i}
    BY <2>3, <2>4, <2>5, BlockSound
  <2> HIDE DEF a
  <2>7. b.out = a.out \o R /\ b.group = a.group
        /\ b = [out |-> b.out, dirty |-> b.dirty, group |-> b.group]
    BY <2>2
  <2> HIDE DEF b
  <2>8. AccOK(l, b, W \union {i})
    BY <1>1, <2>6, <2>7, Extended
  <2>9. QED  BY <2>8 DEF b
<1>7. CASE kind # "calls" /\ kind # "tool"
  <2> DEFINE rec == Record(i, kind, {}, NoCall)
             R == <<rec>>
  <2>1. b = [a EXCEPT !.out = Append(@, rec)]
    BY <1>7 DEF Scan
  <2>2. Sound(l, R) /\ Kept(R) = {i}
    BY <1>3, <1>7, SingleSound
  <2>3. rec \in RecordSet(l)
    BY <1>3, FrameTyped DEF Record, RecordSet
  <2> HIDE DEF a, rec
  <2>4. b = [out |-> Append(a.out, rec), dirty |-> a.dirty, group |-> a.group]
    BY <1>2, <2>1
  <2>5. Append(a.out, rec) = a.out \o R
    <3>1. a.out \in Seq(RecordSet(l))
      BY <1>2 DEF Sound
    <3>2. QED  BY <2>3, <3>1
  <2>6. b.out = a.out \o R /\ b.group = a.group
        /\ b = [out |-> b.out, dirty |-> b.dirty, group |-> b.group]
    BY <2>4, <2>5
  <2> HIDE DEF b, R
  <2>7. AccOK(l, b, W \union {i})
    BY <1>1, <2>2, <2>6, Extended
  <2>8. QED  BY <2>7 DEF b
<1>8. QED  BY <1>4, <1>5, <1>6, <1>7

\* The messages of the window up to k.
Before(w, k) == {w[j] : j \in 1..k}

\* Repair starts with sound records.
LEMMA BlankOK == ASSUME NEW l PROVE AccOK(l, Blank, {})
<1>1. Sound(l, <<>>)
  BY EmptySound
<1>2. Kept(<<>>) = {}
  <2>1. DOMAIN <<>> = {}
    OBVIOUS
  <2>2. QED  BY <2>1 DEF Kept
<1>3. QED  BY <1>1, <1>2 DEF AccOK, Blank

\* So the records are sound after each message of the window.
LEMMA ScannedOK ==
  ASSUME NEW l, LogOK(l), NEW w \in Seq(1..Len(l)),
         \A j, k \in DOMAIN w : w[j] = w[k] => j = k,
         NEW f, Scanned(f, l, w)
  PROVE  \A k \in 0..Len(w) : AccOK(l, f[k], Before(w, k))
<1>1. Len(w) \in Nat /\ DOMAIN w = 1..Len(w)
  OBVIOUS
<1> DEFINE T == {m \in 0..Len(w) : ~AccOK(l, f[m], Before(w, m))}
<1>2. T = {}
  <2> SUFFICES ASSUME T # {} PROVE FALSE
    OBVIOUS
  <2>1. T \in SUBSET Nat
    BY <1>1
  <2>2. PICK m \in T : \A i \in T : m <= i
    BY <2>1, LeastNat
  <2>3. m # 0
    <3>1. f[0] = Blank
      BY DEF Scanned
    <3>2. Before(w, 0) = {}
      BY DEF Before
    <3>3. AccOK(l, f[0], Before(w, 0))
      BY <3>1, <3>2, BlankOK
    <3>4. QED  BY <2>2, <3>3
  <2>4. PICK i \in Nat : i = m - 1 /\ i + 1 = m /\ ~(m <= i) /\ i \in 0..Len(w) /\ m \in 1..Len(w)
    <3>1. /\ m - 1 \in Nat /\ (m - 1) + 1 = m /\ ~(m <= m - 1)
          /\ m - 1 \in 0..Len(w) /\ m \in 1..Len(w)
      BY <1>1, <2>3
    <3>2. QED  BY <3>1
  <2>5. AccOK(l, f[i], Before(w, i))
    BY <2>2, <2>4
  <2>6. f[m] = Scan(l, f[i], w[m])
    BY <2>4 DEF Scanned
  <2>7. w[m] \in 1..Len(l)
    BY <1>1, <2>4
  <2>8. w[m] \notin Before(w, i)
    <3> SUFFICES ASSUME NEW j \in 1..i, w[j] = w[m] PROVE FALSE
      BY DEF Before
    <3>1. j \in DOMAIN w /\ m \in DOMAIN w /\ j # m
      BY <1>1, <2>4
    <3>2. QED  BY <3>1
  <2>9. Before(w, i) \in SUBSET (1..Len(l))
    <3>1. \A j \in 1..i : w[j] \in 1..Len(l)
      BY <1>1, <2>4
    <3>2. QED  BY <3>1 DEF Before
  <2>10. AccOK(l, f[m], Before(w, i) \union {w[m]})
    BY <2>5, <2>6, <2>7, <2>8, <2>9, ScanKeeps
  <2>11. Before(w, i) \union {w[m]} = Before(w, m)
    <3>1. \A j \in 1..m : j \in 1..i \/ j = m
      BY <2>4
    <3>2. \A j \in 1..i : j \in 1..m
      BY <2>4
    <3>3. m \in 1..m
      BY <2>4
    <3>4. QED  BY <3>1, <3>2, <3>3 DEF Before
  <2>12. AccOK(l, f[m], Before(w, m))
    BY <2>10, <2>11
  <2>13. QED  BY <2>2, <2>12
<1>3. QED  BY <1>2

\* Repair answers the calls of what it keeps, and drops nothing that says
\* something.
LEMMA NormalizeRepairs ==
  ASSUME NEW l, LogOK(l), NEW w \in Seq(1..Len(l)),
         \A j, k \in DOMAIN w : w[j] = w[k] => j = k
  PROVE  /\ Sound(l, Normalize(l, w).out)
         /\ Kept(Normalize(l, w).out) \subseteq Range(w)
         /\ \A i \in Range(w) : i \in Kept(Normalize(l, w).out) \/ Droppable(l, i)
<1>1. Len(w) \in Nat /\ DOMAIN w = 1..Len(w)
  OBVIOUS
<1>2. PICK f : Scanned(f, l, w) /\ Normalize(l, w) = Flush(l, f[Len(w)])
  BY <1>1, NormalizeScans
<1>3. AccOK(l, f[Len(w)], Before(w, Len(w)))
  <2>1. Len(w) \in 0..Len(w)
    BY <1>1
  <2>2. QED  BY <1>2, <2>1, ScannedOK
<1>4. Before(w, Len(w)) = Range(w)
  BY <1>1 DEF Before, Range
<1>5. Range(w) \in SUBSET (1..Len(l))
  BY <1>1 DEF Range
<1>6. Settled(l, Normalize(l, w), Range(w))
  BY <1>2, <1>3, <1>4, <1>5, FlushSettles
<1>7. QED  BY <1>6 DEF Settled, AccOK

-----------------------------------------------------------------------------
(* Pruning keeps records sound.                                             *)

\* The records at the places in K, with the calls in c.
Cuts(R, c) == [k \in 1..Len(R) |-> [R[k] EXCEPT !.calls = c[k]]]

\* The results of the record at k.
ResultsOf(R, k) == {p \in 1..Len(R) : k < p /\ p <= k + Cardinality(R[k].calls)}

\* K and c fit: a call stays where its result stays, and a result where the
\* message with its call stays.
Fit(R, c, K) ==
  /\ K \in SUBSET (1..Len(R))
  /\ \A k \in K : c[k] = {R[p].call : p \in K \intersect ResultsOf(R, k)}
  /\ \A p \in K, j \in 1..Len(R) :
       R[p].role = "tool" /\ R[j].calls # {} /\ p \in ResultsOf(R, j) => j \in K

\* The results of a record, as the calls they answer.
LEMMA ResultsAnswer ==
  ASSUME NEW l, NEW R, Sound(l, R), NEW k \in 1..Len(R), R[k].calls # {}
  PROVE  /\ IsFiniteSet(ResultsOf(R, k))
         /\ \A p \in ResultsOf(R, k) : /\ R[p].call \in R[k].calls
                                       /\ R[p].role = "tool" /\ Near(l, R[k], R[p])
         /\ \A c \in R[k].calls : \E p \in ResultsOf(R, k) : R[p].call = c
         /\ \A p, q \in ResultsOf(R, k) : R[p].call = R[q].call => p = q
         /\ k + Cardinality(R[k].calls) <= Len(R) /\ Cardinality(R[k].calls) \in Nat
<1>1. R \in Seq(RecordSet(l)) /\ Len(R) \in Nat
  BY DEF Sound
<1> DEFINE S == ResultsOf(R, k)
           C == R[k].calls
<1>2. IsFiniteSet(C) /\ Followed(l, R, k)
  BY DEF Sound, OneRecord
<1>3. PICK n \in Nat : n = Cardinality(C)
  BY <1>2, FS_CardinalityType
<1>4. /\ k + n <= Len(R)
      /\ {R[k + j].call : j \in 1..n} = C
      /\ \A j \in 1..n : R[k + j].role = "tool" /\ Near(l, R[k], R[k + j])
  BY <1>2, <1>3 DEF Followed
<1>5. S = (k + 1)..(k + n)
  <2>1. \A p \in 1..Len(R) : (k < p /\ p <= k + n) <=> p \in (k + 1)..(k + n)
    BY <1>1
  <2>2. (k + 1)..(k + n) \subseteq 1..Len(R)
    BY <1>1, <1>4
  <2>3. S = {p \in 1..Len(R) : k < p /\ p <= k + n}
    BY <1>3 DEF ResultsOf
  <2> HIDE DEF S
  <2>4. QED  BY <2>1, <2>2, <2>3
<1>6. IsFiniteSet(S) /\ Cardinality(S) = n
  <2>1. /\ IsFiniteSet((k + 1)..(k + n))
        /\ Cardinality((k + 1)..(k + n)) = IF k + 1 > k + n THEN 0 ELSE (k + n) - (k + 1) + 1
    <3>1. k + 1 \in Int /\ k + n \in Int
      OBVIOUS
    <3>2. QED  BY <3>1, FS_Interval
  <2>2. (IF k + 1 > k + n THEN 0 ELSE (k + n) - (k + 1) + 1) = n
    OBVIOUS
  <2> HIDE DEF S
  <2>3. QED  BY <1>5, <2>1, <2>2
<1> HIDE DEF S, C
<1>7. ASSUME NEW p \in S
      PROVE  R[p].call \in C /\ R[p].role = "tool" /\ Near(l, R[k], R[p])
  <2>1. PICK j \in Nat : j = p - k /\ j \in 1..n /\ k + j = p
    <3>1. p \in (k + 1)..(k + n)
      BY <1>5
    <3>2. p - k \in 1..n /\ k + (p - k) = p
      BY <3>1
    <3>3. QED  BY <3>2
  <2>2. R[k + j].call \in C
    BY <1>4, <2>1
  <2>3. QED  BY <1>4, <2>1, <2>2
<1>8. ASSUME NEW c \in C
      PROVE  \E p \in S : R[p].call = c
  <2>1. PICK j \in 1..n : R[k + j].call = c
    BY <1>4
  <2>2. PICK p \in Nat : p = k + j
    OBVIOUS
  <2>3. p \in (k + 1)..(k + n)
    BY <2>2
  <2>4. QED  BY <1>5, <2>1, <2>2, <2>3
<1> DEFINE f == [p \in S |-> R[p].call]
<1>9. \A p, q \in S : R[p].call = R[q].call => p = q
  <2>1. f \in Surjection(S, C)
    BY <1>7, <1>8 DEF Surjection
  <2>2. Cardinality(C) = Cardinality(S)
    BY <1>3, <1>6
  <2> HIDE DEF f
  <2>3. f \in Injection(S, C)
    BY <1>6, <2>1, <2>2, FS_Surjection
  <2> USE DEF f
  <2>4. QED  BY <2>3 DEF Injection, IsInjective
<1>10. QED  BY <1>3, <1>4, <1>6, <1>7, <1>8, <1>9 DEF S, C

\* The results of a record that stay follow it at once.
LEMMA CutsFollow ==
  ASSUME NEW l, NEW R, Sound(l, R), NEW c, NEW K, Fit(R, c, K), NEW k \in K, R[k].calls # {}
  PROVE  /\ Cardinality(c[k]) \in Nat /\ Rank(K, k) \in Nat /\ Cardinality(K) \in Nat
         /\ Rank(K, k) + Cardinality(c[k]) <= Cardinality(K)
         /\ \A p \in K : p \in ResultsOf(R, k) <=>
              Rank(K, p) \in (Rank(K, k) + 1)..(Rank(K, k) + Cardinality(c[k]))
<1>1. R \in Seq(RecordSet(l)) /\ Len(R) \in Nat /\ K \in SUBSET (1..Len(R)) /\ k \in 1..Len(R)
  BY DEF Sound, Fit
<1>2. /\ IsFiniteSet(ResultsOf(R, k))
      /\ \A p, q \in ResultsOf(R, k) : R[p].call = R[q].call => p = q
      /\ k + Cardinality(R[k].calls) <= Len(R) /\ Cardinality(R[k].calls) \in Nat
  BY <1>1, ResultsAnswer
<1>3. PICK b \in Nat : b = k + Cardinality(R[k].calls) /\ b \in 1..Len(R) /\ k <= b
  <2>1. PICK n \in Nat : n = Cardinality(R[k].calls)
    BY <1>2
  <2>2. k + n \in Nat /\ k + n \in 1..Len(R) /\ k <= k + n
    BY <1>1, <1>2, <2>1
  <2>3. QED  BY <2>1, <2>2
<1> DEFINE B == Between(K, k, b)
<1>4. B = K \intersect ResultsOf(R, k)
  <2>1. K \subseteq 1..Len(R)
    BY <1>1
  <2>2. QED  BY <1>3, <2>1 DEF Between, ResultsOf
<1> HIDE DEF B
<1>5. IsFiniteSet(B)
  BY <1>2, <1>4, FS_Subset
<1>6. Cardinality(c[k]) = Cardinality(B)
  <2> DEFINE C == c[k]
             f == [p \in B |-> R[p].call]
  <2>1. C = {R[p].call : p \in B}
    BY <1>4 DEF Fit
  <2> HIDE DEF C
  <2>2. f \in [B -> C]
    BY <2>1
  <2>3. \A p, q \in B : f[p] = f[q] => p = q
    BY <1>2, <1>4
  <2>4. \A t \in C : \E p \in B : f[p] = t
    BY <2>1
  <2> HIDE DEF f
  <2>5. Cardinality(C) = Cardinality(B)
    BY <1>5, <2>2, <2>3, <2>4, DistinctImage
  <2>6. QED  BY <2>5 DEF C
<1> USE DEF B
<1>7. /\ Rank(K, k) \in Nat /\ Cardinality(B) \in Nat
      /\ Rank(K, b) = Rank(K, k) + Cardinality(B)
  BY <1>1, <1>3, RankBehind
<1>8. Cardinality(K) \in Nat /\ Rank(K, b) <= Cardinality(K)
  <2>1. IsFiniteSet(K) /\ Cardinality(K) \in Nat
    BY <1>1, RankRange
  <2>2. {i \in K : i <= b} \in SUBSET K
    OBVIOUS
  <2>3. Cardinality({i \in K : i <= b}) <= Cardinality(K)
    BY <2>1, <2>2, FS_Subset
  <2>4. QED  BY <2>1, <2>3 DEF Rank
<1>9. ASSUME NEW p \in K
      PROVE  p \in ResultsOf(R, k)
               <=> Rank(K, p) \in (Rank(K, k) + 1)..(Rank(K, k) + Cardinality(B))
  <2>1. k < p /\ p <= b <=> Rank(K, p) \in (Rank(K, k) + 1)..(Rank(K, k) + Cardinality(B))
    <3>1. PICK n \in Nat : n = Len(R)
      BY <1>1
    <3>2. K \in SUBSET (1..n) /\ b \in 1..n /\ k <= b
      BY <1>1, <1>3, <3>1
    <3>3. /\ Cardinality(Between(K, k, b)) \in Nat
          /\ k < p /\ p <= b <=>
               Rank(K, p) \in (Rank(K, k) + 1)..(Rank(K, k) + Cardinality(Between(K, k, b)))
      BY <3>2, PlacesFollow
    <3>4. QED  BY <3>3
  <2>2. p \in 1..Len(R)
    BY <1>1
  <2>3. QED  BY <1>3, <2>1, <2>2 DEF ResultsOf
<1>10. QED  BY <1>6, <1>7, <1>8, <1>9

\* V is the records at the places in K, with the calls in c.
Selected(l, R, c, K, V) ==
  /\ V \in Seq(RecordSet(l)) /\ Len(V) = Cardinality(K)
  /\ \A j \in 1..Cardinality(K) :
       /\ Place(K, j) \in K /\ Rank(K, Place(K, j)) = j
       /\ V[j].at = R[Place(K, j)].at /\ V[j].role = R[Place(K, j)].role
       /\ V[j].call = R[Place(K, j)].call /\ V[j].calls = c[Place(K, j)]
  /\ Kept(V) = {R[k].at : k \in K}

\* What a selection of records is, place by place.
LEMMA SelectedIs ==
  ASSUME NEW l, NEW R \in Seq(RecordSet(l)), NEW K \in SUBSET (1..Len(R)),
         NEW c \in [1..Len(R) -> SUBSET (Nat \X Nat)]
  PROVE  Selected(l, R, c, K, Only(Cuts(R, c), K))
<1> DEFINE T == Cuts(R, c)
           V == Only(T, K)
<1>1. R \in Seq(RecordSet(l)) /\ Len(R) \in Nat /\ K \in SUBSET (1..Len(R))
  OBVIOUS
<1>2. \A k \in 1..Len(R) :
        /\ R[k] \in RecordSet(l)
        /\ T[k] \in RecordSet(l)
        /\ T[k].at = R[k].at /\ T[k].role = R[k].role /\ T[k].call = R[k].call
        /\ T[k].calls = c[k]
  <2> TAKE k \in 1..Len(R)
  <2>1. R[k] \in RecordSet(l) /\ c[k] \in SUBSET (Nat \X Nat)
    BY <1>1
  <2>2. T[k] = [R[k] EXCEPT !.calls = c[k]]
    BY DEF Cuts
  <2> HIDE DEF T
  <2>3. QED  BY <2>1, <2>2 DEF RecordSet
<1>3. T \in Seq(RecordSet(l)) /\ Len(T) = Len(R)
  <2>1. T = [k \in 1..Len(R) |-> T[k]]
    BY DEF Cuts
  <2> HIDE DEF T
  <2>2. T \in [1..Len(R) -> RecordSet(l)]
    BY <1>2, <2>1
  <2>3. QED  BY <1>1, <2>2
<1> HIDE DEF T
<1>4. PICK size \in Nat : size = Cardinality(K)
  BY <1>1, RankRange
<1>5. /\ V \in Seq(RecordSet(l)) /\ Len(V) = size /\ DOMAIN V = 1..size
      /\ \A j \in 1..size : V[j] = T[Place(K, j)]
  <2> DEFINE S == RecordSet(l)
  <2>1. T \in Seq(S) /\ K \in SUBSET (1..Len(T))
    BY <1>1, <1>3
  <2> HIDE DEF S
  <2>2. /\ V \in Seq(S) /\ Len(V) = Cardinality(K) /\ DOMAIN V = 1..Cardinality(K)
        /\ \A j \in 1..Cardinality(K) : V[j] = T[Place(K, j)]
    BY <2>1, OnlyIs
  <2>3. QED  BY <1>4, <2>2 DEF S
<1> HIDE DEF V
<1>6. \A j \in 1..size : Place(K, j) \in K /\ Rank(K, Place(K, j)) = j
  BY <1>1, <1>4, PlacesOf
<1>7. \A k \in K : Rank(K, k) \in 1..size /\ Place(K, Rank(K, k)) = k
  BY <1>1, <1>4, PlacesOf
<1>8. ASSUME NEW j \in 1..size, NEW k \in K, k = Place(K, j)
      PROVE  /\ Rank(K, k) = j
             /\ V[j].at = R[k].at /\ V[j].role = R[k].role /\ V[j].call = R[k].call
             /\ V[j].calls = c[k]
  BY <1>1, <1>2, <1>5, <1>6, <1>8
<1>9. Kept(V) = {R[k].at : k \in K}
  <2>1. \A j \in 1..size : \E k \in K : V[j].at = R[k].at
    <3> TAKE j \in 1..size
    <3>1. PICK k \in K : k = Place(K, j)
      BY <1>6
    <3>2. QED  BY <1>8, <3>1
  <2>2. \A k \in K : \E j \in 1..size : V[j].at = R[k].at
    <3> TAKE k \in K
    <3>1. PICK j \in 1..size : j = Rank(K, k) /\ k = Place(K, j)
      BY <1>7
    <3>2. QED  BY <1>8, <3>1
  <2>3. Kept(V) = {V[j].at : j \in 1..size}
    BY <1>5 DEF Kept
  <2>4. ASSUME NEW x \in {V[j].at : j \in 1..size} PROVE x \in {R[k].at : k \in K}
    <3>1. PICK j \in 1..size : x = V[j].at
      OBVIOUS
    <3>2. PICK k \in K : V[j].at = R[k].at
      BY <2>1
    <3>3. QED  BY <3>1, <3>2
  <2>5. ASSUME NEW x \in {R[k].at : k \in K} PROVE x \in {V[j].at : j \in 1..size}
    <3>1. PICK k \in K : x = R[k].at
      OBVIOUS
    <3>2. PICK j \in 1..size : V[j].at = R[k].at
      BY <2>2
    <3>3. QED  BY <3>1, <3>2
  <2>6. QED  BY <2>3, <2>4, <2>5
<1>10. \A j \in 1..size :
         /\ Place(K, j) \in K /\ Rank(K, Place(K, j)) = j
         /\ V[j].at = R[Place(K, j)].at /\ V[j].role = R[Place(K, j)].role
         /\ V[j].call = R[Place(K, j)].call /\ V[j].calls = c[Place(K, j)]
  BY <1>6, <1>8
<1>11. Selected(l, R, c, K, V)
  BY <1>4, <1>5, <1>9, <1>10 DEF Selected
<1>12. QED  BY <1>11 DEF V, T

\* A selection that parts no result from its call is sound.
LEMMA SelectedSound ==
  ASSUME NEW l, NEW R, Sound(l, R), NEW K,
         NEW c \in [1..Len(R) -> SUBSET (Nat \X Nat)], Fit(R, c, K)
  PROVE  Sound(l, Only(Cuts(R, c), K))
<1> DEFINE V == Only(Cuts(R, c), K)
<1>1. R \in Seq(RecordSet(l)) /\ Len(R) \in Nat /\ K \in SUBSET (1..Len(R))
  BY DEF Sound, Fit
<1>4. PICK size \in Nat : size = Cardinality(K)
  BY <1>1, RankRange
<1>5. /\ V \in Seq(RecordSet(l)) /\ Len(V) = size
      /\ \A j \in 1..size :
           /\ Place(K, j) \in K /\ Rank(K, Place(K, j)) = j
           /\ V[j].at = R[Place(K, j)].at /\ V[j].role = R[Place(K, j)].role
           /\ V[j].call = R[Place(K, j)].call /\ V[j].calls = c[Place(K, j)]
  <2>1. Selected(l, R, c, K, V)
    BY <1>1, SelectedIs
  <2>2. QED  BY <1>4, <2>1 DEF Selected
<1> HIDE DEF V
<1>6. \A j \in 1..size : Place(K, j) \in K
  BY <1>5
<1>7. \A k \in K : Rank(K, k) \in 1..size /\ Place(K, Rank(K, k)) = k
  BY <1>1, <1>4, PlacesOf
<1>8. ASSUME NEW j \in 1..size, NEW k \in K, k = Place(K, j)
      PROVE  /\ Rank(K, k) = j
             /\ V[j].at = R[k].at /\ V[j].role = R[k].role /\ V[j].call = R[k].call
             /\ V[j].calls = c[k]
  BY <1>5, <1>8
<1>9. ASSUME NEW k \in K
      PROVE  c[k] \subseteq R[k].calls
  <2>1. CASE R[k].calls = {}
    <3>1. Cardinality(R[k].calls) = 0 /\ k \in 1..Len(R)
      BY <1>1, <2>1, FS_EmptySet
    <3>2. ResultsOf(R, k) = {}
      BY <1>1, <3>1 DEF ResultsOf
    <3>3. c[k] = {}
      BY <3>2 DEF Fit
    <3>4. QED  BY <3>3
  <2>2. CASE R[k].calls # {}
    <3>1. \A p \in ResultsOf(R, k) : R[p].call \in R[k].calls
      BY <1>1, <2>2, ResultsAnswer
    <3>2. c[k] = {R[p].call : p \in K \intersect ResultsOf(R, k)}
      BY DEF Fit
    <3>3. QED  BY <3>1, <3>2
  <2>3. QED  BY <2>1, <2>2
<1>10. ASSUME NEW j \in 1..size
       PROVE  OneRecord(l, V[j])
  <2>1. PICK k \in K : k = Place(K, j)
    BY <1>6
  <2>2. /\ V[j].at = R[k].at /\ V[j].role = R[k].role /\ V[j].call = R[k].call
        /\ V[j].calls = c[k]
    BY <1>8, <2>1
  <2>3. OneRecord(l, R[k])
    BY <1>1 DEF Sound
  <2>4. IsFiniteSet(c[k])
    BY <1>9, <2>3, FS_Subset DEF OneRecord
  <2>5. c[k] \subseteq R[k].calls
    BY <1>9
  <2>6. QED  BY <2>2, <2>3, <2>4, <2>5 DEF OneRecord
<1>11. ASSUME NEW j \in 1..size
       PROVE  Followed(l, V, j)
  <2>1. PICK k \in K : k = Place(K, j)
    BY <1>6
  <2>2. Rank(K, k) = j /\ V[j].at = R[k].at /\ V[j].calls = c[k]
    BY <1>8, <2>1
  <2>3. SUFFICES ASSUME c[k] # {} PROVE Followed(l, V, j)
    BY <2>2 DEF Followed
  <2>4. R[k].calls # {}
    BY <1>9, <2>3
  <2>5. PICK m \in Nat : m = Cardinality(c[k])
    BY <2>4, CutsFollow
  <2>6. /\ j + m <= size
        /\ \A p \in K : p \in ResultsOf(R, k) <=> Rank(K, p) \in (j + 1)..(j + m)
    BY <1>4, <2>2, <2>4, <2>5, CutsFollow
  <2>7. ASSUME NEW i \in 1..m
        PROVE  /\ V[j + i].call \in c[k] /\ V[j + i].role = "tool" /\ Near(l, V[j], V[j + i])
    <3>1. PICK h \in Nat : h = j + i
      OBVIOUS
    <3>2. h \in 1..size /\ h \in (j + 1)..(j + m)
      BY <2>6, <3>1
    <3>3. PICK p \in K : p = Place(K, h)
      BY <1>6, <3>2
    <3>4. Rank(K, p) = h /\ V[h].at = R[p].at /\ V[h].role = R[p].role /\ V[h].call = R[p].call
      BY <1>8, <3>2, <3>3
    <3>5. p \in ResultsOf(R, k)
      BY <2>6, <3>2, <3>4
    <3>6. R[p].role = "tool" /\ Near(l, R[k], R[p])
      BY <1>1, <2>4, <3>5, ResultsAnswer
    <3>7. R[p].call \in c[k]
      BY <3>5 DEF Fit
    <3>8. Near(l, V[j], V[h])
      BY <2>2, <3>4, <3>6 DEF Near
    <3>9. QED  BY <3>1, <3>4, <3>6, <3>7, <3>8
  <2>8. ASSUME NEW x \in c[k]
        PROVE  \E i \in 1..m : V[j + i].call = x
    <3>1. PICK p \in K \intersect ResultsOf(R, k) : R[p].call = x
      BY DEF Fit
    <3>2. Rank(K, p) \in (j + 1)..(j + m) /\ Rank(K, p) \in 1..size /\ Place(K, Rank(K, p)) = p
      BY <1>7, <2>6, <3>1
    <3>3. PICK h \in Nat : h = Rank(K, p)
      BY <3>2
    <3>4. h - j \in 1..m /\ j + (h - j) = h
      BY <3>2, <3>3
    <3>5. V[h].call = R[p].call
      BY <1>8, <3>1, <3>2, <3>3
    <3>6. PICK i \in 1..m : j + i = h
      BY <3>4
    <3>7. QED  BY <3>1, <3>5, <3>6
  <2>9. {V[j + i].call : i \in 1..m} = c[k]
    BY <2>7, <2>8
  <2>10. QED  BY <1>5, <2>2, <2>5, <2>6, <2>7, <2>9 DEF Followed
<1>12. ASSUME NEW j \in 1..size
       PROVE  AskedFor(V, j)
  <2>1. PICK k \in K : k = Place(K, j)
    BY <1>6
  <2>2. Rank(K, k) = j /\ V[j].role = R[k].role /\ V[j].call = R[k].call
    BY <1>8, <2>1
  <2>3. SUFFICES ASSUME R[k].role = "tool" PROVE AskedFor(V, j)
    BY <2>2 DEF AskedFor
  <2>4. k \in 1..Len(R) /\ AskedFor(R, k)
    BY <1>1 DEF Sound
  <2>5. PICK q \in 1..(k - 1) : R[k].call \in R[q].calls /\ k <= q + Cardinality(R[q].calls)
    BY <2>3, <2>4 DEF AskedFor
  <2>6. q \in 1..Len(R) /\ q < k /\ R[q].calls # {}
    BY <1>1, <2>4, <2>5
  <2>7. k \in ResultsOf(R, q)
    BY <2>4, <2>5, <2>6 DEF ResultsOf
  <2>8. q \in K
    BY <2>3, <2>6, <2>7 DEF Fit
  <2>9. R[k].call \in c[q]
    BY <2>7, <2>8 DEF Fit
  <2>10. PICK i \in 1..size : i = Rank(K, q) /\ Place(K, i) = q
    BY <1>7, <2>8
  <2>11. V[i].calls = c[q]
    BY <1>8, <2>8, <2>10
  <2>12. PICK m \in Nat : m = Cardinality(c[q])
    BY <2>6, <2>8, CutsFollow
  <2>13. j \in (i + 1)..(i + m)
    BY <2>2, <2>6, <2>7, <2>8, <2>10, <2>12, CutsFollow
  <2>14. i \in 1..(j - 1) /\ j <= i + m
    BY <2>12, <2>13
  <2>15. QED  BY <2>2, <2>9, <2>11, <2>12, <2>14 DEF AskedFor
<1>13. Sound(l, V)
  BY <1>5, <1>10, <1>11, <1>12 DEF Sound
<1>14. QED  BY <1>13 DEF V

\* No result is parted from its message at keep.
Straight(l, keep) ==
  \A i \in 1..Len(l) : l[i].kind = "tool" => ~(l[i].call[1] < keep /\ keep <= i)

\* A message and its results are old together.
LEMMA SameSide ==
  ASSUME NEW l, LogOK(l), NEW keep \in Nat, Straight(l, keep), NEW R, Sound(l, R),
         NEW k \in 1..Len(R), NEW p \in ResultsOf(R, k), R[k].calls # {}
  PROVE  /\ R[p].at < keep <=> R[k].at < keep
         /\ l[R[p].at].kind = "tool" /\ R[p].calls = {}
<1>1. p \in 1..Len(R) /\ R \in Seq(RecordSet(l))
  BY DEF ResultsOf, Sound
<1>2. R[p].role = "tool" /\ Near(l, R[k], R[p])
  BY ResultsAnswer
<1>3. OneRecord(l, R[p])
  BY <1>1 DEF Sound
<1>4. l[R[p].at].kind = "tool" /\ R[p].calls = {}
  BY <1>2, <1>3 DEF OneRecord
<1>5. PICK t \in 1..Len(l), a \in 1..Len(l) : t = R[p].at /\ a = R[k].at
  <2>1. R[p] \in RecordSet(l) /\ R[k] \in RecordSet(l)
    BY <1>1
  <2>2. QED  BY <2>1 DEF RecordSet
<1>6. t = a \/ l[t].call[1] = a
  BY <1>2, <1>5 DEF Near
<1>7. Len(l) \in Nat
  BY DEF LogOK
<1>8. t # a => a < t /\ ~(a < keep /\ keep <= t)
  <2>1. l[t].call[1] \in 1..(t - 1)
    BY <1>4, <1>5, ToolCallIs
  <2>2. ~(l[t].call[1] < keep /\ keep <= t)
    BY <1>4, <1>5 DEF Straight
  <2>3. QED  BY <1>6, <1>7, <2>1, <2>2
<1>9. t < keep <=> a < keep
  BY <1>7, <1>8
<1>10. QED  BY <1>4, <1>5, <1>9

\* What Prune removes, and what it leaves of a record.
Removed(l, R, keep) ==
  UNION {Queries(l, R[k].calls) : k \in {j \in DOMAIN R : R[j].at < keep}}

Left(l, R, keep) ==
  [k \in 1..Len(R) |-> IF R[k].at < keep THEN R[k].calls \ Removed(l, R, keep) ELSE R[k].calls]

Remains(l, r, keep, removed) ==
  \/ ~(r.at < keep)
  \/ ~(\/ l[r.at].kind = "skill" \/ r.call \in removed
       \/ r.calls # {} /\ r.calls \subseteq removed /\ ~l[r.at].text)

Remaining(l, R, keep) == {k \in 1..Len(R) : Remains(l, R[k], keep, Removed(l, R, keep))}

\* Pruning is such a selection.
LEMMA PruneIs ==
  ASSUME NEW l, NEW R \in Seq(RecordSet(l)), NEW keep \in Nat
  PROVE  /\ Prune(l, R, keep) = Only(Cuts(R, Left(l, R, keep)), Remaining(l, R, keep))
         /\ Left(l, R, keep) \in [1..Len(R) -> SUBSET (Nat \X Nat)]
         /\ Remaining(l, R, keep) \in SUBSET (1..Len(R))
<1>1. DOMAIN R = 1..Len(R)
  OBVIOUS
<1>2. \A k \in 1..Len(R) : R[k] \in RecordSet(l)
  OBVIOUS
<1> DEFINE removed == Removed(l, R, keep)
           T == [k \in 1..Len(R) |->
                   IF R[k].at < keep THEN [R[k] EXCEPT !.calls = @ \ removed] ELSE R[k]]
           c == Left(l, R, keep)
<1>3. Prune(l, R, keep) = Only(T, Remaining(l, R, keep))
  BY <1>1 DEF Prune, Remaining, Remains, Removed
<1>4. T = Cuts(R, c)
  <2>1. ASSUME NEW k \in 1..Len(R)
        PROVE  (IF R[k].at < keep THEN [R[k] EXCEPT !.calls = @ \ removed] ELSE R[k])
                 = [R[k] EXCEPT !.calls = c[k]]
    <3>1. c[k] = IF R[k].at < keep THEN R[k].calls \ removed ELSE R[k].calls
      BY DEF Left
    <3> HIDE DEF removed, c
    <3>2. R[k] \in RecordSet(l)
      BY <1>2
    <3>3. QED  BY <3>1, <3>2 DEF RecordSet
  <2> HIDE DEF removed, c
  <2>2. QED  BY <2>1 DEF Cuts
<1>5. c \in [1..Len(R) -> SUBSET (Nat \X Nat)]
  <2>1. \A k \in 1..Len(R) : R[k].calls \in SUBSET (Nat \X Nat)
    BY <1>2 DEF RecordSet
  <2> HIDE DEF removed
  <2>2. c = [k \in 1..Len(R) |-> IF R[k].at < keep THEN R[k].calls \ removed ELSE R[k].calls]
    BY DEF Left, removed
  <2> HIDE DEF c
  <2>3. QED  BY <2>1, <2>2
<1>6. QED  BY <1>3, <1>4, <1>5 DEF Remaining

\* Pruning adds no message.
LEMMA PruneKeeps ==
  ASSUME NEW l, NEW R \in Seq(RecordSet(l)), NEW keep \in Nat
  PROVE  Kept(Prune(l, R, keep)) \subseteq Kept(R)
<1> DEFINE c == Left(l, R, keep)
           K == Remaining(l, R, keep)
<1>1. /\ Prune(l, R, keep) = Only(Cuts(R, c), K)
      /\ c \in [1..Len(R) -> SUBSET (Nat \X Nat)] /\ K \in SUBSET (1..Len(R))
  BY PruneIs
<1> HIDE DEF c, K
<1>2. Selected(l, R, c, K, Only(Cuts(R, c), K))
  BY <1>1, SelectedIs
<1>3. DOMAIN R = 1..Len(R)
  OBVIOUS
<1>4. Kept(Prune(l, R, keep)) = {R[k].at : k \in K}
  BY <1>1, <1>2 DEF Selected
<1>5. QED  BY <1>1, <1>3, <1>4 DEF Kept

\* A record of calls that all are queries has no text to lose but that of its results.
LEMMA EmptiedIs ==
  ASSUME NEW l, LogOK(l), NEW R, Sound(l, R), NEW k \in 1..Len(R), R[k].calls # {},
         \A x \in R[k].calls : ToolOf(l, x) = "query", ~l[R[k].at].text
  PROVE  Expendable(l, R[k].at)
<1>1. R \in Seq(RecordSet(l)) /\ OneRecord(l, R[k])
  BY DEF Sound
<1>2. PICK i \in 1..Len(l) : i = R[k].at
  <2>1. R[k] \in RecordSet(l)
    BY <1>1
  <2>2. QED  BY <2>1 DEF RecordSet
<1>3. l[i].kind \in {"calls", "tool"}
  BY <1>1, <1>2 DEF OneRecord
<1>4. CASE l[i].kind = "calls"
  BY <1>2, <1>4 DEF Expendable
<1>5. CASE l[i].kind = "tool"
  <2>1. PICK x \in R[k].calls : TRUE
    OBVIOUS
  <2>2. PICK p \in ResultsOf(R, k) : R[p].call = x
    BY <2>1, ResultsAnswer
  <2>3. /\ p \in 1..Len(R) /\ R[p].role = "tool" /\ Near(l, R[k], R[p])
        /\ R[p].call \in R[k].calls
    BY <2>2, ResultsAnswer DEF ResultsOf
  <2>4. l[R[p].at].kind = "tool" /\ R[p].call = l[R[p].at].call
    BY <2>3 DEF Sound, OneRecord
  <2>5. R[p].at \in 1..Len(l)
    <3>1. R[p] \in RecordSet(l)
      BY <1>1, <2>3
    <3>2. QED  BY <3>1 DEF RecordSet
  <2>6. l[l[R[p].at].call[1]].kind = "calls"
    BY <2>4, <2>5, ToolCallIs
  <2>7. l[R[p].at].call[1] # i
    BY <1>5, <2>6
  <2>8. R[p].at = i
    BY <1>2, <2>3, <2>7 DEF Near
  <2>9. ToolOf(l, l[i].call) = "query"
    BY <2>3, <2>4, <2>8
  <2>10. QED  BY <1>2, <1>5, <2>9 DEF Expendable
<1>6. QED  BY <1>3, <1>4, <1>5

\* Pruning takes out nothing that a summary may not leave out.
LEMMA PruneSpares ==
  ASSUME NEW l, LogOK(l), NEW keep \in Nat, NEW R, Sound(l, R), NEW i \in Kept(R)
  PROVE  i \in Kept(Prune(l, R, keep)) \/ Expendable(l, i)
<1> DEFINE c == Left(l, R, keep)
           K == Remaining(l, R, keep)
           removed == Removed(l, R, keep)
<1>1. R \in Seq(RecordSet(l)) /\ DOMAIN R = 1..Len(R)
  BY DEF Sound
<1>2. /\ Prune(l, R, keep) = Only(Cuts(R, c), K)
      /\ c \in [1..Len(R) -> SUBSET (Nat \X Nat)] /\ K \in SUBSET (1..Len(R))
  BY <1>1, PruneIs
<1>3. \A x \in removed : ToolOf(l, x) = "query"
  BY DEF Removed, Queries
<1>4. \A k \in 1..Len(R) : k \in K <=> Remains(l, R[k], keep, removed)
  BY DEF Remaining
<1>5. NoCall \notin removed
  <2>1. \A k \in 1..Len(R) : NoCall \notin R[k].calls
    BY DEF Sound, OneRecord
  <2>2. \A k \in 1..Len(R) : Queries(l, R[k].calls) \subseteq R[k].calls
    BY DEF Queries
  <2>3. QED  BY <1>1, <2>1, <2>2 DEF Removed
<1> HIDE DEF c, K, removed
<1>6. Selected(l, R, c, K, Only(Cuts(R, c), K))
  BY <1>1, <1>2, SelectedIs
<1>7. Kept(Prune(l, R, keep)) = {R[k].at : k \in K}
  BY <1>2, <1>6 DEF Selected
<1>8. PICK k \in 1..Len(R) : R[k].at = i
  BY <1>1 DEF Kept
<1>9. CASE k \in K
  BY <1>7, <1>8, <1>9
<1>10. CASE k \notin K
  <2>1. ~Remains(l, R[k], keep, removed)
    BY <1>4, <1>10
  <2>2. OneRecord(l, R[k])
    BY DEF Sound
  <2>3. CASE l[i].kind = "skill"
    BY <2>3 DEF Expendable
  <2>4. CASE R[k].call \in removed
    <3>1. l[i].kind = "tool" /\ R[k].call = l[i].call
      BY <1>5, <1>8, <2>2, <2>4 DEF OneRecord
    <3>2. QED  BY <1>3, <2>4, <3>1 DEF Expendable
  <2>5. CASE R[k].calls # {} /\ R[k].calls \subseteq removed /\ ~l[i].text
    BY <1>3, <1>8, <2>5, EmptiedIs
  <2>6. QED  BY <1>8, <2>1, <2>3, <2>4, <2>5 DEF Remains
<1>11. QED  BY <1>9, <1>10

\* A record without calls has no results behind it.
LEMMA NothingAsked ==
  ASSUME NEW l, NEW R, Sound(l, R), NEW k \in 1..Len(R), R[k].calls = {}
  PROVE  ResultsOf(R, k) = {}
<1>1. Cardinality(R[k].calls) = 0 /\ k \in Nat
  BY FS_EmptySet
<1>2. Len(R) \in Nat
  BY DEF Sound
<1>3. QED  BY <1>1, <1>2 DEF ResultsOf

\* Pruning at a border that parts no result from its message leaves sound records.
LEMMA PruneSound ==
  ASSUME NEW l, LogOK(l), NEW keep \in Nat, Straight(l, keep), NEW R, Sound(l, R)
  PROVE  Sound(l, Prune(l, R, keep))
<1> DEFINE removed == Removed(l, R, keep)
           c == Left(l, R, keep)
           K == Remaining(l, R, keep)
<1>1. R \in Seq(RecordSet(l)) /\ DOMAIN R = 1..Len(R)
  BY DEF Sound
<1>2. /\ Prune(l, R, keep) = Only(Cuts(R, c), K)
      /\ c \in [1..Len(R) -> SUBSET (Nat \X Nat)] /\ K \in SUBSET (1..Len(R))
  BY <1>1, PruneIs
<1>3. NoCall \notin removed
  <2>1. \A k \in 1..Len(R) : NoCall \notin R[k].calls
    BY DEF Sound, OneRecord
  <2>2. \A k \in 1..Len(R) : Queries(l, R[k].calls) \subseteq R[k].calls
    BY DEF Queries
  <2>3. QED  BY <1>1, <2>1, <2>2 DEF Removed
<1>4. \A k \in 1..Len(R) :
        c[k] = IF R[k].at < keep THEN R[k].calls \ removed ELSE R[k].calls
  BY DEF Left
<1>5. \A k \in 1..Len(R) : k \in K <=> Remains(l, R[k], keep, removed)
  BY DEF Remaining
<1> HIDE DEF c, K, removed
<1>6. ASSUME NEW k \in 1..Len(R), NEW p \in ResultsOf(R, k), R[k].calls # {}
      PROVE  p \in K <=> (R[k].at < keep => R[p].call \notin removed)
  <2>1. p \in 1..Len(R)
    BY DEF ResultsOf
  <2>2. /\ R[p].at < keep <=> R[k].at < keep
        /\ l[R[p].at].kind = "tool" /\ R[p].calls = {}
    BY <1>6, SameSide
  <2>3. QED  BY <1>5, <2>1, <2>2 DEF Remains
<1>7. ASSUME NEW k \in K
      PROVE  c[k] = {R[p].call : p \in K \intersect ResultsOf(R, k)}
  <2>1. k \in 1..Len(R)
    BY <1>2
  <2>2. CASE R[k].calls = {}
    <3>1. ResultsOf(R, k) = {}
      BY <2>1, <2>2, NothingAsked
    <3>2. c[k] = {}
      BY <1>4, <2>1, <2>2
    <3>3. QED  BY <3>1, <3>2
  <2>3. CASE R[k].calls # {}
    <3>1. ASSUME NEW x \in c[k]
          PROVE  \E p \in K \intersect ResultsOf(R, k) : R[p].call = x
      <4>1. x \in R[k].calls /\ (R[k].at < keep => x \notin removed)
        BY <1>4, <2>1
      <4>2. PICK p \in ResultsOf(R, k) : R[p].call = x
        BY <2>1, <2>3, <4>1, ResultsAnswer
      <4>3. p \in K
        BY <1>6, <2>1, <2>3, <4>1, <4>2
      <4>4. QED  BY <4>2, <4>3
    <3>2. ASSUME NEW p \in K \intersect ResultsOf(R, k)
          PROVE  R[p].call \in c[k]
      <4>1. R[p].call \in R[k].calls
        BY <2>1, <2>3, ResultsAnswer
      <4>2. R[k].at < keep => R[p].call \notin removed
        BY <1>6, <2>1, <2>3
      <4>3. QED  BY <1>4, <2>1, <4>1, <4>2
    <3>3. QED  BY <3>1, <3>2
  <2>4. QED  BY <2>2, <2>3
<1>8. ASSUME NEW p \in K, NEW j \in 1..Len(R),
             R[p].role = "tool", R[j].calls # {}, p \in ResultsOf(R, j)
      PROVE  j \in K
  <2>1. CASE ~(R[j].at < keep)
    BY <1>5, <2>1 DEF Remains
  <2>2. CASE R[j].at < keep
    <3>1. R[p].call \notin removed
      BY <1>6, <1>8, <2>2
    <3>2. R[p].call \in R[j].calls
      BY <1>8, ResultsAnswer
    <3>3. OneRecord(l, R[j])
      BY DEF Sound
    <3>4. R[j].call = NoCall /\ l[R[j].at].kind # "skill"
      BY <1>8, <3>3 DEF OneRecord
    <3>5. QED  BY <1>3, <1>5, <3>1, <3>2, <3>4 DEF Remains
  <2>3. QED  BY <2>1, <2>2
<1>9. Fit(R, c, K)
  BY <1>2, <1>7, <1>8 DEF Fit
<1>10. QED  BY <1>2, <1>9, SelectedSound

\* The part of sound records that is not old is sound.
LEMMA RecentSound ==
  ASSUME NEW l, LogOK(l), NEW keep \in Nat, Straight(l, keep), NEW R, Sound(l, R)
  PROVE  Sound(l, Only(R, {k \in DOMAIN R : R[k].at >= keep}))
<1> DEFINE c == [k \in 1..Len(R) |-> R[k].calls]
           K == {k \in DOMAIN R : R[k].at >= keep}
<1>1. R \in Seq(RecordSet(l)) /\ DOMAIN R = 1..Len(R)
  BY DEF Sound
<1>2. \A k \in 1..Len(R) :
        R[k].at \in Nat /\ R[k].calls \in SUBSET (Nat \X Nat) /\ R[k] \in RecordSet(l)
  <2> TAKE k \in 1..Len(R)
  <2>1. R[k] \in RecordSet(l)
    BY <1>1
  <2>2. QED  BY <2>1 DEF RecordSet
<1>3. R = Cuts(R, c)
  <2>1. \A k \in 1..Len(R) : [R[k] EXCEPT !.calls = c[k]] = R[k]
    BY <1>2 DEF RecordSet
  <2> HIDE DEF c
  <2>2. Cuts(R, c) = [k \in 1..Len(R) |-> R[k]]
    BY <2>1 DEF Cuts
  <2>3. QED  BY <1>1, <2>2
<1>4. c \in [1..Len(R) -> SUBSET (Nat \X Nat)]
  BY <1>2
<1>5. \A k \in 1..Len(R) : k \in K <=> ~(R[k].at < keep)
  BY <1>1, <1>2
<1>6. K \in SUBSET (1..Len(R))
  BY <1>1
<1>7. \A k \in 1..Len(R) : c[k] = R[k].calls
  OBVIOUS
<1> HIDE DEF c, K
<1>8. ASSUME NEW k \in 1..Len(R), NEW p \in ResultsOf(R, k), R[k].calls # {}
      PROVE  p \in K <=> k \in K
  <2>1. p \in 1..Len(R)
    BY DEF ResultsOf
  <2>2. R[p].at < keep <=> R[k].at < keep
    BY <1>8, SameSide
  <2>3. QED  BY <1>5, <2>1, <2>2
<1>9. ASSUME NEW k \in K
      PROVE  c[k] = {R[p].call : p \in K \intersect ResultsOf(R, k)}
  <2>1. k \in 1..Len(R) /\ c[k] = R[k].calls
    BY <1>6, <1>7
  <2>2. CASE R[k].calls = {}
    <3>1. ResultsOf(R, k) = {}
      BY <2>1, <2>2, NothingAsked
    <3>2. QED  BY <2>1, <2>2, <3>1
  <2>3. CASE R[k].calls # {}
    <3>1. ResultsOf(R, k) \subseteq K
      BY <1>8, <2>1, <2>3
    <3>2. /\ \A p \in ResultsOf(R, k) : R[p].call \in R[k].calls
          /\ \A x \in R[k].calls : \E p \in ResultsOf(R, k) : R[p].call = x
      BY <2>1, <2>3, ResultsAnswer
    <3>3. QED  BY <2>1, <3>1, <3>2
  <2>4. QED  BY <2>2, <2>3
<1>10. ASSUME NEW p \in K, NEW j \in 1..Len(R),
              R[p].role = "tool", R[j].calls # {}, p \in ResultsOf(R, j)
       PROVE  j \in K
  BY <1>8, <1>10
<1>11. Fit(R, c, K)
  BY <1>6, <1>9, <1>10 DEF Fit
<1>12. Sound(l, Only(Cuts(R, c), K))
  BY <1>4, <1>11, SelectedSound
<1>13. QED  BY <1>3, <1>12 DEF K

-----------------------------------------------------------------------------
(* What the other actions do.                                               *)

\* The active history of a run: places of the list, none twice.
WindowOK(r) ==
  /\ run[r].window \in Seq(1..Len(log))
  /\ \A j, k \in DOMAIN run[r].window : run[r].window[j] = run[r].window[k] => j = k

\* What is summarized is all that the window has before the border, but for what a
\* summary may leave out.
Summed(r, old, keep) ==
  /\ \A i \in old : i \in Range(run[r].window) /\ i < keep
  /\ \A i \in Range(run[r].window) : i < keep => i \in old \/ Expendable(log, i)

\* What is summarized is of the window, and lies before its border.
LEMMA OlderIs ==
  ASSUME Typed, LogOK(log), NEW r \in Runs, WindowOK(r), Older(r) # {}
  PROVE  /\ run[r].window # <<>>
         /\ KeepStart(run[r].window) \in Range(run[r].window)
         /\ \E i \in Range(run[r].window) : i < KeepStart(run[r].window)
         /\ Older(r) \in SUBSET Nat
         /\ Summed(r, Older(r), KeepStart(run[r].window))
<1> DEFINE w == run[r].window
           keep == KeepStart(w)
<1>1. w \in Seq(1..Len(log)) /\ Len(log) \in Nat
  BY DEF WindowOK, Typed
<1>2. /\ Sound(log, Records(r))
      /\ Kept(Records(r)) \subseteq Range(w)
      /\ \A i \in Range(w) : i \in Kept(Records(r)) \/ Droppable(log, i)
  BY <1>1, NormalizeRepairs DEF Records, WindowOK
<1>3. keep \in Nat
  <2>1. CASE w = <<>>
    BY <2>1 DEF KeepStart
  <2>2. CASE w # <<>>
    <3>1. keep \in Range(w)
      BY <1>1, <2>2, KeepStartIs
    <3>2. QED  BY <1>1, <3>1 DEF Range
  <2>3. QED  BY <2>1, <2>2
<1>4. Kept(Pruned(r)) \subseteq Range(w)
  <2>1. Records(r) \in Seq(RecordSet(log))
    BY <1>2 DEF Sound
  <2>2. Kept(Pruned(r)) \subseteq Kept(Records(r))
    BY <1>3, <2>1, PruneKeeps DEF Pruned
  <2>3. QED  BY <1>2, <2>2
<1>5. PICK i \in Range(w) : i < keep
  BY <1>4 DEF Older
<1>6. w # <<>>
  BY <1>5 DEF Range
<1>7. keep \in Range(w)
  BY <1>1, <1>6, KeepStartIs
<1>8. \A j \in Range(w) : j \in Kept(Pruned(r)) \/ Expendable(log, j)
  <2> TAKE j \in Range(w)
  <2>1. CASE j \in Kept(Records(r))
    BY <1>2, <1>3, <2>1, PruneSpares DEF Pruned
  <2>2. CASE Droppable(log, j)
    BY <2>2 DEF Droppable, Expendable
  <2>3. QED  BY <1>2, <2>1, <2>2
<1>9. Older(r) = {j \in Kept(Pruned(r)) : j < keep}
  BY DEF Older
<1>10. Range(w) \subseteq Nat
  BY <1>1 DEF Range
<1> HIDE DEF w, keep
<1>11. Older(r) \in SUBSET Nat
  BY <1>4, <1>9, <1>10
<1>12. /\ \A j \in Older(r) : j \in Range(w) /\ j < keep
       /\ \A j \in Range(w) : j < keep => j \in Older(r) \/ Expendable(log, j)
  BY <1>4, <1>8, <1>9
<1>13. QED  BY <1>5, <1>6, <1>7, <1>11, <1>12 DEF Summed, w, keep

\* Summarize: the border is of the window and has something old before it.
LEMMA SummarizeDoes ==
  ASSUME Typed, LogOK(log), NEW r \in Runs, WindowOK(r), Summarize(r)
  PROVE  /\ Keeps(r) /\ UNCHANGED <<log, summary, dirty, seen>> /\ At(r, "plan")
         /\ run'[r].pc = "length" /\ run'[r].state = run[r].state
         /\ run'[r].window = run[r].window
         /\ run'[r].keep = KeepStart(run[r].window)
         /\ run'[r].keep \in Range(run[r].window)
         /\ \E i \in Range(run[r].window) : i < run'[r].keep
         /\ Summed(r, run'[r].old, run'[r].keep)
<1> DEFINE keep == KeepStart(run[r].window)
           old == Older(r)
           frame == [run[r] EXCEPT !.keep = keep, !.old = old, !.pc = "length"]
<1>1. /\ keep \in Range(run[r].window)
      /\ \E i \in Range(run[r].window) : i < keep
      /\ old \in SUBSET Nat /\ Summed(r, old, keep)
  BY OlderIs DEF Summarize
<1>2. keep \in Nat /\ run[r] \in Frames
  BY <1>1 DEF Range, WindowOK, Typed
<1>4. Becomes(r, frame)
  BY DEF Summarize
<1> HIDE DEF keep, old
<1>3. /\ frame \in Frames /\ frame.pc = "length" /\ frame.state = run[r].state
      /\ frame.window = run[r].window /\ frame.keep = keep /\ frame.old = old
  BY <1>1, <1>2 DEF Frames, Pcs
<1> HIDE DEF frame
<1>5. run' \in [Runs -> Frames] /\ run'[r] = frame /\ Others(r)
  BY <1>3, <1>4, Becoming
<1>6. Keeps(r)
  BY <1>5, QuietKeeps DEF Summarize, Typed
<1>7. QED  BY <1>1, <1>3, <1>5, <1>6 DEF Summarize, keep

\* ReadLength: border and window stay.
LEMMA ReadLengthDoes ==
  ASSUME Typed, NEW r \in Runs, ReadLength(r)
  PROVE  /\ Keeps(r) /\ UNCHANGED <<log, summary, dirty, seen>> /\ At(r, "length")
         /\ run'[r].pc = "persist" /\ run'[r].state = run[r].state
         /\ run'[r].window = run[r].window /\ run'[r].keep = run[r].keep
         /\ run'[r].old = run[r].old
<1> DEFINE frame == [run[r] EXCEPT !.offset = Len(log) + 1, !.pc = "persist"]
<1>1. Len(log) + 1 \in Nat /\ run[r] \in Frames
  BY DEF Typed
<1>2. /\ frame \in Frames /\ frame.pc = "persist" /\ frame.state = run[r].state
      /\ frame.window = run[r].window /\ frame.keep = run[r].keep
      /\ frame.old = run[r].old
  BY <1>1 DEF Frames, Pcs
<1>3. Becomes(r, frame)
  BY DEF ReadLength
<1> HIDE DEF frame
<1>4. run' \in [Runs -> Frames] /\ run'[r] = frame /\ Others(r)
  BY <1>2, <1>3, Becoming
<1>5. Keeps(r)
  BY <1>4, QuietKeeps DEF ReadLength, Typed
<1>6. QED  BY <1>2, <1>4, <1>5 DEF ReadLength

\* The message list has one message more.
Pushed(m) ==
  /\ m \in Messages
  /\ log' \in Seq(Messages) /\ Len(log') = Len(log) + 1
  /\ log'[Len(log) + 1] = m
  /\ \A i \in 1..Len(log) : log'[i] = log[i]

\* PersistSummary: the summary is made of what was found old, and the state points
\* at it.
LEMMA PersistSummaryDoes ==
  ASSUME Typed, NEW r \in Runs, PersistSummary(r)
  PROVE  /\ Keeps(r) /\ UNCHANGED <<dirty, seen>> /\ At(r, "persist")
         /\ \E m \in Messages : Pushed(m) /\ m.kind = "summary" /\ m.covers = run[r].old
         /\ summary'.id = Len(log) + 1 /\ summary'.start = run[r].keep
         /\ summary'.startOffset = run[r].keep /\ summary' \in States
         /\ run'[r].pc \in {"mark", "user"} /\ run'[r].state = NoState
         /\ run'[r].keep = run[r].keep
<1> DEFINE m == [Message("summary") EXCEPT !.covers = run[r].old]
<1>1. run[r] \in Frames /\ Len(log) \in Nat
  BY DEF Typed
<1>2. run[r].old \in SUBSET Nat
  BY <1>1 DEF Frames
<1>3. Message("summary") \in Messages
  BY MessageTyped DEF Kinds
<1>4. m \in Messages /\ m.kind = "summary" /\ m.covers = run[r].old
  BY <1>2, <1>3 DEF Messages, Message, Kinds
<1>5. Push(m)
  BY DEF PersistSummary
<1> HIDE DEF m
<1>6. Pushed(m) /\ Grows
  BY <1>4, <1>5, Pushing DEF Pushed
<1>7. /\ run' \in [Runs -> Frames] /\ Others(r)
      /\ run'[r].pc \in {"mark", "user"} /\ run'[r].state = NoState
      /\ run'[r].keep = run[r].keep
  BY Building DEF PersistSummary
<1>8. summary' = [id |-> Len(log) + 1, start |-> run[r].keep,
                  offset |-> run[r].offset, startOffset |-> run[r].keep]
  BY DEF PersistSummary
<1>9. run[r].keep \in Nat /\ run[r].offset \in Nat
  BY <1>1 DEF Frames
<1>10. summary' \in States
  BY <1>1, <1>8, <1>9 DEF States
<1>11. Keeps(r)
  BY <1>6, <1>7, <1>10, PushKeeps DEF PersistSummary, Typed
<1>12. QED  BY <1>4, <1>6, <1>7, <1>8, <1>10, <1>11 DEF PersistSummary

\* MarkDirty: the dirty flag and nothing else.
LEMMA MarkDirtyDoes ==
  ASSUME Typed, NEW r \in Runs, MarkDirty(r)
  PROVE  /\ Keeps(r) /\ UNCHANGED <<log, summary, seen>> /\ At(r, "mark")
         /\ run'[r].pc = "user" /\ run'[r].state = run[r].state /\ run'[r].keep = run[r].keep
<1>1. "user" \in Pcs
  BY DEF Pcs
<1>2. /\ run' \in [Runs -> Frames] /\ Others(r)
      /\ run'[r].pc = "user" /\ run'[r].state = run[r].state /\ run'[r].keep = run[r].keep
  BY <1>1, Going DEF MarkDirty
<1>3. Keeps(r)
  BY <1>2, QuietKeeps DEF MarkDirty, Typed
<1>4. QED  BY <1>2, <1>3 DEF MarkDirty

\* AppendUser: a round starts.
LEMMA AppendUserDoes ==
  ASSUME Typed, NEW r \in Runs, AppendUser(r)
  PROVE  /\ Keeps(r) /\ UNCHANGED <<summary, dirty, seen>> /\ At(r, "user")
         /\ \E m \in Messages : Pushed(m) /\ m.kind = "user" /\ m.covers = {}
         /\ run'[r].pc = "turn" /\ run'[r].state = run[r].state
<1>1. "turn" \in Pcs
  BY DEF Pcs
<1>2. /\ run' \in [Runs -> Frames] /\ Others(r)
      /\ run'[r].pc = "turn" /\ run'[r].state = run[r].state
  BY <1>1, Going DEF AppendUser
<1> DEFINE m == Message("user")
<1>3. m \in Messages /\ m.kind = "user" /\ m.covers = {}
  BY MessageTyped DEF Kinds
<1>4. Push(m)
  BY DEF AppendUser
<1> HIDE DEF m
<1>5. Pushed(m) /\ Grows
  BY <1>3, <1>4, Pushing DEF Pushed
<1>6. Keeps(r)
  BY <1>2, <1>5, PushKeeps DEF AppendUser, Typed
<1>7. QED  BY <1>2, <1>3, <1>5, <1>6 DEF AppendUser

\* AppendCalls: a message with calls, all open.
LEMMA AppendCallsDoes ==
  ASSUME Typed, NEW r \in Runs, AppendCalls(r)
  PROVE  /\ Keeps(r) /\ UNCHANGED <<summary, dirty, seen>> /\ At(r, "turn")
         /\ \E m \in Messages : /\ Pushed(m) /\ m.kind = "calls" /\ m.covers = {}
                                /\ run'[r].left = 1..Len(m.calls)
         /\ run'[r].pc = "tools" /\ run'[r].state = run[r].state
         /\ run'[r].group = Len(log) + 1
<1>1. PICK t \in Turns :
        /\ Push([Message("calls") EXCEPT !.calls = t.calls, !.text = t.text])
        /\ Becomes(r, [run[r] EXCEPT !.pc = "tools", !.group = Len(log) + 1,
                                     !.left = 1..Len(t.calls)])
  BY DEF AppendCalls
<1>2. t.calls \in Seq(Tools) /\ t.text \in BOOLEAN /\ Len(t.calls) \in Nat
  <2>1. t \in [calls : Seq(Tools) \ {<<>>}, text : BOOLEAN]
    BY TurnsAssumption
  <2>2. QED  BY <2>1
<1> DEFINE m == [Message("calls") EXCEPT !.calls = t.calls, !.text = t.text]
           frame == [run[r] EXCEPT !.pc = "tools", !.group = Len(log) + 1,
                                   !.left = 1..Len(t.calls)]
<1>3. Message("calls") \in Messages
  BY MessageTyped DEF Kinds
<1>4. m \in Messages
  BY <1>2, <1>3 DEF Messages
<1>5. m.kind = "calls" /\ m.covers = {} /\ m.calls = t.calls
  BY DEF Message
<1>6. run[r] \in Frames /\ Len(log) + 1 \in Nat
  BY DEF Typed
<1>7. 1..Len(t.calls) \in SUBSET Nat
  BY <1>2
<1>8. /\ frame \in Frames /\ frame.pc = "tools" /\ frame.state = run[r].state
      /\ frame.group = Len(log) + 1 /\ frame.left = 1..Len(t.calls)
  BY <1>6, <1>7 DEF Frames, Pcs
<1> HIDE DEF m, frame
<1>9. Push(m) /\ Becomes(r, frame)
  BY <1>1 DEF m, frame
<1>10. Pushed(m) /\ Grows
  BY <1>4, <1>9, Pushing DEF Pushed
<1>11. run' \in [Runs -> Frames] /\ run'[r] = frame /\ Others(r)
  BY <1>8, <1>9, Becoming
<1>12. Keeps(r)
  BY <1>10, <1>11, PushKeeps DEF AppendCalls, Typed
<1>13. QED  BY <1>4, <1>5, <1>8, <1>10, <1>11, <1>12 DEF AppendCalls

\* AppendResult: the result of an open call, which is open no more.
LEMMA AppendResultDoes ==
  ASSUME Typed, NEW r \in Runs, AppendResult(r)
  PROVE  /\ Keeps(r) /\ UNCHANGED <<summary, dirty, seen>> /\ At(r, "tools")
         /\ \E k \in run[r].left :
              /\ \E m \in Messages : /\ Pushed(m) /\ m.kind = "tool" /\ m.covers = {}
                                     /\ m.call = <<run[r].group, k>>
              /\ run'[r].left = run[r].left \ {k}
         /\ run'[r].pc \in {"tools", "attach", "answer"} /\ run'[r].state = run[r].state
         /\ run'[r].group = run[r].group
<1>1. PICK k \in run[r].left :
        /\ Push([Message("tool") EXCEPT !.call = <<run[r].group, k>>, !.text = FALSE])
        /\ Becomes(r, [run[r] EXCEPT !.left = run[r].left \ {k},
                     !.pc = IF log[run[r].group].calls[k] = "skill" THEN "attach"
                            ELSE IF run[r].left = {k} THEN "answer" ELSE "tools"])
  BY DEF AppendResult
<1> DEFINE pc == IF log[run[r].group].calls[k] = "skill" THEN "attach"
                 ELSE IF run[r].left = {k} THEN "answer" ELSE "tools"
           m == [Message("tool") EXCEPT !.call = <<run[r].group, k>>, !.text = FALSE]
           frame == [run[r] EXCEPT !.left = run[r].left \ {k}, !.pc = pc]
<1>2. pc \in {"tools", "attach", "answer"}
  OBVIOUS
<1> HIDE DEF pc
<1>3. run[r] \in Frames /\ k \in Nat /\ run[r].group \in Nat
  BY DEF Typed, Frames
<1>4. Message("tool") \in Messages
  BY MessageTyped DEF Kinds
<1>5. m \in Messages
  BY <1>3, <1>4 DEF Messages
<1>6. m.kind = "tool" /\ m.covers = {} /\ m.call = <<run[r].group, k>>
  BY DEF Message
<1>7. /\ frame \in Frames /\ frame.pc = pc /\ frame.state = run[r].state
      /\ frame.group = run[r].group /\ frame.left = run[r].left \ {k}
  BY <1>2, <1>3 DEF Frames, Pcs
<1> HIDE DEF m, frame
<1>8. Push(m) /\ Becomes(r, frame)
  BY <1>1 DEF m, frame, pc
<1>9. Pushed(m) /\ Grows
  BY <1>5, <1>8, Pushing DEF Pushed
<1>10. run' \in [Runs -> Frames] /\ run'[r] = frame /\ Others(r)
  BY <1>7, <1>8, Becoming
<1>11. Keeps(r)
  BY <1>9, <1>10, PushKeeps DEF AppendResult, Typed
<1>12. QED  BY <1>2, <1>5, <1>6, <1>7, <1>9, <1>10, <1>11 DEF AppendResult

\* AppendAttached: the hidden message of the skill tool.
LEMMA AppendAttachedDoes ==
  ASSUME Typed, NEW r \in Runs, AppendAttached(r)
  PROVE  /\ Keeps(r) /\ UNCHANGED <<summary, dirty, seen>> /\ At(r, "attach")
         /\ \E m \in Messages : Pushed(m) /\ m.kind = "skill" /\ m.covers = {}
         /\ run'[r].pc \in {"tools", "answer"} /\ run'[r].state = run[r].state
         /\ run'[r].group = run[r].group /\ run'[r].left = run[r].left
<1> DEFINE pc == IF run[r].left = {} THEN "answer" ELSE "tools"
           m == Message("skill")
<1>1. pc \in Pcs /\ pc \in {"tools", "answer"}
  BY DEF Pcs
<1> HIDE DEF pc
<1>2. Goto(r, pc)
  BY DEF AppendAttached, pc
<1>3. /\ run' \in [Runs -> Frames] /\ Others(r)
      /\ run'[r].pc = pc /\ run'[r].state = run[r].state
      /\ run'[r].group = run[r].group /\ run'[r].left = run[r].left
  BY <1>1, <1>2, Going
<1>4. m \in Messages /\ m.kind = "skill" /\ m.covers = {}
  BY MessageTyped DEF Kinds
<1>5. Push(m)
  BY DEF AppendAttached
<1> HIDE DEF m
<1>6. Pushed(m) /\ Grows
  BY <1>4, <1>5, Pushing DEF Pushed
<1>7. Keeps(r)
  BY <1>3, <1>6, PushKeeps DEF AppendAttached, Typed
<1>8. QED  BY <1>1, <1>3, <1>4, <1>6, <1>7 DEF AppendAttached

\* AppendAnswer: the answer, and the run ends.
LEMMA AppendAnswerDoes ==
  ASSUME Typed, NEW r \in Runs, AppendAnswer(r)
  PROVE  /\ Keeps(r) /\ UNCHANGED <<summary, dirty, seen>> /\ run[r].pc \in {"turn", "answer"}
         /\ \E m \in Messages : Pushed(m) /\ m.kind = "assistant" /\ m.covers = {}
         /\ run'[r].pc = "done" /\ run'[r].state = NoState
<1> DEFINE m == Message("assistant")
<1>1. /\ run' \in [Runs -> Frames] /\ Others(r)
      /\ run'[r].pc = "done" /\ run'[r].state = NoState
  BY Ending DEF AppendAnswer
<1>2. m \in Messages /\ m.kind = "assistant" /\ m.covers = {}
  BY MessageTyped DEF Kinds
<1>3. Push(m)
  BY DEF AppendAnswer
<1> HIDE DEF m
<1>4. Pushed(m) /\ Grows
  BY <1>2, <1>3, Pushing DEF Pushed
<1>5. Keeps(r)
  BY <1>1, <1>4, PushKeeps DEF AppendAnswer, Typed
<1>6. QED  BY <1>1, <1>2, <1>4, <1>5 DEF AppendAnswer

\* Interrupted: the run ends, perhaps with a hint.
LEMMA InterruptedDoes ==
  ASSUME Typed, NEW r \in Runs, Interrupted(r)
  PROVE  /\ Keeps(r) /\ UNCHANGED <<summary, dirty>>
         /\ run[r].pc \in {"mark", "user", "turn", "tools", "attach", "answer"}
         /\ \/ log' = log
            \/ \E m \in Messages : Pushed(m) /\ m.kind = "hint" /\ m.covers = {}
         /\ run'[r].pc = "done" /\ run'[r].state = NoState
         /\ seen \subseteq seen'
         /\ run[r].pc \in {"mark", "user"} /\ run[r].keep # 0 => "gap" \in seen'
<1> DEFINE m == Message("hint")
<1>1. /\ run' \in [Runs -> Frames] /\ Others(r)
      /\ run'[r].pc = "done" /\ run'[r].state = NoState
  BY Ending DEF Interrupted
<1>2. m \in Messages /\ m.kind = "hint" /\ m.covers = {}
  BY MessageTyped DEF Kinds
<1>3. Push(m) \/ log' = log
  BY DEF Interrupted
<1> HIDE DEF m
<1>4. log' = log \/ (Pushed(m) /\ Grows)
  BY <1>2, <1>3, Pushing DEF Pushed
<1>5. Grows
  BY <1>4 DEF Grows
<1>6. seen' = seen \union IF run[r].pc \in {"mark", "user"} /\ run[r].keep # 0
                          THEN {"gap"} ELSE {}
  BY DEF Interrupted
<1>7. seen' \subseteq Mishaps
  BY <1>6 DEF Typed, Mishaps
<1>8. Keeps(r)
  BY <1>1, <1>5, <1>7, PushKeeps DEF Interrupted, Typed
<1>9. QED  BY <1>1, <1>2, <1>4, <1>6, <1>8 DEF Interrupted

-----------------------------------------------------------------------------
(* The inductive invariant.                                                 *)

\* Every summary state a run can come to use is right.
StatesInv ==
  /\ StateOK(log, summary)
  /\ \A r \in Runs : /\ StateOK(log, run[r].state)
                     /\ run[r].pc = "range" => run[r].state # NoState

\* Places of a run that holds a window, of one with a border in it, and of one
\* that has no border yet.
Planning == {"plan", "length", "persist"}

Bordered == {"length", "persist"}

Unplanned == {"idle", "state", "range", "all", "plan"}

WindowFor(r) ==
  /\ run[r].pc \in Planning => WindowOK(r)
  /\ run[r].pc \in Bordered => /\ run[r].keep \in Range(run[r].window)
                              /\ Summed(r, run[r].old, run[r].keep)
  /\ run[r].pc \in Unplanned => run[r].keep = 0

WindowInv == \A r \in Runs : WindowFor(r)

\* A later summary is made of the message at i, or may leave it out.
Stands(i) ==
  \/ i \in 1..Len(log) /\ Expendable(log, i)
  \/ \E s \in (i + 1)..Len(log) : i \in log[s].covers /\ log[s].kind = "summary"

\* What lies before a has a summary that is made of it, or may be left out.
Stood(a) == \A i \in 1..(a - 1) : Stands(i)

\* A run that plans knows of all that is not newer than its window.
Reaches(r) ==
  \A i \in 1..Len(log) : \/ i \in Range(run[r].window) \/ Stands(i)
                         \/ \A j \in Range(run[r].window) : j < i

ReachFor(r) == Stood(From(run[r].state)) /\ (run[r].pc \in Planning => Reaches(r))

ReachInv == Stood(From(summary)) /\ \A r \in Runs : ReachFor(r)

\* The results in the list answer calls, and each call of a run at work is
\* open until its result is written.
Turning == {"tools", "attach"}

TurnFor(r) ==
  run[r].pc \in Turning =>
    /\ run[r].group \in 1..Len(log) /\ log[run[r].group].kind = "calls"
    /\ run[r].left \subseteq 1..Len(log[run[r].group].calls)
    /\ \A k \in run[r].left, i \in 1..Len(log) :
         log[i].kind = "tool" => log[i].call # <<run[r].group, k>>

AnswerInv ==
  /\ Answers(log) /\ AnswersOnce(log)
  /\ \A r \in Runs : TurnFor(r)
  /\ \A q, r \in Runs : run[q].pc \in Turning /\ run[r].pc \in Turning
                          /\ run[q].group = run[r].group => q = r

\* Without an overlap one run is at work, its window is that of the list, and
\* nothing comes between the calls of its message and their results.
Quiet(p) == \A i \in p..Len(log) : log[i].kind \notin {"user", "summary"}

SerialFor(r) ==
  /\ run[r].pc \in {"range", "all"} => run[r].state = summary
  /\ run[r].pc \in Planning => run[r].window = FullWindow(log, summary)
  /\ run[r].pc \in Turning => Quiet(run[r].group)

SerialInv ==
  "overlap" \notin seen =>
    /\ \A q, r \in Runs : Active(q) /\ Active(r) => q = r
    /\ \A r \in Runs : SerialFor(r)
    /\ AnswersSoon(log)

\* Without a mishap a summary leaves two rounds behind its border, and a
\* third follows before the next run.
RoundsFrom(p) == {k \in p..Len(log) : log[k].kind = "user"}

Pending(r) == run[r].pc \in {"mark", "user"} /\ run[r].keep # 0

RoundsInv ==
  seen = {} =>
    /\ \A r \in Runs : run[r].pc \in Bordered =>
         Cardinality(RoundsFrom(1)) > 2 /\ Cardinality(RoundsFrom(run[r].keep)) > 1
    /\ summary # NoState => Cardinality(RoundsFrom(summary.start)) > 1
    /\ summary # NoState /\ (\A r \in Runs : ~Pending(r)) =>
         Cardinality(RoundsFrom(summary.start)) > 2
    /\ RecentRoundsKept

IInv == /\ Typed /\ StatesInv /\ WindowInv /\ ReachInv /\ AnswerInv /\ SerialInv /\ RoundsInv

\* The invariant says that the list is of its type and its results answer calls.
LEMMA LogIsOK == ASSUME IInv PROVE LogOK(log)
BY DEF IInv, Typed, AnswerInv, LogOK

\* The actions of a step, as cases.
LEMMA StepCases ==
  ASSUME NEW r \in Runs, Step(r)
  PROVE  \/ Start(r) \/ ReadState(r) \/ ReadRange(r) \/ ReadAll(r)
         \/ Fits(r) \/ Refused(r) \/ Summarize(r) \/ ReadLength(r) \/ PersistSummary(r)
         \/ MarkDirty(r) \/ AppendUser(r) \/ AppendCalls(r) \/ AppendResult(r)
         \/ AppendAttached(r) \/ AppendAnswer(r) \/ Interrupted(r)
BY DEF Step

\* What a run that reads or plans relies on.
LEMMA RangeReady ==
  ASSUME IInv, NEW r \in Runs
  PROVE  /\ StateOK(log, run[r].state)
         /\ At(r, "range") => run[r].state # NoState
         /\ At(r, "plan") => WindowOK(r)
BY DEF IInv, StatesInv, WindowInv, WindowFor, Planning, At

\* What becomes of the summary states.
LEMMA StepStates ==
  ASSUME IInv, NEW r \in Runs, Step(r)
  PROVE  /\ Keeps(r)
         /\ run'[r].state \in {run[r].state, summary, NoState}
         /\ run'[r].pc = "range" => run'[r].state # NoState
         /\ summary' = summary \/ PersistSummary(r)
<1>1. Typed /\ LogOK(log)
  BY LogIsOK DEF IInv
<1>2. CASE Start(r)
  BY <1>1, <1>2, StartDoes
<1>3. CASE ReadState(r)
  BY <1>1, <1>3, ReadStateDoes
<1>4. CASE ReadRange(r)
  <2>1. At(r, "range")
    BY <1>4 DEF ReadRange
  <2>2. StateOK(log, run[r].state) /\ run[r].state # NoState
    BY <2>1, RangeReady
  <2>3. QED  BY <1>1, <1>4, <2>2, ReadRangeDoes DEF ReadsWindow
<1>5. CASE ReadAll(r)
  <2>1. StateOK(log, run[r].state)
    BY RangeReady
  <2>2. QED  BY <1>1, <1>5, <2>1, ReadAllDoes DEF ReadsWindow
<1>6. CASE Fits(r)
  BY <1>1, <1>6, FitsDoes
<1>7. CASE Refused(r)
  BY <1>1, <1>7, RefusedDoes
<1>8. CASE Summarize(r)
  <2>1. WindowOK(r)
    BY <1>8, RangeReady DEF Summarize
  <2>2. QED  BY <1>1, <1>8, <2>1, SummarizeDoes
<1>9. CASE ReadLength(r)
  BY <1>1, <1>9, ReadLengthDoes
<1>10. CASE PersistSummary(r)
  BY <1>1, <1>10, PersistSummaryDoes
<1>11. CASE MarkDirty(r)
  BY <1>1, <1>11, MarkDirtyDoes
<1>12. CASE AppendUser(r)
  BY <1>1, <1>12, AppendUserDoes
<1>13. CASE AppendCalls(r)
  BY <1>1, <1>13, AppendCallsDoes
<1>14. CASE AppendResult(r)
  BY <1>1, <1>14, AppendResultDoes
<1>15. CASE AppendAttached(r)
  BY <1>1, <1>15, AppendAttachedDoes
<1>16. CASE AppendAnswer(r)
  BY <1>1, <1>16, AppendAnswerDoes
<1>17. CASE Interrupted(r)
  BY <1>1, <1>17, InterruptedDoes
<1>18. QED
  BY <1>2, <1>3, <1>4, <1>5, <1>6, <1>7, <1>8, <1>9, <1>10, <1>11, <1>12, <1>13,
     <1>14, <1>15, <1>16, <1>17, StepCases

\* What every step keeps of the list and the other runs.
LEMMA Grown ==
  ASSUME IInv, NEW r \in Runs, Step(r)
  PROVE  /\ Typed' /\ log' \in Seq(Messages) /\ Len(log) \in Nat /\ Len(log') \in Nat
         /\ Len(log') = Len(log) \/ Len(log') = Len(log) + 1
         /\ \A i \in 1..Len(log) : log'[i] = log[i] /\ i \in 1..Len(log')
         /\ \A q \in Runs : q # r => run'[q] = run[q]
<1>1. Typed /\ Keeps(r)
  BY StepStates DEF IInv
<1>2. QED  BY <1>1, Growing DEF Keeps, Others

\* A summary state stays right when the list grows.
LEMMA StateStays ==
  ASSUME IInv, NEW r \in Runs, Step(r), NEW st, StateOK(log, st)
  PROVE  StateOK(log', st)
<1>1. st \in States
  BY DEF StateOK
<1>2. CASE st # NoState
  <2>1. st.id \in 1..Len(log)
    BY <1>2 DEF StateOK
  <2>2. st.id \in 1..Len(log') /\ log'[st.id] = log[st.id]
    BY <2>1, Grown
  <2>3. QED  BY <1>1, <1>2, <2>2 DEF StateOK
<1>3. CASE st = NoState
  BY <1>1, <1>3 DEF StateOK
<1>4. QED  BY <1>2, <1>3

\* The summary states stay right: a step takes one over, drops it or writes a right one.
LEMMA StatesStep ==
  ASSUME IInv, NEW r \in Runs, Step(r)
  PROVE  StatesInv'
<1>1. /\ run'[r].state \in {run[r].state, summary, NoState}
      /\ run'[r].pc = "range" => run'[r].state # NoState
      /\ summary' = summary \/ PersistSummary(r)
  BY StepStates
<1>2. /\ StateOK(log, summary)
      /\ \A q \in Runs : /\ StateOK(log, run[q].state)
                         /\ run[q].pc = "range" => run[q].state # NoState
  BY DEF IInv, StatesInv
<1>3. StateOK(log, NoState)
  BY FrameTyped DEF StateOK
<1>4. StateOK(log', summary')
  <2>1. CASE summary' = summary
    BY <1>2, <2>1, StateStays
  <2>2. CASE PersistSummary(r)
    <3>1. /\ At(r, "persist")
          /\ \E m \in Messages : Pushed(m) /\ m.kind = "summary" /\ m.covers = run[r].old
          /\ summary'.id = Len(log) + 1 /\ summary'.start = run[r].keep
          /\ summary'.startOffset = run[r].keep /\ summary' \in States
      BY <2>2, PersistSummaryDoes DEF IInv
    <3>2. run[r].keep \in 1..Len(log)
      BY <3>1 DEF IInv, WindowInv, WindowFor, WindowOK, Planning, Bordered, At, Range
    <3>3. Len(log') = Len(log) + 1 /\ log'[Len(log) + 1].kind = "summary" /\ Len(log) \in Nat
      BY <3>1, Grown DEF Pushed
    <3>4. Len(log) + 1 \in 1..Len(log') /\ run[r].keep \in 1..((Len(log) + 1) - 1)
      BY <3>2, <3>3
    <3>5. QED  BY <3>1, <3>3, <3>4 DEF StateOK
  <2>3. QED  BY <1>1, <2>1, <2>2
<1>5. ASSUME NEW q \in Runs
      PROVE  /\ StateOK(log', run'[q].state)
             /\ run'[q].pc = "range" => run'[q].state # NoState
  <2>1. CASE q # r
    <3>1. run'[q] = run[q]
      BY <2>1, Grown
    <3>2. StateOK(log', run[q].state)
      BY <1>2, StateStays
    <3>3. QED  BY <1>2, <3>1, <3>2
  <2>2. CASE q = r
    <3>1. StateOK(log, run'[q].state)
      BY <1>1, <1>2, <1>3, <2>2
    <3>2. QED  BY <1>1, <2>2, <3>1, StateStays
  <2>3. QED  BY <2>1, <2>2
<1>6. QED  BY <1>4, <1>5 DEF StatesInv

\* A window keeps its places when the list grows.
LEMMA WindowStays ==
  ASSUME IInv, NEW r \in Runs, Step(r), NEW q \in Runs, WindowOK(q),
         run'[q].window = run[q].window
  PROVE  WindowOK(q)'
<1>1. /\ run[q].window \in Seq(1..Len(log))
      /\ \A j, k \in DOMAIN run[q].window : run[q].window[j] = run[q].window[k] => j = k
  BY DEF WindowOK
<1>2. 1..Len(log) \subseteq 1..Len(log')
  BY Grown
<1>3. run[q].window \in Seq(1..Len(log'))
  BY <1>1, <1>2, SeqMonotonic
<1>4. QED  BY <1>1, <1>3 DEF WindowOK

\* What may be left out stays so when the list grows.
LEMMA ExpendableStays ==
  ASSUME IInv, NEW r \in Runs, Step(r), NEW i \in 1..Len(log)
  PROVE  Expendable(log, i)' <=> Expendable(log, i)
<1>1. LogOK(log) /\ log'[i] = log[i]
  BY LogIsOK, Grown
<1>2. CASE log[i].kind = "tool"
  <2>1. log[i].call[1] \in 1..(i - 1)
    BY <1>1, <1>2, ToolCallIs
  <2>2. log[i].call[1] \in 1..Len(log)
    BY <2>1, Grown
  <2>3. log'[log[i].call[1]] = log[log[i].call[1]]
    BY <2>2, Grown
  <2>4. QED  BY <1>1, <2>3 DEF Expendable, ToolOf
<1>3. CASE log[i].kind # "tool"
  BY <1>1, <1>3 DEF Expendable
<1>4. QED  BY <1>2, <1>3

\* What a run summarizes stays all that is old.
LEMMA SummedStays ==
  ASSUME IInv, NEW r \in Runs, Step(r), NEW q \in Runs, WindowOK(q),
         Summed(q, run[q].old, run[q].keep), run'[q] = run[q]
  PROVE  Summed(q, run[q].old, run[q].keep)'
<1>1. Range(run[q].window) \subseteq 1..Len(log)
  BY DEF WindowOK, Range
<1>2. \A i \in Range(run[q].window) : Expendable(log, i)' <=> Expendable(log, i)
  BY <1>1, ExpendableStays
<1>3. QED  BY <1>2 DEF Summed

\* What becomes of the window and the border of the run that moves.
LEMMA StepWindow ==
  ASSUME IInv, NEW r \in Runs, Step(r)
  PROVE  \/ /\ run'[r].pc \notin Planning
            /\ run'[r].pc \in Unplanned => run[r].pc \in Unplanned /\ run'[r].keep = run[r].keep
         \/ /\ ReadsWindow(r) /\ run[r].pc \in {"range", "all"} /\ UNCHANGED <<log, summary>>
         \/ /\ run[r].pc \in Planning /\ run'[r].pc \in Bordered
            /\ run'[r].window = run[r].window /\ UNCHANGED <<log, summary>>
            /\ run'[r].keep \in Range(run[r].window)
            /\ Summed(r, run'[r].old, run'[r].keep)
<1>1. Typed /\ LogOK(log)
  BY LogIsOK DEF IInv
<1> USE DEF At, Planning, Bordered, Unplanned
<1>2. CASE Start(r)
  BY <1>1, <1>2, StartDoes
<1>3. CASE ReadState(r)
  BY <1>1, <1>3, ReadStateDoes
<1>4. CASE ReadRange(r)
  <2>1. At(r, "range")
    BY <1>4 DEF ReadRange
  <2>2. StateOK(log, run[r].state) /\ run[r].state # NoState
    BY <2>1, RangeReady
  <2>3. QED  BY <1>1, <1>4, <2>1, <2>2, ReadRangeDoes
<1>5. CASE ReadAll(r)
  <2>1. StateOK(log, run[r].state)
    BY RangeReady
  <2>2. QED  BY <1>1, <1>5, <2>1, ReadAllDoes
<1>6. CASE Fits(r)
  BY <1>1, <1>6, FitsDoes
<1>7. CASE Refused(r)
  BY <1>1, <1>7, RefusedDoes
<1>8. CASE Summarize(r)
  <2>1. WindowOK(r)
    BY <1>8, RangeReady DEF Summarize
  <2>2. QED  BY <1>1, <1>8, <2>1, SummarizeDoes
<1>9. CASE ReadLength(r)
  <2>1. At(r, "length")
    BY <1>9 DEF ReadLength
  <2>2. run[r].keep \in Range(run[r].window) /\ Summed(r, run[r].old, run[r].keep)
    BY <2>1 DEF IInv, WindowInv, WindowFor
  <2>3. QED  BY <1>1, <1>9, <2>2, ReadLengthDoes
<1>10. CASE PersistSummary(r)
  BY <1>1, <1>10, PersistSummaryDoes
<1>11. CASE MarkDirty(r)
  BY <1>1, <1>11, MarkDirtyDoes
<1>12. CASE AppendUser(r)
  BY <1>1, <1>12, AppendUserDoes
<1>13. CASE AppendCalls(r)
  BY <1>1, <1>13, AppendCallsDoes
<1>14. CASE AppendResult(r)
  BY <1>1, <1>14, AppendResultDoes
<1>15. CASE AppendAttached(r)
  BY <1>1, <1>15, AppendAttachedDoes
<1>16. CASE AppendAnswer(r)
  BY <1>1, <1>16, AppendAnswerDoes
<1>17. CASE Interrupted(r)
  BY <1>1, <1>17, InterruptedDoes
<1>18. QED
  BY <1>2, <1>3, <1>4, <1>5, <1>6, <1>7, <1>8, <1>9, <1>10, <1>11, <1>12, <1>13,
     <1>14, <1>15, <1>16, <1>17, StepCases

\* The window of the state a run has read is what the list has from its start on.
LEMMA ReadWindowOK ==
  ASSUME IInv, NEW r \in Runs
  PROVE  IsWindow(FullWindow(log, run[r].state), From(run[r].state), Len(log))
<1>1. StateOK(log, run[r].state) /\ Len(log) \in Nat
  BY DEF IInv, StatesInv, Typed
<1>2. QED  BY <1>1, FullWindowIs

\* The windows and borders stay places of the list.
LEMMA WindowStep ==
  ASSUME IInv, NEW r \in Runs, Step(r)
  PROVE  WindowInv'
<1>1. ASSUME NEW q \in Runs, q # r PROVE WindowFor(q)'
  <2>1. run'[q] = run[q]
    BY <1>1, Grown
  <2>2. WindowFor(q)
    BY DEF IInv, WindowInv
  <2>3. WindowOK(q) => WindowOK(q)'
    BY <2>1, WindowStays
  <2>4. run[q].pc \in Bordered => Summed(q, run[q].old, run[q].keep)'
    BY <2>1, <2>2, SummedStays DEF WindowFor, Bordered, Planning
  <2>5. QED  BY <2>1, <2>2, <2>3, <2>4 DEF WindowFor
<1>2. WindowFor(r)'
  <2>1. WindowFor(r)
    BY DEF IInv, WindowInv
  <2>2. CASE /\ run'[r].pc \notin Planning
             /\ run'[r].pc \in Unplanned => run[r].pc \in Unplanned /\ run'[r].keep = run[r].keep
    <3>1. run'[r].pc \notin Bordered
      BY <2>2 DEF Planning, Bordered
    <3>2. run'[r].pc \in Unplanned => run'[r].keep = 0
      BY <2>1, <2>2 DEF WindowFor
    <3>3. QED  BY <2>2, <3>1, <3>2 DEF WindowFor
  <2>3. CASE ReadsWindow(r) /\ run[r].pc \in {"range", "all"} /\ UNCHANGED <<log, summary>>
    <3>1. run'[r].pc = "plan" /\ run'[r].keep = run[r].keep
      BY <2>3 DEF ReadsWindow
    <3>2. run[r].keep = 0
      BY <2>1, <2>3 DEF WindowFor, Unplanned
    <3>3. WindowOK(r)'
      <4> DEFINE w == FullWindow(log, run[r].state)
      <4>1. w \in Seq(1..Len(log)) /\ \A j, k \in DOMAIN w : w[j] = w[k] => j = k
        BY ReadWindowOK DEF IsWindow
      <4>2. run'[r].window = w /\ log' = log
        BY <2>3 DEF ReadsWindow
      <4> HIDE DEF w
      <4>3. QED  BY <4>1, <4>2 DEF WindowOK
    <3>4. QED  BY <3>1, <3>2, <3>3 DEF WindowFor, Planning, Bordered, Unplanned
  <2>4. CASE /\ run[r].pc \in Planning /\ run'[r].pc \in Bordered
             /\ run'[r].window = run[r].window /\ UNCHANGED <<log, summary>>
             /\ run'[r].keep \in Range(run[r].window)
             /\ Summed(r, run'[r].old, run'[r].keep)
    <3>1. WindowOK(r)
      BY <2>1, <2>4 DEF WindowFor
    <3>2. WindowOK(r)'
      BY <2>4, <3>1, WindowStays
    <3>3. run'[r].pc \notin Unplanned
      BY <2>4 DEF Bordered, Unplanned
    <3>4. Summed(r, run[r].old, run[r].keep)'
      BY <2>4 DEF Summed
    <3>5. QED  BY <2>4, <3>2, <3>3, <3>4 DEF WindowFor
  <2>5. QED  BY <2>2, <2>3, <2>4, StepWindow
<1>3. QED  BY <1>1, <1>2 DEF WindowInv

\* A message that stands for another stays.
LEMMA StandsStays ==
  ASSUME IInv, NEW r \in Runs, Step(r), NEW i \in Nat, Stands(i)
  PROVE  Stands(i)'
<1>1. CASE i \in 1..Len(log) /\ Expendable(log, i)
  BY <1>1, ExpendableStays, Grown DEF Stands
<1>2. ASSUME NEW s \in (i + 1)..Len(log), i \in log[s].covers, log[s].kind = "summary"
      PROVE  Stands(i)'
  <2>1. s \in 1..Len(log) /\ Len(log) \in Nat /\ Len(log') \in Nat
    BY Grown
  <2>2. s \in (i + 1)..Len(log') /\ log'[s] = log[s]
    BY <2>1, Grown
  <2>3. QED  BY <1>2, <2>2 DEF Stands
<1>3. QED  BY <1>1, <1>2 DEF Stands

\* What has a summary that stands for it keeps it.
LEMMA StoodStays ==
  ASSUME IInv, NEW r \in Runs, Step(r), NEW a \in Nat, Stood(a)
  PROVE  Stood(a)'
<1>1. \A i \in 1..(a - 1) : Stands(i)'
  <2> TAKE i \in 1..(a - 1)
  <2>1. i \in Nat /\ Stands(i)
    BY DEF Stood
  <2>2. QED  BY <2>1, StandsStays
<1>2. QED  BY <1>1 DEF Stood

\* A run that plans still knows of all that is not newer than its window.
LEMMA ReachesStays ==
  ASSUME IInv, NEW r \in Runs, Step(r), NEW q \in Runs, WindowOK(q), Reaches(q),
         run'[q].window = run[q].window
  PROVE  Reaches(q)'
<1> DEFINE w == run[q].window
<1>1. /\ \A i \in 1..Len(log) : i \in Range(w) \/ Stands(i) \/ \A j \in Range(w) : j < i
      /\ Range(w) \subseteq 1..Len(log)
  BY DEF Reaches, WindowOK, Range
<1>2. /\ Len(log) \in Nat /\ Len(log') \in Nat
      /\ Len(log') = Len(log) \/ Len(log') = Len(log) + 1
  BY Grown
<1>3. ASSUME NEW i \in 1..Len(log')
      PROVE  i \in Range(w) \/ Stands(i)' \/ \A j \in Range(w) : j < i
  <2>1. CASE i \in 1..Len(log)
    <3>1. i \in Nat /\ (Stands(i) => Stands(i)')
      BY <1>2, StandsStays
    <3>2. QED  BY <1>1, <2>1, <3>1
  <2>2. CASE i \notin 1..Len(log)
    <3>1. i > Len(log)
      BY <1>2, <2>2
    <3>2. ASSUME NEW j \in Range(w) PROVE j < i
      <4>1. j \in 1..Len(log)
        BY <1>1
      <4>2. QED  BY <1>2, <3>1, <4>1
    <3>3. QED  BY <3>2
  <2>3. QED  BY <2>1, <2>2
<1>4. QED  BY <1>3 DEF Reaches

\* The start of a window, as a place.
LEMMA FromTyped ==
  ASSUME IInv
  PROVE  /\ From(summary) \in Nat \ {0}
         /\ \A q \in Runs : From(run[q].state) \in Nat \ {0}
<1>1. /\ StateOK(log, summary) /\ Len(log) \in Nat
      /\ \A q \in Runs : StateOK(log, run[q].state)
  BY DEF IInv, StatesInv, Typed
<1>2. QED  BY <1>1, FromIsPlace

\* What a new summary leaves out of the window may be left out, or has a summary.
LEMMA ReachStep ==
  ASSUME IInv, NEW r \in Runs, Step(r)
  PROVE  ReachInv'
<1>1. /\ Stood(From(summary))
      /\ \A q \in Runs : ReachFor(q)
  BY DEF IInv, ReachInv
<1>2. /\ From(summary) \in Nat \ {0}
      /\ \A q \in Runs : From(run[q].state) \in Nat \ {0}
  BY FromTyped
<1>3. /\ run'[r].state \in {run[r].state, summary, NoState}
      /\ summary' = summary \/ PersistSummary(r)
  BY StepStates
<1>4. Stood(From(NoState))'
  BY DEF Stood, From
<1>5. Stood(From(summary))'
  <2>1. CASE summary' = summary
    <3>1. PICK a \in Nat : a = From(summary)
      BY <1>2
    <3>2. Stood(a)'
      BY <1>1, <3>1, StoodStays
    <3>3. From(summary)' = a
      BY <2>1, <3>1 DEF From
    <3>4. QED  BY <3>2, <3>3 DEF Stood
  <2>2. CASE PersistSummary(r)
    <3>1. At(r, "persist") /\ summary'.start = run[r].keep
      BY <2>2, PersistSummaryDoes DEF IInv
    <3>2. PICK m \in Messages : Pushed(m) /\ m.kind = "summary" /\ m.covers = run[r].old
      BY <2>2, PersistSummaryDoes DEF IInv
    <3>3. /\ WindowOK(r) /\ run[r].keep \in Range(run[r].window) /\ Reaches(r)
          /\ Summed(r, run[r].old, run[r].keep)
      BY <1>1, <3>1 DEF IInv, WindowInv, WindowFor, ReachFor, Planning, Bordered, At
    <3>4. Len(log) \in Nat /\ Range(run[r].window) \subseteq 1..Len(log)
      BY <3>3, Grown DEF WindowOK, Range
    <3>5. PICK keep \in 1..Len(log) : keep = run[r].keep
      BY <3>3, <3>4
    <3>6. ASSUME NEW i \in 1..(keep - 1) PROVE Stands(i)'
      <4>1. i \in 1..Len(log) /\ i < keep /\ i \in Nat
        BY <3>4
      <4>2. i \in Range(run[r].window) \/ Stands(i)
        <5>1. ~(keep < i)
          BY <4>1
        <5>2. QED  BY <3>3, <3>5, <4>1, <5>1 DEF Reaches
      <4>3. CASE Stands(i)
        BY <4>1, <4>3, StandsStays
      <4>4. CASE i \in run[r].old
        <5>2. Len(log) + 1 \in (i + 1)..Len(log')
          BY <3>2, <3>4, <4>1 DEF Pushed
        <5>3. i \in log'[Len(log) + 1].covers /\ log'[Len(log) + 1].kind = "summary"
          BY <3>2, <4>4 DEF Pushed
        <5>4. QED  BY <5>2, <5>3 DEF Stands
      <4>5. i \in run[r].old \/ Stands(i)
        <5>1. i \in Range(run[r].window) => i \in run[r].old \/ Expendable(log, i)
          BY <3>3, <3>5, <4>1 DEF Summed
        <5>2. QED  BY <4>1, <4>2, <5>1 DEF Stands
      <4>6. QED  BY <4>3, <4>4, <4>5
    <3>7. From(summary)' = keep \/ From(summary)' = 1
      BY <3>1, <3>5 DEF From
    <3>8. \A i \in 1..(From(summary)' - 1) : Stands(i)'
      BY <3>6, <3>7
    <3>9. QED  BY <3>8 DEF Stood
  <2>3. QED  BY <1>3, <2>1, <2>2
<1>6. ASSUME NEW q \in Runs, q # r PROVE ReachFor(q)'
  <2>1. run'[q] = run[q] /\ ReachFor(q)
    BY <1>1, <1>6, Grown
  <2>2. PICK a \in Nat : a = From(run[q].state)
    BY <1>2
  <2>3. Stood(a)'
    BY <2>1, <2>2, StoodStays DEF ReachFor
  <2>4. From(run[q].state)' = a
    BY <2>1, <2>2 DEF From
  <2>5. run[q].pc \in Planning => Reaches(q)'
    <3> SUFFICES ASSUME run[q].pc \in Planning PROVE Reaches(q)'
      OBVIOUS
    <3>1. WindowOK(q) /\ Reaches(q)
      BY <2>1 DEF IInv, WindowInv, WindowFor, ReachFor
    <3>2. QED  BY <2>1, <3>1, ReachesStays
  <2>6. Stood(From(run[q].state))'
    BY <2>3, <2>4 DEF Stood
  <2>7. QED  BY <2>1, <2>5, <2>6 DEF ReachFor
<1>7. ReachFor(r)'
  <2>1. Stood(From(run[r].state))'
    <3>1. CASE run'[r].state = NoState
      <4>1. From(run[r].state)' = From(NoState)
        BY <3>1 DEF From
      <4>2. QED  BY <1>4, <4>1 DEF Stood, From
    <3>2. CASE run'[r].state = run[r].state \/ run'[r].state = summary
      <4>1. PICK a \in Nat : a = From(run'[r].state) /\ Stood(a)
        BY <1>1, <1>2, <3>2 DEF ReachFor
      <4>2. Stood(a)'
        BY <4>1, StoodStays
      <4>3. From(run[r].state)' = a
        BY <4>1 DEF From
      <4>4. QED  BY <4>2, <4>3 DEF Stood
    <3>3. QED  BY <1>3, <3>1, <3>2
  <2>2. run'[r].pc \in Planning => Reaches(r)'
    <3>1. CASE run'[r].pc \notin Planning
      BY <3>1
    <3>2. CASE ReadsWindow(r) /\ UNCHANGED <<log, summary>>
      <4> DEFINE w == FullWindow(log, run[r].state)
                 a == From(run[r].state)
      <4>1. run'[r].window = w /\ log' = log
        BY <3>2 DEF ReadsWindow
      <4>2. Range(w) = a..Len(log)
        BY ReadWindowOK DEF IsWindow
      <4>3. a \in Nat \ {0} /\ Stood(a) /\ Len(log) \in Nat
        BY <1>1, <1>2, Grown DEF ReachFor
      <4> HIDE DEF w, a
      <4>4. ASSUME NEW i \in 1..Len(log) PROVE i \in Range(w) \/ Stands(i)
        <5>1. i \in a..Len(log) \/ i \in 1..(a - 1)
          BY <4>3
        <5>2. QED  BY <4>2, <4>3, <5>1 DEF Stood
      <4>5. \A i \in 1..Len(log) : Stands(i)' <=> Stands(i)
        BY <4>1 DEF Stands, Expendable
      <4>6. QED  BY <4>1, <4>4, <4>5 DEF Reaches
    <3>3. CASE run[r].pc \in Planning /\ run'[r].window = run[r].window
      <4>1. WindowOK(r) /\ Reaches(r)
        BY <1>1, <3>3 DEF IInv, WindowInv, WindowFor, ReachFor
      <4>2. QED  BY <3>3, <4>1, ReachesStays
    <3>4. QED  BY <3>1, <3>2, <3>3, StepWindow
  <2>3. QED  BY <2>1, <2>2 DEF ReachFor
<1>8. QED  BY <1>5, <1>6, <1>7 DEF ReachInv

\* What becomes of the rest.
Turned(r) ==
  \/ /\ run'[r].pc \notin Turning
     /\ log' = log \/ \E m \in Messages : Pushed(m) /\ m.kind # "tool"
  \/ AppendCalls(r) \/ AppendResult(r) \/ AppendAttached(r)

Reading(r) ==
  run'[r].pc \in {"range", "all"} =>
    /\ summary' = summary
    /\ run'[r].state = summary \/ (run[r].pc = "range" /\ run'[r].state = run[r].state)

PendingMoves(r) ==
  /\ Pending(r) => Pending(r)' \/ AppendUser(r) \/ "gap" \in seen'
  /\ PersistSummary(r) \/ AppendUser(r) \/ \A p \in Nat \ {0} : RoundsFrom(p)' = RoundsFrom(p)

\* A message that is not the user's starts no round.
LEMMA NoRoundPushed ==
  ASSUME Len(log) \in Nat, NEW m \in Messages, Pushed(m), m.kind # "user"
  PROVE  \A p \in Nat \ {0} : RoundsFrom(p)' = RoundsFrom(p)
<1> TAKE p \in Nat \ {0}
<1>1. /\ Len(log') = Len(log) + 1 /\ log'[Len(log) + 1].kind # "user"
      /\ \A i \in 1..Len(log) : log'[i] = log[i]
  BY DEF Pushed
<1>2. \A k \in p..Len(log') : k \in p..Len(log) \/ k = Len(log) + 1
  BY <1>1
<1>3. \A k \in p..Len(log) : k \in 1..Len(log) /\ k \in p..Len(log')
  BY <1>1
<1>4. {k \in p..Len(log') : log'[k].kind = "user"} = {k \in p..Len(log) : log[k].kind = "user"}
  BY <1>1, <1>2, <1>3
<1>5. QED  BY <1>4 DEF RoundsFrom

\* What becomes of the mishaps, calls, states read and pending summaries.
LEMMA StepRest ==
  ASSUME IInv, NEW r \in Runs, Step(r)
  PROVE  /\ seen \subseteq seen'
         /\ Active(r) \/ Start(r)
         /\ Turned(r) /\ Reading(r) /\ PendingMoves(r)
<1>1. Typed /\ LogOK(log) /\ Len(log) \in Nat
  BY LogIsOK DEF IInv, Typed
<1> USE DEF At, Turning, Active
<1>0. log' = log => \A p \in Nat \ {0} : RoundsFrom(p)' = RoundsFrom(p)
  BY DEF RoundsFrom
<1>2. CASE Start(r)
  <2>1. /\ log' = log /\ run'[r].pc = "state" /\ run[r].pc = "idle" /\ seen \subseteq seen'
    BY <1>1, <1>2, StartDoes
  <2>2. QED  BY <1>0, <1>2, <2>1 DEF Turned, Reading, PendingMoves, Pending
<1>3. CASE ReadState(r)
  <2>1. /\ log' = log /\ summary' = summary /\ seen' = seen
        /\ run'[r].pc \in {"range", "all"} /\ run[r].pc = "state" /\ run'[r].state = summary
    BY <1>1, <1>3, ReadStateDoes
  <2>2. QED  BY <1>0, <2>1 DEF Turned, Reading, PendingMoves, Pending
<1>4. CASE ReadRange(r)
  <2>1. At(r, "range")
    BY <1>4 DEF ReadRange
  <2>2. StateOK(log, run[r].state) /\ run[r].state # NoState
    BY <2>1, RangeReady
  <2>3. /\ log' = log /\ summary' = summary /\ seen' = seen
        /\ run'[r].pc \in {"plan", "all"} /\ run'[r].state = run[r].state
    BY <1>1, <1>4, <2>2, ReadRangeDoes DEF ReadsWindow
  <2>4. QED  BY <1>0, <2>1, <2>3 DEF Turned, Reading, PendingMoves, Pending
<1>5. CASE ReadAll(r)
  <2>1. StateOK(log, run[r].state)
    BY RangeReady
  <2>2. log' = log /\ seen' = seen /\ run'[r].pc = "plan" /\ run[r].pc = "all"
    BY <1>1, <1>5, <2>1, ReadAllDoes DEF ReadsWindow
  <2>3. QED  BY <1>0, <2>2 DEF Turned, Reading, PendingMoves, Pending
<1>6. CASE Fits(r)
  <2>1. log' = log /\ seen' = seen /\ run'[r].pc \in {"mark", "user"} /\ run[r].pc = "plan"
    BY <1>1, <1>6, FitsDoes
  <2>2. QED  BY <1>0, <2>1 DEF Turned, Reading, PendingMoves, Pending
<1>7. CASE Refused(r)
  <2>1. log' = log /\ seen' = seen /\ run'[r].pc = "done" /\ run[r].pc = "plan"
    BY <1>1, <1>7, RefusedDoes
  <2>2. QED  BY <1>0, <2>1 DEF Turned, Reading, PendingMoves, Pending
<1>8. CASE Summarize(r)
  <2>1. WindowOK(r)
    BY <1>8, RangeReady DEF Summarize
  <2>2. log' = log /\ seen' = seen /\ run'[r].pc = "length" /\ run[r].pc = "plan"
    BY <1>1, <1>8, <2>1, SummarizeDoes
  <2>3. QED  BY <1>0, <2>2 DEF Turned, Reading, PendingMoves, Pending
<1>9. CASE ReadLength(r)
  <2>1. log' = log /\ seen' = seen /\ run'[r].pc = "persist" /\ run[r].pc = "length"
    BY <1>1, <1>9, ReadLengthDoes
  <2>2. QED  BY <1>0, <2>1 DEF Turned, Reading, PendingMoves, Pending
<1>10. CASE PersistSummary(r)
  <2>1. /\ seen' = seen /\ run'[r].pc \in {"mark", "user"} /\ run[r].pc = "persist"
        /\ \E m \in Messages : Pushed(m) /\ m.kind # "tool"
    <3>1. "summary" # "tool"
      OBVIOUS
    <3>2. QED  BY <1>1, <1>10, <3>1, PersistSummaryDoes
  <2>2. QED  BY <1>10, <2>1 DEF Turned, Reading, PendingMoves, Pending
<1>11. CASE MarkDirty(r)
  <2>1. /\ log' = log /\ seen' = seen /\ run'[r].pc = "user" /\ run[r].pc = "mark"
        /\ run'[r].keep = run[r].keep
    BY <1>1, <1>11, MarkDirtyDoes
  <2>2. QED  BY <1>0, <2>1 DEF Turned, Reading, PendingMoves, Pending
<1>12. CASE AppendUser(r)
  <2>1. /\ seen' = seen /\ run'[r].pc = "turn" /\ run[r].pc = "user"
        /\ \E m \in Messages : Pushed(m) /\ m.kind # "tool"
    <3>1. "user" # "tool"
      OBVIOUS
    <3>2. QED  BY <1>1, <1>12, <3>1, AppendUserDoes
  <2>2. QED  BY <1>12, <2>1 DEF Turned, Reading, PendingMoves, Pending
<1>13. CASE AppendCalls(r)
  <2>1. /\ seen' = seen /\ run'[r].pc = "tools" /\ run[r].pc = "turn"
        /\ \E m \in Messages : Pushed(m) /\ m.kind = "calls"
    BY <1>1, <1>13, AppendCallsDoes
  <2>2. \A p \in Nat \ {0} : RoundsFrom(p)' = RoundsFrom(p)
    BY <1>1, <2>1, NoRoundPushed
  <2>3. QED  BY <1>13, <2>1, <2>2 DEF Turned, Reading, PendingMoves, Pending
<1>14. CASE AppendResult(r)
  <2>1. /\ seen' = seen /\ run'[r].pc \in {"tools", "attach", "answer"} /\ run[r].pc = "tools"
        /\ \E m \in Messages : Pushed(m) /\ m.kind = "tool"
    BY <1>1, <1>14, AppendResultDoes
  <2>2. \A p \in Nat \ {0} : RoundsFrom(p)' = RoundsFrom(p)
    BY <1>1, <2>1, NoRoundPushed
  <2>3. QED  BY <1>14, <2>1, <2>2 DEF Turned, Reading, PendingMoves, Pending
<1>15. CASE AppendAttached(r)
  <2>1. /\ seen' = seen /\ run'[r].pc \in {"tools", "answer"} /\ run[r].pc = "attach"
        /\ \E m \in Messages : Pushed(m) /\ m.kind = "skill"
    BY <1>1, <1>15, AppendAttachedDoes
  <2>2. \A p \in Nat \ {0} : RoundsFrom(p)' = RoundsFrom(p)
    BY <1>1, <2>1, NoRoundPushed
  <2>3. QED  BY <1>15, <2>1, <2>2 DEF Turned, Reading, PendingMoves, Pending
<1>16. CASE AppendAnswer(r)
  <2>1. /\ seen' = seen /\ run'[r].pc = "done" /\ run[r].pc \in {"turn", "answer"}
        /\ \E m \in Messages : Pushed(m) /\ m.kind = "assistant"
    BY <1>1, <1>16, AppendAnswerDoes
  <2>2. \A p \in Nat \ {0} : RoundsFrom(p)' = RoundsFrom(p)
    BY <1>1, <2>1, NoRoundPushed
  <2>3. \E m \in Messages : Pushed(m) /\ m.kind # "tool"
    BY <2>1
  <2>4. QED  BY <2>1, <2>2, <2>3 DEF Turned, Reading, PendingMoves, Pending
<1>17. CASE Interrupted(r)
  <2>1. /\ seen \subseteq seen' /\ run'[r].pc = "done"
        /\ run[r].pc \in {"mark", "user", "turn", "tools", "attach", "answer"}
        /\ log' = log \/ \E m \in Messages : Pushed(m) /\ m.kind = "hint"
        /\ run[r].pc \in {"mark", "user"} /\ run[r].keep # 0 => "gap" \in seen'
    BY <1>1, <1>17, InterruptedDoes
  <2>2. \A p \in Nat \ {0} : RoundsFrom(p)' = RoundsFrom(p)
    BY <1>0, <1>1, <2>1, NoRoundPushed
  <2>3. log' = log \/ \E m \in Messages : Pushed(m) /\ m.kind # "tool"
    BY <2>1
  <2>4. QED  BY <2>1, <2>2, <2>3 DEF Turned, Reading, PendingMoves, Pending
<1>18. QED
  BY <1>2, <1>3, <1>4, <1>5, <1>6, <1>7, <1>8, <1>9, <1>10, <1>11, <1>12, <1>13,
     <1>14, <1>15, <1>16, <1>17, StepCases

\* Results stay answers, one each, when a message is pushed that is the first result of
\* its call or no result.
LEMMA AnswersPushed ==
  ASSUME Len(log) \in Nat, Answers(log), AnswersOnce(log), NEW m \in Messages, Pushed(m),
         m.kind = "tool" =>
           /\ \E g \in 1..Len(log) : log[g].kind = "calls" /\ m.call \in CallsOf(log, g)
           /\ \A i \in 1..Len(log) : log[i].kind = "tool" => log[i].call # m.call
  PROVE  Answers(log') /\ AnswersOnce(log')
<1>1. /\ Len(log') = Len(log) + 1 /\ log'[Len(log) + 1] = m
      /\ \A i \in 1..Len(log) : log'[i] = log[i]
  BY DEF Pushed
<1>2. \A i \in 1..Len(log') : i \in 1..Len(log) \/ i = Len(log) + 1
  BY <1>1
<1>3. \A g \in 1..Len(log) : CallsOf(log', g) = CallsOf(log, g)
  BY <1>1 DEF CallsOf
<1>4. ASSUME NEW i \in 1..Len(log'), log'[i].kind = "tool"
      PROVE  \E g \in 1..(i - 1) : log'[g].kind = "calls" /\ log'[i].call \in CallsOf(log', g)
  <2>1. CASE i \in 1..Len(log)
    <3>1. PICK g \in 1..(i - 1) : log[g].kind = "calls" /\ log[i].call \in CallsOf(log, g)
      BY <1>1, <1>4, <2>1 DEF Answers
    <3>2. g \in 1..Len(log)
      BY <2>1
    <3>3. QED  BY <1>1, <1>3, <2>1, <3>1, <3>2
  <2>2. CASE i = Len(log) + 1
    <3>1. PICK g \in 1..Len(log) : log[g].kind = "calls" /\ m.call \in CallsOf(log, g)
      BY <1>1, <1>4, <2>2
    <3>2. g \in 1..(i - 1)
      BY <2>2
    <3>3. QED  BY <1>1, <1>3, <2>2, <3>1, <3>2
  <2>3. QED  BY <1>2, <2>1, <2>2
<1>5. ASSUME NEW i \in 1..Len(log'), NEW j \in 1..Len(log'),
             log'[i].kind = "tool", log'[j].kind = "tool", log'[i].call = log'[j].call
      PROVE  i = j
  <2>1. CASE i \in 1..Len(log) /\ j \in 1..Len(log)
    BY <1>1, <1>5, <2>1 DEF AnswersOnce
  <2>2. CASE i \in 1..Len(log) /\ j = Len(log) + 1
    BY <1>1, <1>5, <2>2
  <2>3. CASE j \in 1..Len(log) /\ i = Len(log) + 1
    BY <1>1, <1>5, <2>3
  <2>4. QED  BY <1>2, <1>5, <2>1, <2>2, <2>3
<1>6. Answers(log')
  BY <1>4 DEF Answers
<1>7. QED  BY <1>5, <1>6 DEF AnswersOnce

\* The calls of a run stay open when another message is written.
LEMMA TurnStays ==
  ASSUME Len(log) \in Nat, NEW q \in Runs, TurnFor(q), run[q].pc \in Turning,
         run'[q].group = run[q].group, run'[q].left \subseteq run[q].left,
         \/ log' = log
         \/ \E m \in Messages :
              /\ Pushed(m)
              /\ m.kind = "tool" => \A k \in run'[q].left : m.call # <<run[q].group, k>>
  PROVE  TurnFor(q)'
<1>1. /\ run[q].group \in 1..Len(log) /\ log[run[q].group].kind = "calls"
      /\ run[q].left \subseteq 1..Len(log[run[q].group].calls)
      /\ \A k \in run[q].left, i \in 1..Len(log) :
           log[i].kind = "tool" => log[i].call # <<run[q].group, k>>
  BY DEF TurnFor
<1>2. CASE log' = log
  BY <1>1, <1>2 DEF TurnFor
<1>3. ASSUME NEW m \in Messages, Pushed(m),
             m.kind = "tool" => \A k \in run'[q].left : m.call # <<run[q].group, k>>
      PROVE  TurnFor(q)'
  <2>1. /\ Len(log') = Len(log) + 1 /\ log'[Len(log) + 1] = m
        /\ \A i \in 1..Len(log) : log'[i] = log[i]
    BY <1>3 DEF Pushed
  <2>2. \A i \in 1..Len(log') : i \in 1..Len(log) \/ i = Len(log) + 1
    BY <2>1
  <2>3. /\ run'[q].group \in 1..Len(log') /\ log'[run'[q].group] = log[run[q].group]
    BY <1>1, <2>1
  <2>4. ASSUME NEW k \in run'[q].left, NEW i \in 1..Len(log'), log'[i].kind = "tool"
        PROVE  log'[i].call # <<run'[q].group, k>>
    <3>1. CASE i \in 1..Len(log)
      BY <1>1, <2>1, <2>4, <3>1
    <3>2. CASE i = Len(log) + 1
      BY <1>3, <2>1, <2>4, <3>2
    <3>3. QED  BY <2>2, <3>1, <3>2
  <2>5. QED  BY <1>1, <2>3, <2>4 DEF TurnFor
<1>4. QED  BY <1>2, <1>3

\* Results answer calls, one each, and the calls of a run are open until answered.
LEMMA AnswerStep ==
  ASSUME IInv, NEW r \in Runs, Step(r)
  PROVE  AnswerInv'
<1>1. /\ Typed /\ Answers(log) /\ AnswersOnce(log) /\ LogOK(log)
      /\ \A q \in Runs : TurnFor(q)
      /\ \A q, s \in Runs : run[q].pc \in Turning /\ run[s].pc \in Turning
                              /\ run[q].group = run[s].group => q = s
  BY LogIsOK DEF IInv, AnswerInv
<1>2. Len(log) \in Nat /\ \A q \in Runs : q # r => run'[q] = run[q]
  BY Grown
<1>3. CASE /\ run'[r].pc \notin Turning
           /\ log' = log \/ \E m \in Messages : Pushed(m) /\ m.kind # "tool"
  <2>1. Answers(log') /\ AnswersOnce(log')
    <3>1. CASE log' = log
      BY <1>1, <3>1
    <3>2. ASSUME NEW m \in Messages, Pushed(m), m.kind # "tool"
          PROVE  Answers(log') /\ AnswersOnce(log')
      BY <1>1, <1>2, <3>2, AnswersPushed
    <3>3. QED  BY <1>3, <3>1, <3>2
  <2>2. ASSUME NEW q \in Runs PROVE TurnFor(q)'
    <3>1. CASE run'[q].pc \notin Turning
      BY <3>1 DEF TurnFor
    <3>2. CASE run'[q].pc \in Turning
      <4>1. run'[q] = run[q]
        BY <1>2, <1>3, <3>2
      <4>2. run[q].pc \in Turning /\ TurnFor(q)
        BY <1>1, <3>2, <4>1
      <4>3. QED  BY <1>2, <1>3, <4>1, <4>2, TurnStays
    <3>3. QED  BY <3>1, <3>2
  <2>3. \A q, s \in Runs : run'[q].pc \in Turning /\ run'[s].pc \in Turning
                             /\ run'[q].group = run'[s].group => q = s
    BY <1>1, <1>2, <1>3
  <2>4. QED  BY <2>1, <2>2, <2>3 DEF AnswerInv
<1>4. CASE AppendCalls(r)
  <2>1. PICK m \in Messages : /\ Pushed(m) /\ m.kind = "calls" /\ m.covers = {}
                              /\ run'[r].left = 1..Len(m.calls)
    BY <1>1, <1>4, AppendCallsDoes
  <2>2. run'[r].group = Len(log) + 1
    BY <1>1, <1>4, AppendCallsDoes
  <2>3. Answers(log') /\ AnswersOnce(log')
    BY <1>1, <1>2, <2>1, AnswersPushed
  <2>4. TurnFor(r)'
    <3>1. /\ log' \in Seq(Messages) /\ Len(log') = Len(log) + 1 /\ log'[Len(log) + 1] = m
      BY <2>1 DEF Pushed
    <3>2. LogOK(log')
      BY <2>3, <3>1 DEF LogOK
    <3>3. ASSUME NEW k \in run'[r].left, NEW i \in 1..Len(log'), log'[i].kind = "tool"
          PROVE  log'[i].call # <<run'[r].group, k>>
      <4>1. log'[i].call[1] \in 1..(i - 1)
        BY <3>2, <3>3, ToolCallIs
      <4>2. log'[i].call[1] # Len(log) + 1
        BY <1>2, <3>1, <4>1
      <4>3. QED  BY <2>2, <4>2
    <3>4. Len(log) + 1 \in 1..Len(log')
      BY <1>2, <3>1
    <3>5. QED  BY <2>1, <2>2, <3>1, <3>3, <3>4 DEF TurnFor
  <2>5. ASSUME NEW q \in Runs, q # r PROVE TurnFor(q)'
    <3>1. run'[q] = run[q]
      BY <1>2, <2>5
    <3>2. CASE run[q].pc \in Turning
      BY <1>1, <1>2, <2>1, <3>1, <3>2, TurnStays
    <3>3. CASE run[q].pc \notin Turning
      BY <3>1, <3>3 DEF TurnFor
    <3>4. QED  BY <3>2, <3>3
  <2>6. ASSUME NEW q \in Runs, q # r, run[q].pc \in Turning
        PROVE  run'[q].group # run'[r].group
    <3>1. run'[q] = run[q] /\ run[q].group \in 1..Len(log)
      BY <1>1, <1>2, <2>6 DEF TurnFor
    <3>2. QED  BY <1>2, <2>2, <3>1
  <2>7. \A q, s \in Runs : run'[q].pc \in Turning /\ run'[s].pc \in Turning
                             /\ run'[q].group = run'[s].group => q = s
    BY <1>1, <1>2, <2>6
  <2>8. QED  BY <2>3, <2>4, <2>5, <2>7 DEF AnswerInv
<1>5. CASE AppendResult(r)
  <2>1. PICK k \in run[r].left :
          /\ \E m \in Messages : /\ Pushed(m) /\ m.kind = "tool" /\ m.covers = {}
                                 /\ m.call = <<run[r].group, k>>
          /\ run'[r].left = run[r].left \ {k}
    BY <1>1, <1>5, AppendResultDoes
  <2>2. PICK m \in Messages : Pushed(m) /\ m.kind = "tool" /\ m.call = <<run[r].group, k>>
    BY <2>1
  <2>3. run[r].pc \in Turning /\ run'[r].group = run[r].group
    BY <1>1, <1>5, AppendResultDoes DEF At, Turning
  <2>4. /\ run[r].group \in 1..Len(log) /\ log[run[r].group].kind = "calls"
        /\ run[r].left \subseteq 1..Len(log[run[r].group].calls)
        /\ \A i \in 1..Len(log) : log[i].kind = "tool" => log[i].call # <<run[r].group, k>>
    BY <1>1, <2>3 DEF TurnFor
  <2>5. m.call \in CallsOf(log, run[r].group)
    BY <2>2, <2>4 DEF CallsOf
  <2>6. Answers(log') /\ AnswersOnce(log')
    BY <1>1, <1>2, <2>2, <2>4, <2>5, AnswersPushed
  <2>7. \A x \in run'[r].left : m.call # <<run[r].group, x>>
    BY <2>1, <2>2
  <2>8. TurnFor(r)'
    <3>1. run'[r].left \subseteq run[r].left
      BY <2>1
    <3>2. QED  BY <1>1, <1>2, <2>2, <2>3, <2>7, <3>1, TurnStays
  <2>9. ASSUME NEW q \in Runs, q # r PROVE TurnFor(q)'
    <3>1. run'[q] = run[q]
      BY <1>2, <2>9
    <3>2. CASE run[q].pc \in Turning
      <4>1. run[q].group # run[r].group
        BY <1>1, <2>3, <2>9, <3>2
      <4>2. \A x \in run'[q].left : m.call # <<run[q].group, x>>
        BY <2>2, <4>1
      <4>3. QED  BY <1>1, <1>2, <2>2, <3>1, <3>2, <4>2, TurnStays
    <3>3. CASE run[q].pc \notin Turning
      BY <3>1, <3>3 DEF TurnFor
    <3>4. QED  BY <3>2, <3>3
  <2>10. \A q, s \in Runs : run'[q].pc \in Turning /\ run'[s].pc \in Turning
                              /\ run'[q].group = run'[s].group => q = s
    BY <1>1, <1>2, <2>3
  <2>11. QED  BY <2>6, <2>8, <2>9, <2>10 DEF AnswerInv
<1>6. CASE AppendAttached(r)
  <2>1. PICK m \in Messages : Pushed(m) /\ m.kind = "skill"
    BY <1>1, <1>6, AppendAttachedDoes
  <2>2. /\ run[r].pc \in Turning /\ run'[r].group = run[r].group
        /\ run'[r].left = run[r].left
    BY <1>1, <1>6, AppendAttachedDoes DEF At, Turning
  <2>3. Answers(log') /\ AnswersOnce(log')
    BY <1>1, <1>2, <2>1, AnswersPushed
  <2>4. ASSUME NEW q \in Runs PROVE TurnFor(q)'
    <3>1. CASE run[q].pc \in Turning
      <4>1. run'[q].group = run[q].group /\ run'[q].left = run[q].left
        BY <1>2, <2>2
      <4>2. QED  BY <1>1, <1>2, <2>1, <3>1, <4>1, TurnStays
    <3>2. CASE run[q].pc \notin Turning
      BY <1>2, <2>2, <3>2 DEF TurnFor
    <3>3. QED  BY <3>1, <3>2
  <2>5. \A q, s \in Runs : run'[q].pc \in Turning /\ run'[s].pc \in Turning
                             /\ run'[q].group = run'[s].group => q = s
    BY <1>1, <1>2, <2>2
  <2>6. QED  BY <2>3, <2>4, <2>5 DEF AnswerInv
<1>7. QED  BY <1>3, <1>4, <1>5, <1>6, StepRest DEF Turned

\* A message keeps the results soon, unless it is a result that comes late.
LEMMA SoonPushed ==
  ASSUME Len(log) \in Nat, AnswersSoon(log), NEW m \in Messages, Pushed(m), LogOK(log'),
         m.kind = "tool" => Quiet(m.call[1])
  PROVE  AnswersSoon(log')
<1>1. /\ Len(log') = Len(log) + 1 /\ log'[Len(log) + 1] = m
      /\ \A i \in 1..Len(log) : log'[i] = log[i]
  BY DEF Pushed
<1>2. ASSUME NEW i \in 1..Len(log'), log'[i].kind = "tool",
             NEW p \in log'[i].call[1]..i
      PROVE  log'[p].kind \notin {"user", "summary"}
  <2>1. log'[i].call[1] \in Nat \ {0}
    <3>1. log'[i].call[1] \in 1..(i - 1)
      BY <1>2, ToolCallIs
    <3>2. QED  BY <3>1
  <2>2. PICK c \in Nat \ {0} : c = log'[i].call[1]
    BY <2>1
  <2>3. p \in c..i /\ p \in Nat \ {0} /\ i \in Nat
    BY <1>1, <1>2, <2>2
  <2>4. CASE i \in 1..Len(log)
    <3>1. log[i].kind = "tool" /\ p \in log[i].call[1]..i
      BY <1>1, <1>2, <2>4
    <3>2. p \in 1..Len(log)
      BY <2>3, <2>4
    <3>3. QED  BY <1>1, <2>4, <3>1, <3>2 DEF AnswersSoon
  <2>5. CASE i = Len(log) + 1
    <3>1. m.kind = "tool" /\ c = m.call[1]
      BY <1>1, <1>2, <2>2, <2>5
    <3>2. CASE p = i
      BY <1>1, <2>5, <3>1, <3>2
    <3>3. CASE p # i
      <4>1. p \in c..Len(log) /\ p \in 1..Len(log)
        BY <2>3, <2>5, <3>3
      <4>2. QED  BY <1>1, <3>1, <4>1 DEF Quiet
    <3>4. QED  BY <3>2, <3>3
  <2>6. QED  BY <1>1, <1>2, <2>4, <2>5
<1>3. QED  BY <1>2 DEF AnswersSoon

\* Without an overlap one run is at work, on the window of the list.
LEMMA SerialStep ==
  ASSUME IInv, NEW r \in Runs, Step(r)
  PROVE  SerialInv'
<1> SUFFICES ASSUME "overlap" \notin seen'
             PROVE  /\ \A q, s \in Runs : Active(q)' /\ Active(s)' => q = s
                    /\ \A q \in Runs : SerialFor(q)'
                    /\ AnswersSoon(log')
  BY DEF SerialInv
<1>1. /\ seen \subseteq seen' /\ Turned(r) /\ Reading(r)
      /\ Active(r) \/ Start(r)
  BY StepRest
<1>2. /\ \A q, s \in Runs : Active(q) /\ Active(s) => q = s
      /\ \A q \in Runs : SerialFor(q)
      /\ AnswersSoon(log)
  BY <1>1 DEF IInv, SerialInv
<1>3. Len(log) \in Nat /\ \A q \in Runs : q # r => run'[q] = run[q]
  BY Grown
<1>4. Typed /\ LogOK(log)
  BY LogIsOK DEF IInv
<1>5. LogOK(log')
  <2>1. Answers(log') /\ AnswersOnce(log')
    BY AnswerStep DEF AnswerInv
  <2>2. log' \in Seq(Messages)
    BY Grown
  <2>3. QED  BY <2>1, <2>2 DEF LogOK
<1>6. ASSUME NEW q \in Runs, q # r PROVE ~Active(q)
  <2>1. CASE Active(r)
    BY <1>2, <1>6, <2>1
  <2>2. CASE Start(r)
    BY <1>4, <2>2, StartDoes
  <2>3. QED  BY <1>1, <2>1, <2>2
<1>7. \A q \in Runs : q # r => run'[q].pc \in {"idle", "done"}
  BY <1>3, <1>6 DEF Active
<1>8. \A q, s \in Runs : Active(q)' /\ Active(s)' => q = s
  BY <1>7 DEF Active
<1>9. ASSUME NEW q \in Runs, q # r PROVE SerialFor(q)'
  BY <1>7, <1>9 DEF SerialFor, Planning, Turning
<1>10. run'[r].pc \in {"range", "all"} => run'[r].state = summary'
  BY <1>1, <1>2 DEF Reading, SerialFor
<1>11. run'[r].pc \in Planning => run'[r].window = FullWindow(log', summary')
  <2>1. CASE /\ ReadsWindow(r) /\ run[r].pc \in {"range", "all"} /\ UNCHANGED <<log, summary>>
    <3>1. run[r].state = summary
      BY <1>2, <2>1 DEF SerialFor
    <3>2. QED  BY <2>1, <3>1 DEF ReadsWindow
  <2>2. CASE /\ run[r].pc \in Planning /\ run'[r].window = run[r].window
             /\ UNCHANGED <<log, summary>>
    <3>1. run[r].window = FullWindow(log, summary)
      BY <1>2, <2>2 DEF SerialFor
    <3>2. QED  BY <2>2, <3>1
  <2>3. QED  BY <2>1, <2>2, StepWindow
<1>12. CASE /\ run'[r].pc \notin Turning
            /\ log' = log \/ \E m \in Messages : Pushed(m) /\ m.kind # "tool"
  <2>1. AnswersSoon(log')
    BY <1>2, <1>3, <1>5, <1>12, SoonPushed
  <2>2. SerialFor(r)'
    BY <1>10, <1>11, <1>12 DEF SerialFor
  <2>3. QED  BY <1>8, <1>9, <2>1, <2>2
<1>13. CASE AppendCalls(r)
  <2>1. PICK m \in Messages : Pushed(m) /\ m.kind = "calls"
    BY <1>4, <1>13, AppendCallsDoes
  <2>2. AnswersSoon(log')
    BY <1>2, <1>3, <1>5, <2>1, SoonPushed
  <2>3. Quiet(run[r].group)'
    <3>1. run'[r].group = Len(log) + 1 /\ Len(log') = Len(log) + 1 /\ log'[Len(log) + 1] = m
      BY <1>4, <1>13, <2>1, AppendCallsDoes DEF Pushed
    <3>2. \A i \in (Len(log) + 1)..Len(log') : i = Len(log) + 1
      BY <1>3, <3>1
    <3>3. QED  BY <2>1, <3>1, <3>2 DEF Quiet
  <2>4. SerialFor(r)'
    BY <1>10, <1>11, <2>3 DEF SerialFor
  <2>5. QED  BY <1>8, <1>9, <2>2, <2>4
<1>14. ASSUME NEW m \in Messages, Pushed(m), m.kind \in {"tool", "skill"},
              m.kind = "tool" => m.call[1] = run[r].group,
              run[r].pc \in Turning, run'[r].group = run[r].group
       PROVE  AnswersSoon(log') /\ SerialFor(r)'
  <2>1. Quiet(run[r].group) /\ run[r].group \in 1..Len(log)
    BY <1>2, <1>14 DEF SerialFor, IInv, AnswerInv, TurnFor
  <2>2. AnswersSoon(log')
    BY <1>2, <1>3, <1>5, <1>14, <2>1, SoonPushed
  <2>3. PICK g \in 1..Len(log) : g = run[r].group
    BY <2>1
  <2>4. Quiet(run[r].group)'
    <3>1. /\ Len(log') = Len(log) + 1 /\ log'[Len(log) + 1] = m
          /\ \A i \in 1..Len(log) : log'[i] = log[i]
      BY <1>14 DEF Pushed
    <3>2. \A i \in g..Len(log') : (i \in g..Len(log) /\ i \in 1..Len(log)) \/ i = Len(log) + 1
      BY <1>3, <3>1
    <3>3. \A i \in g..Len(log') : log'[i].kind \notin {"user", "summary"}
      BY <1>14, <2>1, <2>3, <3>1, <3>2 DEF Quiet
    <3>4. QED  BY <1>14, <2>3, <3>3 DEF Quiet
  <2>5. QED  BY <1>10, <1>11, <2>2, <2>4 DEF SerialFor
<1>15. CASE AppendResult(r)
  <2>1. run[r].pc \in Turning /\ run'[r].group = run[r].group
    BY <1>4, <1>15, AppendResultDoes DEF At, Turning
  <2>2. PICK m \in Messages, k \in run[r].left :
          Pushed(m) /\ m.kind = "tool" /\ m.call = <<run[r].group, k>>
    BY <1>4, <1>15, AppendResultDoes
  <2>3. AnswersSoon(log') /\ SerialFor(r)'
    BY <1>14, <2>1, <2>2
  <2>4. QED  BY <1>8, <1>9, <2>3
<1>16. CASE AppendAttached(r)
  <2>1. run[r].pc \in Turning /\ run'[r].group = run[r].group
    BY <1>4, <1>16, AppendAttachedDoes DEF At, Turning
  <2>2. PICK m \in Messages : Pushed(m) /\ m.kind = "skill"
    BY <1>4, <1>16, AppendAttachedDoes
  <2>3. AnswersSoon(log') /\ SerialFor(r)'
    BY <1>14, <2>1, <2>2
  <2>4. QED  BY <1>8, <1>9, <2>3
<1>17. QED  BY <1>1, <1>12, <1>13, <1>15, <1>16 DEF Turned

-----------------------------------------------------------------------------
(* The rounds that stay.                                                    *)

\* The rounds from a place on are finitely many.
LEMMA RoundsTyped ==
  ASSUME Len(log) \in Nat, NEW p \in Nat \ {0}
  PROVE  IsFiniteSet(RoundsFrom(p)) /\ RoundsFrom(p) \subseteq 1..Len(log)
<1>1. RoundsFrom(p) \subseteq 1..Len(log)
  BY DEF RoundsFrom
<1>2. IsFiniteSet(1..Len(log))
  BY IntervalSize
<1>3. QED  BY <1>1, <1>2, FS_Subset

\* Rounds stay when the list grows.
LEMMA RoundsGrow ==
  ASSUME IInv, NEW r \in Runs, Step(r), NEW p \in Nat \ {0}, NEW c \in Nat,
         Cardinality(RoundsFrom(p)) > c
  PROVE  Cardinality(RoundsFrom(p)') > c
<1>1. /\ Len(log) \in Nat /\ Len(log') \in Nat
      /\ Len(log') = Len(log) \/ Len(log') = Len(log) + 1
      /\ \A i \in 1..Len(log) : log'[i] = log[i]
  BY Grown
<1>2. RoundsFrom(p) \subseteq RoundsFrom(p)'
  BY <1>1 DEF RoundsFrom
<1>3. IsFiniteSet(RoundsFrom(p)')
  <2>1. RoundsFrom(p)' \subseteq 1..Len(log')
    BY <1>1 DEF RoundsFrom
  <2>2. IsFiniteSet(1..Len(log'))
    BY <1>1, IntervalSize
  <2>3. QED  BY <2>1, <2>2, FS_Subset
<1>4. PICK S : S = RoundsFrom(p)'
  OBVIOUS
<1>5. /\ Cardinality(RoundsFrom(p)) <= Cardinality(S)
      /\ Cardinality(RoundsFrom(p)) \in Nat /\ Cardinality(S) \in Nat
  BY <1>2, <1>3, <1>4, FS_Subset, FS_CardinalityType
<1>6. QED  BY <1>4, <1>5

\* A window has the rounds of its part of the list.
LEMMA StartsCounted ==
  ASSUME Len(log) \in Nat, NEW a \in Nat \ {0}, NEW w, IsWindow(w, a, Len(log))
  PROVE  /\ IsFiniteSet(RoundStarts(w))
         /\ Cardinality(RoundsFrom(a)) = Cardinality(RoundStarts(w))
<1> DEFINE S == RoundStarts(w)
           T == RoundsFrom(a)
           f == [k \in S |-> w[k]]
<1>1. /\ w \in Seq(1..Len(log)) /\ Range(w) = a..Len(log)
      /\ \A j, k \in DOMAIN w : w[j] = w[k] => j = k
      /\ DOMAIN w = 1..Len(w) /\ Len(w) \in Nat
  BY DEF IsWindow
<1>2. S \subseteq DOMAIN w /\ \A k \in S : log[w[k]].kind = "user"
  BY DEF RoundStarts
<1>3. IsFiniteSet(S)
  BY <1>1, <1>2, IntervalSize, FS_Subset
<1>4. \A k \in S : w[k] \in T
  BY <1>1, <1>2 DEF RoundsFrom, Range
<1>5. \A t \in T : \E k \in S : w[k] = t
  BY <1>1 DEF RoundsFrom, RoundStarts, Range
<1>6. \A j, k \in S : w[j] = w[k] => j = k
  BY <1>1, <1>2
<1> HIDE DEF S, T
<1>7. /\ f \in [S -> T] /\ \A j, k \in S : f[j] = f[k] => j = k
      /\ \A t \in T : \E k \in S : f[k] = t
  BY <1>4, <1>5, <1>6
<1> HIDE DEF f
<1>8. Cardinality(T) = Cardinality(S)
  BY <1>3, <1>7, DistinctImage
<1>9. QED  BY <1>3, <1>8 DEF S, T

\* A border with something old before it has two rounds behind it, of three.
LEMMA BorderLeavesRounds ==
  ASSUME Len(log) \in Nat, NEW st, StateOK(log, st), NEW w, w = FullWindow(log, st),
         st # NoState => Cardinality(RoundsFrom(st.start)) > 2,
         NEW i \in Range(w), i < KeepStart(w)
  PROVE  /\ Cardinality(RoundsFrom(1)) > 2
         /\ Cardinality(RoundsFrom(KeepStart(w))) > 1
<1>1. /\ IsWindow(w, From(st), Len(log)) /\ Ascends(w, First(st))
      /\ w # <<>> => w[1] = IF st = NoState THEN 1 ELSE st.id
      /\ From(st) \in Nat \ {0}
  BY FullWindowIs, FromIsPlace
<1>2. /\ w \in Seq(1..Len(log)) /\ Range(w) = From(st)..Len(log)
      /\ DOMAIN w = 1..Len(w) /\ Len(w) \in Nat
  BY <1>1 DEF IsWindow
<1>3. w # <<>> /\ i \in 1..Len(log)
  BY <1>1, <1>2 DEF Range
<1>4. /\ IsFiniteSet(RoundStarts(w)) /\ Cardinality(RoundStarts(w)) \in Nat
      /\ Cardinality(RoundsFrom(From(st))) = Cardinality(RoundStarts(w))
  BY <1>1, StartsCounted, FS_CardinalityType
<1>5. /\ KeepStart(w) \in Range(w)
      /\ Cardinality(RoundStarts(w)) <= 2 => KeepStart(w) = w[1]
      /\ Cardinality(RoundStarts(w)) > 2 =>
           \E k, j \in RoundStarts(w) : k < j /\ KeepStart(w) = w[k]
  BY <1>2, <1>3, KeepStartIs
<1>6. Cardinality(RoundStarts(w)) > 2
  <2>1. CASE st = NoState
    <3>1. w[1] = 1
      BY <1>1, <1>3, <2>1
    <3>2. ~(i < 1)
      BY <1>3
    <3>3. ~(Cardinality(RoundStarts(w)) <= 2)
      BY <1>5, <3>1, <3>2
    <3>4. QED  BY <1>4, <3>3
  <2>2. CASE st # NoState
    BY <1>4, <2>2 DEF From
  <2>3. QED  BY <2>1, <2>2
<1>7. Cardinality(RoundsFrom(1)) > 2
  <2>1. RoundsFrom(From(st)) \subseteq RoundsFrom(1)
    BY <1>1 DEF RoundsFrom
  <2>2. IsFiniteSet(RoundsFrom(1))
    BY RoundsTyped
  <2>3. /\ Cardinality(RoundsFrom(From(st))) <= Cardinality(RoundsFrom(1))
        /\ Cardinality(RoundsFrom(1)) \in Nat
    BY <2>1, <2>2, FS_Subset, FS_CardinalityType
  <2>4. QED  BY <1>4, <1>6, <2>3
<1>8. PICK k \in RoundStarts(w), j \in RoundStarts(w) : k < j /\ KeepStart(w) = w[k]
  BY <1>5, <1>6
<1>9. /\ k \in DOMAIN w /\ j \in DOMAIN w
      /\ log[w[k]].kind = "user" /\ log[w[j]].kind = "user"
  BY DEF RoundStarts
<1>10. First(st) <= k
  <2>1. CASE st = NoState
    BY <1>2, <1>9, <2>1 DEF First
  <2>2. CASE st # NoState
    <3>1. log[w[1]].kind = "summary"
      BY <1>1, <1>3, <2>2 DEF StateOK
    <3>2. k # 1
      BY <1>9, <3>1
    <3>3. QED  BY <1>2, <1>9, <2>2, <3>2 DEF First
  <2>3. QED  BY <2>1, <2>2
<1>11. w[k] < w[j] /\ w[k] \in 1..Len(log) /\ w[j] \in 1..Len(log)
  BY <1>1, <1>2, <1>8, <1>9, <1>10 DEF Ascends
<1>12. PICK a \in 1..Len(log), b \in 1..Len(log) : a = w[k] /\ b = w[j]
  BY <1>11
<1>13. a \in RoundsFrom(a) /\ b \in RoundsFrom(a) /\ a # b
  BY <1>9, <1>11, <1>12 DEF RoundsFrom
<1>14. IsFiniteSet(RoundsFrom(a))
  BY RoundsTyped
<1>15. Cardinality(RoundsFrom(a)) > 1
  BY <1>13, <1>14, TwoMembers
<1>16. QED  BY <1>7, <1>8, <1>12, <1>15

\* A run gets a border by Summarize, and holds it through ReadLength.
LEMMA BorderMade ==
  ASSUME IInv, NEW r \in Runs, Step(r), run'[r].pc \in Bordered
  PROVE  Summarize(r) \/ ReadLength(r)
<1>1. Typed /\ LogOK(log)
  BY LogIsOK DEF IInv
<1> USE DEF At, Bordered
<1>2. CASE Start(r)
  BY <1>1, <1>2, StartDoes
<1>3. CASE ReadState(r)
  BY <1>1, <1>3, ReadStateDoes
<1>4. CASE ReadRange(r)
  <2>1. At(r, "range")
    BY <1>4 DEF ReadRange
  <2>2. StateOK(log, run[r].state) /\ run[r].state # NoState
    BY <2>1, RangeReady
  <2>3. QED  BY <1>1, <1>4, <2>2, ReadRangeDoes DEF ReadsWindow
<1>5. CASE ReadAll(r)
  <2>1. StateOK(log, run[r].state)
    BY RangeReady
  <2>2. QED  BY <1>1, <1>5, <2>1, ReadAllDoes DEF ReadsWindow
<1>6. CASE Fits(r)
  BY <1>1, <1>6, FitsDoes
<1>7. CASE Refused(r)
  BY <1>1, <1>7, RefusedDoes
<1>8. CASE PersistSummary(r)
  BY <1>1, <1>8, PersistSummaryDoes
<1>9. CASE MarkDirty(r)
  BY <1>1, <1>9, MarkDirtyDoes
<1>10. CASE AppendUser(r)
  BY <1>1, <1>10, AppendUserDoes
<1>11. CASE AppendCalls(r)
  BY <1>1, <1>11, AppendCallsDoes
<1>12. CASE AppendResult(r)
  BY <1>1, <1>12, AppendResultDoes
<1>13. CASE AppendAttached(r)
  BY <1>1, <1>13, AppendAttachedDoes
<1>14. CASE AppendAnswer(r)
  BY <1>1, <1>14, AppendAnswerDoes
<1>15. CASE Interrupted(r)
  BY <1>1, <1>15, InterruptedDoes
<1>16. QED
  BY <1>2, <1>3, <1>4, <1>5, <1>6, <1>7, <1>8, <1>9, <1>10, <1>11, <1>12, <1>13,
     <1>14, <1>15, StepCases

\* Only PersistSummary writes a message that stands for others.
LEMMA CoverMade ==
  ASSUME IInv, NEW r \in Runs, Step(r), ~PersistSummary(r)
  PROVE  log' = log \/ \E m \in Messages : Pushed(m) /\ m.covers = {}
<1>1. Typed
  BY DEF IInv
<1>2. CASE AppendUser(r)
  BY <1>1, <1>2, AppendUserDoes
<1>3. CASE AppendCalls(r)
  BY <1>1, <1>3, AppendCallsDoes
<1>4. CASE AppendResult(r)
  BY <1>1, <1>4, AppendResultDoes
<1>5. CASE AppendAttached(r)
  BY <1>1, <1>5, AppendAttachedDoes
<1>6. CASE AppendAnswer(r)
  BY <1>1, <1>6, AppendAnswerDoes
<1>7. CASE Interrupted(r)
  BY <1>1, <1>7, InterruptedDoes
<1>8. CASE Start(r) \/ ReadState(r) \/ Fits(r) \/ Refused(r) \/ Summarize(r)
  BY <1>8 DEF Start, ReadState, Fits, Refused, Summarize
<1>9. CASE ReadRange(r) \/ ReadAll(r) \/ ReadLength(r) \/ MarkDirty(r)
  BY <1>9 DEF ReadRange, ReadAll, ReadLength, MarkDirty
<1>10. QED
  BY <1>2, <1>3, <1>4, <1>5, <1>6, <1>7, <1>8, <1>9, StepCases

\* Without a mishap a summary leaves two rounds behind its border.
LEMMA RoundsStep ==
  ASSUME IInv, NEW r \in Runs, Step(r)
  PROVE  RoundsInv'
<1> SUFFICES ASSUME seen' = {}
             PROVE  /\ \A q \in Runs : run'[q].pc \in Bordered =>
                         /\ Cardinality(RoundsFrom(1)') > 2
                         /\ Cardinality(RoundsFrom(run[q].keep)') > 1
                    /\ summary' # NoState => Cardinality(RoundsFrom(summary.start)') > 1
                    /\ summary' # NoState /\ (\A q \in Runs : ~Pending(q)') =>
                         Cardinality(RoundsFrom(summary.start)') > 2
                    /\ RecentRoundsKept'
  BY DEF RoundsInv
<1>1. seen = {} /\ PendingMoves(r) /\ (Active(r) \/ Start(r))
  BY StepRest
<1>2. /\ \A q \in Runs : run[q].pc \in Bordered =>
           /\ Cardinality(RoundsFrom(1)) > 2
           /\ Cardinality(RoundsFrom(run[q].keep)) > 1
      /\ summary # NoState => Cardinality(RoundsFrom(summary.start)) > 1
      /\ summary # NoState /\ (\A q \in Runs : ~Pending(q)) =>
           Cardinality(RoundsFrom(summary.start)) > 2
      /\ RecentRoundsKept
  BY <1>1 DEF IInv, RoundsInv
<1>3. /\ \A q, s \in Runs : Active(q) /\ Active(s) => q = s
      /\ \A q \in Runs : SerialFor(q)
  BY <1>1 DEF IInv, SerialInv
<1>4. /\ Typed /\ LogOK(log) /\ Len(log) \in Nat /\ Len(log') \in Nat
      /\ \A q \in Runs : q # r => run'[q] = run[q]
      /\ StateOK(log, summary)
  BY LogIsOK, Grown DEF IInv, StatesInv
<1>5. ASSUME NEW q \in Runs, q # r PROVE ~Active(q)
  <2>1. CASE Active(r)
    BY <1>3, <1>5, <2>1
  <2>2. CASE Start(r)
    BY <1>4, <2>2, StartDoes
  <2>3. QED  BY <1>1, <2>1, <2>2
<1>6. \A q \in Runs : q # r =>
        run[q].pc \in {"idle", "done"} /\ run'[q].pc \in {"idle", "done"}
  BY <1>4, <1>5 DEF Active
<1>7. \A q \in Runs : q # r => ~Pending(q)
  BY <1>6 DEF Pending
<1>8. \A q \in Runs : run[q].pc \in Bordered => run[q].keep \in 1..Len(log)
  BY <1>4 DEF IInv, WindowInv, WindowFor, WindowOK, Planning, Bordered, Range
<1>9. ASSUME run'[r].pc \in Bordered
      PROVE  /\ Cardinality(RoundsFrom(1)') > 2
             /\ Cardinality(RoundsFrom(run[r].keep)') > 1
  <2>1. CASE Summarize(r)
    <3>1. WindowOK(r) /\ run[r].pc = "plan"
      BY <2>1, RangeReady DEF Summarize, At
    <3>2. /\ log' = log /\ run'[r].keep = KeepStart(run[r].window)
          /\ \E i \in Range(run[r].window) : i < KeepStart(run[r].window)
      BY <1>4, <2>1, <3>1, SummarizeDoes
    <3>3. run[r].window = FullWindow(log, summary)
      BY <1>3, <3>1 DEF SerialFor, Planning
    <3>4. summary # NoState => Cardinality(RoundsFrom(summary.start)) > 2
      BY <1>2, <1>7, <3>1 DEF Pending
    <3>5. /\ Cardinality(RoundsFrom(1)) > 2
          /\ Cardinality(RoundsFrom(KeepStart(run[r].window))) > 1
      BY <1>4, <3>2, <3>3, <3>4, BorderLeavesRounds
    <3>6. QED  BY <3>2, <3>5 DEF RoundsFrom
  <2>2. CASE ReadLength(r)
    <3>1. run[r].pc \in Bordered /\ log' = log /\ run'[r].keep = run[r].keep
      BY <1>4, <2>2, ReadLengthDoes DEF At, Bordered
    <3>2. QED  BY <1>2, <3>1 DEF RoundsFrom
  <2>3. QED  BY <1>9, <2>1, <2>2, BorderMade
<1>10. \A q \in Runs : run'[q].pc \in Bordered =>
         /\ Cardinality(RoundsFrom(1)') > 2
         /\ Cardinality(RoundsFrom(run[q].keep)') > 1
  BY <1>6, <1>9 DEF Bordered
<1>11. ASSUME NEW s \in 1..Len(log), log'[s].covers # {}
       PROVE  LET rounds == {k \in 1..(s - 1) : log'[k].kind = "user"}
              IN /\ Cardinality(rounds) > 2
                 /\ \A i \in log'[s].covers : Cardinality({k \in rounds : k > i}) > 1
  <2>1. log'[s] = log[s] /\ \A k \in 1..(s - 1) : log'[k] = log[k]
    BY <1>4, Grown
  <2>2. {k \in 1..(s - 1) : log'[k].kind = "user"} = {k \in 1..(s - 1) : log[k].kind = "user"}
    BY <2>1
  <2>3. QED  BY <1>1, <1>2, <1>11, <2>1, <2>2 DEF RecentRoundsKept
<1>12. CASE PersistSummary(r)
  <2>1. /\ At(r, "persist")
        /\ summary'.start = run[r].keep /\ run'[r].pc \in {"mark", "user"}
        /\ run'[r].keep = run[r].keep
    BY <1>4, <1>12, PersistSummaryDoes
  <2>2. PICK m \in Messages : Pushed(m) /\ m.covers = run[r].old
    BY <1>4, <1>12, PersistSummaryDoes
  <2>3. run[r].pc \in Bordered
    BY <2>1 DEF At, Bordered
  <2>4. PICK keep \in 1..Len(log) : keep = run[r].keep
    BY <1>8, <2>3
  <2>5. Cardinality(RoundsFrom(1)) > 2 /\ Cardinality(RoundsFrom(keep)) > 1
    BY <1>2, <2>3, <2>4
  <2>6. Pending(r)'
    BY <2>1, <2>4 DEF Pending
  <2>7. Cardinality(RoundsFrom(summary.start)') > 1
    <3>1. Cardinality(RoundsFrom(keep)') > 1
      BY <1>4, <2>5, RoundsGrow
    <3>2. RoundsFrom(summary.start)' = RoundsFrom(keep)'
      BY <2>1, <2>4 DEF RoundsFrom
    <3>3. QED  BY <3>1, <3>2
  <2>8. ASSUME NEW s \in 1..Len(log'), s \notin 1..Len(log)
        PROVE  LET rounds == {k \in 1..(s - 1) : log'[k].kind = "user"}
               IN /\ Cardinality(rounds) > 2
                  /\ \A i \in log'[s].covers : Cardinality({k \in rounds : k > i}) > 1
    <3>1. s - 1 = Len(log) /\ log'[s] = m /\ \A k \in 1..Len(log) : log'[k] = log[k]
      BY <1>4, <2>2, <2>8 DEF Pushed
    <3>2. {k \in 1..(s - 1) : log'[k].kind = "user"} = RoundsFrom(1)
      BY <3>1 DEF RoundsFrom
    <3>3. ASSUME NEW i \in run[r].old
          PROVE  Cardinality({k \in RoundsFrom(1) : k > i}) > 1
      <4>1. i < keep /\ i \in 1..Len(log)
        BY <1>4, <2>3, <2>4 DEF Summed, IInv, WindowInv, WindowFor, WindowOK, Planning,
                                Bordered, Range
      <4> DEFINE later == {k \in RoundsFrom(1) : k > i}
      <4>2. RoundsFrom(keep) \subseteq later
        BY <1>4, <4>1 DEF RoundsFrom
      <4>3. IsFiniteSet(later)
        <5>1. later \subseteq RoundsFrom(1)
          OBVIOUS
        <5>2. QED  BY <1>4, <5>1, RoundsTyped, FS_Subset
      <4> HIDE DEF later
      <4>4. /\ Cardinality(RoundsFrom(keep)) <= Cardinality(later)
            /\ Cardinality(RoundsFrom(keep)) \in Nat /\ Cardinality(later) \in Nat
        BY <4>2, <4>3, FS_Subset, FS_CardinalityType
      <4>5. Cardinality(later) > 1
        BY <2>5, <4>4
      <4>6. QED  BY <4>5 DEF later
    <3>4. QED  BY <2>2, <2>5, <3>1, <3>2, <3>3
  <2>9. RecentRoundsKept'
    BY <1>11, <2>8 DEF RecentRoundsKept
  <2>10. QED  BY <1>10, <2>6, <2>7, <2>9
<1>13. CASE ~PersistSummary(r)
  <2>1. summary' = summary
    BY <1>13, StepStates
  <2>2. RecentRoundsKept'
    <3>1. ASSUME NEW s \in 1..Len(log'), s \notin 1..Len(log) PROVE log'[s].covers = {}
      <4>1. log' # log
        BY <3>1
      <4>2. PICK m \in Messages : Pushed(m) /\ m.covers = {}
        BY <1>13, <4>1, CoverMade
      <4>3. s = Len(log) + 1
        BY <1>4, <3>1, <4>2 DEF Pushed
      <4>4. QED  BY <4>2, <4>3 DEF Pushed
    <3>2. QED  BY <1>11, <3>1 DEF RecentRoundsKept
  <2>3. CASE summary = NoState
    BY <1>10, <2>1, <2>2, <2>3
  <2>4. CASE summary # NoState
    <3>1. PICK p \in Nat \ {0} : p = summary.start
      BY <1>4, <2>4 DEF StateOK
    <3>2. RoundsFrom(summary.start)' = RoundsFrom(p)'
      BY <2>1, <3>1 DEF RoundsFrom
    <3>3. Cardinality(RoundsFrom(p)') > 1
      BY <1>2, <2>4, <3>1, RoundsGrow
    <3>4. ASSUME \A q \in Runs : ~Pending(q)' PROVE Cardinality(RoundsFrom(p)') > 2
      <4>1. CASE \A q \in Runs : ~Pending(q)
        BY <1>2, <2>4, <3>1, <4>1, RoundsGrow
      <4>2. CASE \E q \in Runs : Pending(q)
        <5>1. Pending(r)
          BY <1>7, <4>2
        <5>2. AppendUser(r)
          BY <1>1, <3>4, <5>1 DEF PendingMoves
        <5>3. PICK m \in Messages : Pushed(m) /\ m.kind = "user"
          BY <1>4, <5>2, AppendUserDoes
        <5>4. /\ Len(log') = Len(log) + 1 /\ log'[Len(log) + 1].kind = "user"
              /\ \A k \in 1..Len(log) : log'[k] = log[k]
          BY <5>3 DEF Pushed
        <5>5. p \in 1..Len(log)
          BY <1>4, <2>4, <3>1 DEF StateOK
        <5>6. PICK a \in RoundsFrom(p), b \in RoundsFrom(p) : a # b
          <6>1. Cardinality(RoundsFrom(p)) > 1 /\ IsFiniteSet(RoundsFrom(p))
            BY <1>2, <1>4, <2>4, <3>1, RoundsTyped
          <6>2. QED  BY <6>1, MembersOfTwo
        <5>7. PICK S : S = RoundsFrom(p)'
          OBVIOUS
        <5>8. a \in S /\ b \in S /\ Len(log) + 1 \in S /\ a # Len(log) + 1 /\ b # Len(log) + 1
          BY <1>4, <5>4, <5>5, <5>7 DEF RoundsFrom
        <5>9. IsFiniteSet(S)
          <6>1. S \subseteq 1..Len(log')
            BY <1>4, <5>7 DEF RoundsFrom
          <6>2. QED  BY <1>4, <6>1, IntervalSize, FS_Subset
        <5>10. Cardinality(S) > 2
          BY <5>6, <5>8, <5>9, ThreeMembers
        <5>11. QED  BY <5>7, <5>10
      <4>3. QED  BY <4>1, <4>2
    <3>5. QED  BY <1>10, <2>2, <3>2, <3>3, <3>4
  <2>5. QED  BY <2>3, <2>4
<1>14. QED  BY <1>12, <1>13

-----------------------------------------------------------------------------
(* What the frames refer to, at any place of the runs.                      *)

FrameOK(r) ==
  /\ Range(run[r].window) \subseteq 1..Len(log)
  /\ run[r].keep \in {0} \union 1..Len(log)
  /\ run[r].group # 0 => /\ run[r].group \in 1..Len(log)
                         /\ log[run[r].group].kind = "calls"
                         /\ run[r].left \subseteq DOMAIN log[run[r].group].calls

FramesInv == \A r \in Runs : FrameOK(r)

\* How the frame of the run that moves changes.
FrameMoves(r) ==
  /\ \/ run'[r].window \in {run[r].window, <<>>}
     \/ ReadsWindow(r)
  /\ \/ run'[r].keep \in {run[r].keep, 0}
     \/ run'[r].keep \in Range(run[r].window)
  /\ \/ run'[r].group = 0
     \/ run'[r].group = run[r].group /\ run'[r].left \subseteq run[r].left
     \/ AppendCalls(r)

\* The frame a run has taken.
LEMMA Became ==
  ASSUME Typed, NEW r \in Runs, NEW frame, Becomes(r, frame)
  PROVE  run'[r] = frame
BY DEF Typed, Becomes

\* A run that goes on keeps its frame.
LEMMA GoingMoves ==
  ASSUME Typed, NEW r \in Runs, NEW pc \in Pcs, Goto(r, pc)
  PROVE  FrameMoves(r)
<1>1. /\ run'[r].window = run[r].window /\ run'[r].keep = run[r].keep
      /\ run'[r].group = run[r].group /\ run'[r].left = run[r].left
  BY Going
<1>2. QED  BY <1>1 DEF FrameMoves

\* A run that ends refers to nothing.
LEMMA EndMoves ==
  ASSUME Typed, NEW r \in Runs, End(r)
  PROVE  FrameMoves(r)
<1>1. run'[r] = [Frame EXCEPT !.pc = "done"]
  BY Became DEF End
<1>2. run'[r].window = <<>> /\ run'[r].keep = 0 /\ run'[r].group = 0
  BY <1>1 DEF Frame
<1>3. QED  BY <1>2 DEF FrameMoves

\* A run whose context is built refers to its border.
LEMMA BuiltMoves ==
  ASSUME Typed, NEW r \in Runs, Built(r)
  PROVE  FrameMoves(r)
<1> DEFINE pc == IF Normalize(log, run[r].window).dirty THEN "mark" ELSE "user"
<1>1. Becomes(r, [Frame EXCEPT !.keep = run[r].keep, !.pc = pc])
  BY DEF Built
<1> HIDE DEF pc
<1>2. run'[r] = [Frame EXCEPT !.keep = run[r].keep, !.pc = pc]
  BY <1>1, Became
<1>3. run'[r].window = <<>> /\ run'[r].keep = run[r].keep /\ run'[r].group = 0
  BY <1>2 DEF Frame
<1>4. QED  BY <1>3 DEF FrameMoves

\* How each action changes what the frame refers to.
LEMMA StepFrame ==
  ASSUME IInv, NEW r \in Runs, Step(r)
  PROVE  FrameMoves(r)
<1>1. Typed /\ LogOK(log) /\ run[r] \in Frames
  BY LogIsOK DEF IInv, Typed
<1>2. CASE Start(r)
  BY <1>1, <1>2, GoingMoves DEF Start, Pcs
<1>3. CASE ReadState(r)
  <2> DEFINE pc == IF summary = NoState THEN "all" ELSE "range"
  <2>1. Becomes(r, [run[r] EXCEPT !.state = summary, !.pc = pc])
    BY <1>3 DEF ReadState
  <2> HIDE DEF pc
  <2>2. run'[r] = [run[r] EXCEPT !.state = summary, !.pc = pc]
    BY <1>1, <2>1, Became
  <2>3. /\ run'[r].window = run[r].window /\ run'[r].keep = run[r].keep
        /\ run'[r].group = run[r].group /\ run'[r].left = run[r].left
    BY <1>1, <2>2 DEF Frames
  <2>4. QED  BY <2>3 DEF FrameMoves
<1>4. ASSUME NEW w, Becomes(r, [run[r] EXCEPT !.window = w, !.pc = "plan"])
      PROVE  /\ run'[r].window = w /\ run'[r].keep = run[r].keep
             /\ run'[r].group = run[r].group /\ run'[r].left = run[r].left
  <2>1. run'[r] = [run[r] EXCEPT !.window = w, !.pc = "plan"]
    BY <1>1, <1>4, Became
  <2>2. QED  BY <1>1, <2>1 DEF Frames
<1>5. CASE ReadRange(r) /\ Ranged(log, run[r].state)
  <2>1. At(r, "range")
    BY <1>5 DEF ReadRange
  <2>2. StateOK(log, run[r].state) /\ run[r].state # NoState
    BY <2>1, RangeReady
  <2>3. run'[r].pc = "plan" /\ ReadsWindow(r)
    <3>1. run'[r] = [run[r] EXCEPT !.window = RangedWindow(log, run[r].state), !.pc = "plan"]
      BY <1>1, <1>5, Became DEF ReadRange
    <3>2. run'[r].pc = "plan"
      BY <1>1, <3>1 DEF Frames
    <3>3. QED  BY <1>1, <1>5, <2>2, <3>2, ReadRangeDoes
  <2>4. /\ run'[r].keep = run[r].keep
        /\ run'[r].group = run[r].group /\ run'[r].left = run[r].left
    BY <1>4, <1>5 DEF ReadRange
  <2>5. QED  BY <2>3, <2>4 DEF FrameMoves
<1>6. CASE ReadRange(r) /\ ~Ranged(log, run[r].state)
  BY <1>1, <1>6, GoingMoves DEF ReadRange, Pcs
<1>7. CASE ReadAll(r)
  <2>1. StateOK(log, run[r].state)
    BY RangeReady
  <2>2. ReadsWindow(r)
    BY <1>1, <1>7, <2>1, ReadAllDoes
  <2>3. /\ run'[r].keep = run[r].keep
        /\ run'[r].group = run[r].group /\ run'[r].left = run[r].left
    BY <1>4, <1>7 DEF ReadAll
  <2>4. QED  BY <2>2, <2>3 DEF FrameMoves
<1>8. CASE Fits(r)
  BY <1>1, <1>8, BuiltMoves DEF Fits
<1>9. CASE Refused(r)
  BY <1>1, <1>9, EndMoves DEF Refused
<1>10. CASE Summarize(r)
  <2> DEFINE keep == KeepStart(run[r].window)
  <2>1. keep \in Range(run[r].window)
    <3>1. WindowOK(r)
      BY <1>10, RangeReady DEF Summarize
    <3>2. QED  BY <1>1, <1>10, <3>1, OlderIs DEF Summarize
  <2> DEFINE old == Older(r)
  <2>2. Becomes(r, [run[r] EXCEPT !.keep = keep, !.old = old, !.pc = "length"])
    BY <1>10 DEF Summarize
  <2> HIDE DEF keep, old
  <2>3. run'[r] = [run[r] EXCEPT !.keep = keep, !.old = old, !.pc = "length"]
    BY <1>1, <2>2, Became
  <2>4. /\ run'[r].window = run[r].window /\ run'[r].keep = keep
        /\ run'[r].group = run[r].group /\ run'[r].left = run[r].left
    BY <1>1, <2>3 DEF Frames
  <2>5. QED  BY <2>1, <2>4 DEF FrameMoves
<1>11. CASE ReadLength(r)
  <2>1. run'[r] = [run[r] EXCEPT !.offset = Len(log) + 1, !.pc = "persist"]
    BY <1>1, <1>11, Became DEF ReadLength
  <2>2. /\ run'[r].window = run[r].window /\ run'[r].keep = run[r].keep
        /\ run'[r].group = run[r].group /\ run'[r].left = run[r].left
    BY <1>1, <2>1 DEF Frames
  <2>3. QED  BY <2>2 DEF FrameMoves
<1>12. CASE PersistSummary(r)
  BY <1>1, <1>12, BuiltMoves DEF PersistSummary
<1>13. CASE MarkDirty(r)
  BY <1>1, <1>13, GoingMoves DEF MarkDirty, Pcs
<1>14. CASE AppendUser(r)
  BY <1>1, <1>14, GoingMoves DEF AppendUser, Pcs
<1>15. CASE AppendCalls(r)
  <2>1. PICK t \in Turns :
          Becomes(r, [run[r] EXCEPT !.pc = "tools", !.group = Len(log) + 1,
                                    !.left = 1..Len(t.calls)])
    BY <1>15 DEF AppendCalls
  <2> DEFINE left == 1..Len(t.calls)
  <2>2. run'[r] = [run[r] EXCEPT !.pc = "tools", !.group = Len(log) + 1, !.left = left]
    BY <1>1, <2>1, Became
  <2> HIDE DEF left
  <2>3. run'[r].window = run[r].window /\ run'[r].keep = run[r].keep
    BY <1>1, <2>2 DEF Frames
  <2>4. QED  BY <1>15, <2>3 DEF FrameMoves
<1>16. CASE AppendResult(r)
  <2>1. PICK k \in run[r].left :
          Becomes(r, [run[r] EXCEPT !.left = run[r].left \ {k},
                    !.pc = IF log[run[r].group].calls[k] = "skill" THEN "attach"
                           ELSE IF run[r].left = {k} THEN "answer" ELSE "tools"])
    BY <1>16 DEF AppendResult
  <2> DEFINE pc == IF log[run[r].group].calls[k] = "skill" THEN "attach"
                   ELSE IF run[r].left = {k} THEN "answer" ELSE "tools"
  <2>2. run'[r] = [run[r] EXCEPT !.left = run[r].left \ {k}, !.pc = pc]
    BY <1>1, <2>1, Became
  <2> HIDE DEF pc
  <2>3. /\ run'[r].window = run[r].window /\ run'[r].keep = run[r].keep
        /\ run'[r].group = run[r].group /\ run'[r].left = run[r].left \ {k}
    BY <1>1, <2>2 DEF Frames
  <2>4. QED  BY <2>3 DEF FrameMoves
<1>17. CASE AppendAttached(r)
  <2> DEFINE pc == IF run[r].left = {} THEN "answer" ELSE "tools"
  <2>1. pc \in Pcs
    BY DEF Pcs
  <2> HIDE DEF pc
  <2>2. Goto(r, pc)
    BY <1>17 DEF AppendAttached, pc
  <2>3. QED  BY <1>1, <2>1, <2>2, GoingMoves
<1>18. CASE AppendAnswer(r)
  BY <1>1, <1>18, EndMoves DEF AppendAnswer
<1>19. CASE Interrupted(r)
  BY <1>1, <1>19, EndMoves DEF Interrupted
<1>20. QED
  BY <1>2, <1>3, <1>5, <1>6, <1>7, <1>8, <1>9, <1>10, <1>11, <1>12, <1>13,
     <1>14, <1>15, <1>16, <1>17, <1>18, <1>19, StepCases

\* What the frames refer to stays in the list.
LEMMA FramesStep ==
  ASSUME IInv, FramesInv, NEW r \in Runs, Step(r)
  PROVE  FramesInv'
<1>1. /\ Typed /\ Len(log) \in Nat /\ Len(log') \in Nat
      /\ Len(log') = Len(log) \/ Len(log') = Len(log) + 1
      /\ \A i \in 1..Len(log) : log'[i] = log[i] /\ i \in 1..Len(log')
      /\ \A q \in Runs : q # r => run'[q] = run[q]
  BY Grown DEF IInv
<1>2. ASSUME NEW q \in Runs, q # r PROVE FrameOK(q)'
  <2>1. run'[q] = run[q] /\ FrameOK(q)
    BY <1>1, <1>2 DEF FramesInv
  <2>2. QED  BY <1>1, <2>1 DEF FrameOK
<1>3. FrameMoves(r) /\ FrameOK(r)
  BY StepFrame DEF FramesInv
<1>4. Range(run'[r].window) \subseteq 1..Len(log')
  <2>1. CASE run'[r].window = run[r].window
    BY <1>1, <1>3, <2>1 DEF FrameOK
  <2>2. CASE run'[r].window = <<>>
    BY <2>2 DEF Range
  <2>3. CASE ReadsWindow(r)
    <3>1. Range(FullWindow(log, run[r].state)) \subseteq 1..Len(log)
      BY ReadWindowOK DEF IsWindow, Range
    <3>2. run'[r].window = FullWindow(log, run[r].state)
      BY <2>3 DEF ReadsWindow
    <3>3. QED  BY <1>1, <3>1, <3>2
  <2>4. QED  BY <1>3, <2>1, <2>2, <2>3 DEF FrameMoves
<1>5. run'[r].keep \in {0} \union 1..Len(log')
  BY <1>1, <1>3 DEF FrameMoves, FrameOK
<1>6. run'[r].group # 0 =>
        /\ run'[r].group \in 1..Len(log') /\ log'[run'[r].group].kind = "calls"
        /\ run'[r].left \subseteq DOMAIN log'[run'[r].group].calls
  <2>1. CASE run'[r].group = run[r].group /\ run'[r].left \subseteq run[r].left
    BY <1>1, <1>3, <2>1 DEF FrameOK
  <2>2. CASE AppendCalls(r)
    <3>1. run'[r].group = Len(log) + 1
      BY <1>1, <2>2, AppendCallsDoes
    <3>2. PICK m \in Messages : Pushed(m) /\ m.kind = "calls" /\ run'[r].left = 1..Len(m.calls)
      BY <1>1, <2>2, AppendCallsDoes
    <3>3. m.calls \in Seq(Tools)
      BY DEF Messages
    <3>4. run'[r].left = DOMAIN m.calls
      BY <3>2, <3>3
    <3>5. Len(log') = Len(log) + 1 /\ log'[Len(log) + 1] = m
      BY <3>2 DEF Pushed
    <3>6. QED  BY <1>1, <3>1, <3>2, <3>4, <3>5
  <2>3. QED  BY <1>3, <2>1, <2>2 DEF FrameMoves
<1>7. FrameOK(r)'
  BY <1>4, <1>5, <1>6 DEF FrameOK
<1>8. QED  BY <1>2, <1>7 DEF FramesInv

-----------------------------------------------------------------------------
(* The invariant holds.                                                     *)

Invariant == IInv /\ FramesInv

\* The invariant holds of every history that runs one after the other have written.
LEMMA InitHolds == Init => Invariant
<1> SUFFICES ASSUME Init PROVE Invariant
  OBVIOUS
<1>1. /\ log \in Seq(Messages) /\ Len(log) <= MaxLog /\ Len(log) \in Nat
      /\ \A i \in 1..Len(log) : log[i].kind # "summary" /\ log[i].covers = {}
      /\ Answers(log) /\ AnswersOnce(log) /\ AnswersSoon(log)
  BY SeedsAssumption DEF Init
<1>2. /\ summary = NoState /\ dirty = FALSE /\ seen = {}
      /\ run = [r \in Runs |-> Frame]
  BY DEF Init
<1>3. ASSUME NEW r \in Runs
      PROVE  /\ run[r] = Frame /\ run[r].pc = "idle" /\ run[r].state = NoState
             /\ run[r].window = <<>> /\ run[r].keep = 0 /\ run[r].group = 0
  BY <1>2 DEF Frame
<1>4. Typed
  BY <1>1, <1>2, FrameTyped DEF Typed
<1>5. StatesInv
  BY <1>2, <1>3, FrameTyped DEF StatesInv, StateOK
<1>6. WindowInv
  BY <1>3 DEF WindowInv, WindowFor, Planning, Bordered
<1>7. ReachInv
  <2>1. Stood(From(NoState))
    BY DEF Stood, From
  <2>2. QED  BY <1>2, <1>3, <2>1 DEF ReachInv, ReachFor, Planning
<1>8. AnswerInv
  BY <1>1, <1>3 DEF AnswerInv, TurnFor, Turning
<1>9. SerialInv
  BY <1>1, <1>3 DEF SerialInv, SerialFor, Active, Planning, Turning
<1>10. RoundsInv
  <2>1. RecentRoundsKept
    BY <1>1 DEF RecentRoundsKept
  <2>2. QED  BY <1>2, <1>3, <2>1 DEF RoundsInv, Bordered
<1>11. FramesInv
  BY <1>3 DEF FramesInv, FrameOK, Range
<1>12. QED
  BY <1>4, <1>5, <1>6, <1>7, <1>8, <1>9, <1>10, <1>11 DEF Invariant, IInv

\* The invariant holds when nothing changes.
LEMMA StutterHolds == Invariant /\ UNCHANGED vars => Invariant'
<1> SUFFICES ASSUME Invariant, UNCHANGED vars PROVE Invariant'
  OBVIOUS
<1>1. log' = log /\ summary' = summary /\ dirty' = dirty /\ run' = run /\ seen' = seen
  BY DEF vars
<1>2. /\ Typed /\ StatesInv /\ WindowInv /\ ReachInv /\ AnswerInv /\ SerialInv
      /\ RoundsInv /\ FramesInv
  BY DEF Invariant, IInv
<1>3. Typed'
  BY <1>1, <1>2 DEF Typed
<1>4. StatesInv'
  BY <1>1, <1>2 DEF StatesInv
<1>5. WindowInv'
  BY <1>1, <1>2 DEF WindowInv, WindowFor, WindowOK, Summed, Expendable
<1>6. ReachInv'
  BY <1>1, <1>2 DEF ReachInv, ReachFor, Reaches, Stood, Stands, Expendable
<1>7. AnswerInv'
  BY <1>1, <1>2 DEF AnswerInv, TurnFor
<1>8. SerialInv'
  BY <1>1, <1>2 DEF SerialInv, SerialFor, Active, Quiet
<1>9. RoundsInv'
  BY <1>1, <1>2 DEF RoundsInv, RoundsFrom, Pending, RecentRoundsKept
<1>10. FramesInv'
  BY <1>1, <1>2 DEF FramesInv, FrameOK
<1>11. QED
  BY <1>3, <1>4, <1>5, <1>6, <1>7, <1>8, <1>9, <1>10 DEF Invariant, IInv

\* Every step preserves the invariant.
LEMMA StepHolds == Invariant /\ [Next]_vars => Invariant'
<1> SUFFICES ASSUME Invariant, [Next]_vars PROVE Invariant'
  OBVIOUS
<1>1. ASSUME NEW r \in Runs, Step(r) PROVE Invariant'
  <2>1. IInv /\ FramesInv
    BY DEF Invariant
  <2>2. Typed'
    BY <1>1, <2>1, Grown
  <2>3. StatesInv' /\ WindowInv' /\ ReachInv'
    BY <1>1, <2>1, StatesStep, WindowStep, ReachStep
  <2>4. AnswerInv' /\ SerialInv' /\ RoundsInv'
    BY <1>1, <2>1, AnswerStep, SerialStep, RoundsStep
  <2>5. FramesInv'
    BY <1>1, <2>1, FramesStep
  <2>6. QED  BY <2>2, <2>3, <2>4, <2>5 DEF Invariant, IInv
<1>2. QED  BY <1>1, StutterHolds DEF Next

\* The inductive invariant holds of every behaviour, for all seeds, runs and tool turns.
THEOREM Invariance == Spec => []Invariant
BY InitHolds, StepHolds, PTL DEF Spec

\* The log, the summary state and the frames of the runs stay in their types, and what
\* they refer to is in the log (the writes of redis_session_store.py and of a run).
THEOREM Typing == Spec => []TypeOK
<1>1. Invariant => TypeOK
  <2> SUFFICES ASSUME Invariant PROVE TypeOK
    OBVIOUS
  <2>1. Typed /\ StatesInv /\ FramesInv
    BY DEF Invariant, IInv
  <2>2. summary # NoState => {summary.id, summary.start, summary.startOffset} \subseteq 1..Len(log)
    <3> SUFFICES ASSUME summary # NoState
                 PROVE  /\ summary.id \in 1..Len(log) /\ summary.start \in 1..Len(log)
                        /\ summary.startOffset \in 1..Len(log)
      OBVIOUS
    <3>1. /\ summary.id \in 1..Len(log) /\ summary.start \in 1..(summary.id - 1)
          /\ summary.startOffset = summary.start
      BY <2>1 DEF StatesInv, StateOK
    <3>2. Len(log) \in Nat
      BY <2>1 DEF Typed
    <3>3. PICK n \in Nat, i \in Nat, a \in Nat :
            n = Len(log) /\ i = summary.id /\ a = summary.start
      BY <2>1, <3>2 DEF Typed, States
    <3>4. i \in 1..n /\ a \in 1..n
      BY <3>1, <3>3
    <3>5. QED  BY <3>1, <3>3, <3>4
  <2>3. \A r \in Runs : run[r].pc \in Pcs
    BY <2>1 DEF Typed, Frames
  <2>4. QED  BY <2>1, <2>2, <2>3 DEF TypeOK, Typed, FramesInv, FrameOK
<1>2. QED  BY <1>1, Invariance, PTL

\* RedisSessionStore's read of the window from the cached offsets agrees with the scan by
\* message ids whenever its checks pass, however many runs overlap.
THEOREM CheapReadIsExact == Spec => []RangedIsExact
<1>1. Invariant => RangedIsExact
  <2>1. ASSUME IInv, NEW st, StateOK(log, st), st # NoState, Ranged(log, st)
        PROVE  RangedWindow(log, st) = FullWindow(log, st)
    <3>1. Len(log) \in Nat
      BY <2>1 DEF IInv, Typed
    <3>2. QED  BY <2>1, <3>1, WindowsAgree
  <2>2. QED  BY <2>1 DEF RangedIsExact, Invariant, IInv, StatesInv
<1>2. QED  BY <1>1, Invariance, PTL

\* ContextSummaryPlanner.plan summarizes only what lies before the last two rounds, as long
\* as runs do not overlap or end between their summary and their user message.
THEOREM RecentRoundsStay == Spec => []RecentRoundsKept
<1>1. Invariant => RecentRoundsKept
  BY DEF Invariant, IInv, RoundsInv, RecentRoundsKept
<1>2. QED  BY <1>1, Invariance, PTL

-----------------------------------------------------------------------------
(* The window and the request.                                              *)

IsKnown(g, n, W, l) ==
  g = [i \in 1..n |-> i \in W \/ \E s \in (i + 1)..n : i \in l[s].covers /\ g[s]]

\* A message that is old is of a summary, or may be left out.
Kin(i, W, l) ==
  \/ i \in W \/ Expendable(l, i)
  \/ \E s \in (i + 1)..Len(l) : i \in l[s].covers /\ l[s].kind = "summary"

\* What is known when each message is in the window, of a later summary, or may be
\* left out: all that may not, for the last message not known would be of a summary
\* that is.
LEMMA AllKnown ==
  ASSUME NEW l, NEW n \in Nat, n = Len(l), NEW W, \A i \in 1..n : Kin(i, W, l),
         NEW g, IsKnown(g, n, W, l)
  PROVE  \A i \in 1..n : g[i] \/ Expendable(l, i)
<1> DEFINE S == {i \in 1..n : ~g[i] /\ ~Expendable(l, i)}
<1> SUFFICES ASSUME S # {} PROVE FALSE
  OBVIOUS
<1>1. S \in SUBSET (0..n)
  OBVIOUS
<1>2. PICK i \in S : \A k \in S : k <= i
  BY <1>1, Greatest
<1>3. i \in 1..n /\ ~g[i] /\ ~Expendable(l, i)
  OBVIOUS
<1>4. g[i] = (i \in W \/ \E s \in (i + 1)..n : i \in l[s].covers /\ g[s])
  BY <1>3 DEF IsKnown
<1>5. PICK s \in (i + 1)..n : i \in l[s].covers /\ l[s].kind = "summary"
  BY <1>3, <1>4 DEF Kin
<1>6. s \in 1..n /\ ~(s <= i)
  BY <1>3
<1>7. ~Expendable(l, s)
  BY <1>5 DEF Expendable
<1>8. g[s]
  BY <1>2, <1>6, <1>7
<1>9. QED  BY <1>3, <1>4, <1>5, <1>8

\* That recursion has a solution: a message is known if each set has it that has the
\* window and, with a message, those that message is made of.
LEMMA KnownExists ==
  ASSUME NEW n \in Nat, NEW W, NEW l
  PROVE  \E g : IsKnown(g, n, W, l)
<1> DEFINE Closed(K) == /\ \A i \in 1..n : i \in W => i \in K
                        /\ \A s \in K : \A i \in 1..(s - 1) : i \in l[s].covers => i \in K
           G == {i \in 1..n : \A K \in SUBSET (1..n) : Closed(K) => i \in K}
           g == [i \in 1..n |-> i \in G]
<1>1. Closed(G)
  <2>1. ASSUME NEW s \in G, NEW i \in 1..(s - 1), i \in l[s].covers PROVE i \in G
    <3>1. i \in 1..n
      OBVIOUS
    <3>2. ASSUME NEW K \in SUBSET (1..n), Closed(K) PROVE i \in K
      <4>1. s \in K
        BY <3>2
      <4>2. QED  BY <2>1, <3>2, <4>1
    <3>3. QED  BY <3>1, <3>2
  <2>2. \A i \in 1..n : i \in W => i \in G
    OBVIOUS
  <2>3. QED  BY <2>1, <2>2
<1>2. \A K \in SUBSET (1..n) : Closed(K) => G \subseteq K
  OBVIOUS
<1>3. G \in SUBSET (1..n)
  OBVIOUS
<1>4. ASSUME NEW i \in 1..n
      PROVE  i \in G <=> (i \in W \/ \E s \in (i + 1)..n : i \in l[s].covers /\ s \in G)
  <2>1. CASE i \in W
    BY <1>1, <2>1
  <2>2. ASSUME NEW s \in (i + 1)..n, i \in l[s].covers, s \in G PROVE i \in G
    <3>1. i \in 1..(s - 1)
      OBVIOUS
    <3>2. QED  BY <1>1, <2>2, <3>1
  <2>3. ASSUME i \notin W, \A s \in (i + 1)..n : i \in l[s].covers => s \notin G
        PROVE  i \notin G
    <3> DEFINE K == G \ {i}
    <3>1. ASSUME NEW s \in K, NEW j \in 1..(s - 1), j \in l[s].covers PROVE j \in K
      <4>1. j \in G
        BY <1>1, <3>1
      <4>2. CASE j = i
        <5>1. s \in (i + 1)..n
          BY <1>3, <4>2
        <5>2. QED  BY <2>3, <3>1, <4>2, <5>1
      <4>3. QED  BY <4>1, <4>2
    <3>2. \A j \in 1..n : j \in W => j \in K
      BY <1>1, <2>3
    <3>3. Closed(K) /\ K \in SUBSET (1..n)
      BY <1>3, <3>1, <3>2
    <3>4. G \subseteq K
      BY <1>2, <3>3
    <3>5. QED  BY <3>4
  <2>4. QED  BY <2>1, <2>2, <2>3
<1> HIDE DEF G
<1>5. \A i \in 1..n : g[i] = (i \in W \/ \E s \in (i + 1)..n : i \in l[s].covers /\ g[s])
  <2> TAKE i \in 1..n
  <2>0. \A s \in (i + 1)..n : s \in 1..n
    OBVIOUS
  <2>1. \A s \in (i + 1)..n : g[s] <=> s \in G
    BY <2>0
  <2>2. g[i] = (i \in G)
    OBVIOUS
  <2> HIDE DEF g
  <2>3. (\E s \in (i + 1)..n : i \in l[s].covers /\ s \in G)
          <=> (\E s \in (i + 1)..n : i \in l[s].covers /\ g[s])
    BY <2>1
  <2>4. QED  BY <1>4, <2>2, <2>3
<1>6. g = [i \in 1..n |-> i \in W \/ \E s \in (i + 1)..n : i \in l[s].covers /\ g[s]]
  BY <1>5
<1>7. QED  BY <1>6 DEF IsKnown

\* Compression loses nothing that was said, however many summaries and overlapping
\* runs there are: what repair and pruning do not take out is in the window, or a
\* summary that is known was made of it.
THEOREM NothingIsForgotten == Spec => []NothingForgotten
<1>1. Invariant => NothingForgotten
  <2> SUFFICES ASSUME Invariant, NEW i \in 1..Len(log) PROVE i \in Known \/ Expendable(log, i)
    BY DEF NothingForgotten
  <2>1. /\ IInv /\ Stood(From(summary)) /\ StateOK(log, summary) /\ Len(log) \in Nat
        /\ From(summary) \in Nat \ {0}
    BY FromTyped DEF Invariant, IInv, ReachInv, StatesInv, Typed
  <2> DEFINE W == Range(FullWindow(log, summary))
  <2>2. W = From(summary)..Len(log)
    BY <2>1, FullWindowIs DEF IsWindow
  <2>3. \A j \in 1..Len(log) : Kin(j, W, log)
    <3> TAKE j \in 1..Len(log)
    <3>1. j \in From(summary)..Len(log) \/ j \in 1..(From(summary) - 1)
      BY <2>1
    <3>2. QED  BY <2>1, <2>2, <3>1 DEF Stood, Stands, Kin
  <2> DEFINE known[j \in 1..Len(log)] ==
               j \in W \/ \E s \in (j + 1)..Len(log) : j \in log[s].covers /\ known[s]
  <2>4. Known = {j \in 1..Len(log) : known[j]}
    BY DEF Known
  <2> HIDE DEF W
  <2>5. IsKnown(known, Len(log), W, log)
    <3>1. \E g : IsKnown(g, Len(log), W, log)
      BY <2>1, KnownExists
    <3>2. QED  BY <3>1 DEF IsKnown
  <2> HIDE DEF known
  <2>6. known[i] \/ Expendable(log, i)
    BY <2>1, <2>3, <2>5, AllKnown
  <2>7. QED  BY <2>4, <2>6
<1>2. QED  BY <1>1, Invariance, PTL

\* Without an overlap the border of a run that plans parts no result from its
\* message: it starts a round, is the summary or the front of the list.
LEMMA BorderIsStraight ==
  ASSUME IInv, NEW r \in Runs, At(r, "plan"), "overlap" \notin seen
  PROVE  Straight(log, KeepStart(run[r].window))
<1> DEFINE w == run[r].window
           keep == KeepStart(w)
<1>1. /\ w = FullWindow(log, summary) /\ AnswersSoon(log) /\ StateOK(log, summary)
      /\ Len(log) \in Nat /\ LogOK(log)
  BY LogIsOK DEF IInv, SerialInv, SerialFor, At, Planning, StatesInv, Typed
<1>2. /\ w \in Seq(1..Len(log))
      /\ w # <<>> => w[1] = IF summary = NoState THEN 1 ELSE summary.id
  BY <1>1, FullWindowIs DEF IsWindow
<1>3. keep = 0 \/ keep = 1 \/ (keep \in 1..Len(log) /\ log[keep].kind \in {"user", "summary"})
  <2>1. CASE w = <<>>
    BY <2>1 DEF KeepStart
  <2>2. CASE w # <<>>
    <3>1. /\ keep \in Range(w)
          /\ Cardinality(RoundStarts(w)) <= 2 => keep = w[1]
          /\ Cardinality(RoundStarts(w)) > 2 => \E k, j \in RoundStarts(w) : k < j /\ keep = w[k]
      BY <1>1, <1>2, <2>2, KeepStartIs
    <3>2. keep \in 1..Len(log)
      BY <1>2, <3>1 DEF Range
    <3>3. Cardinality(RoundStarts(w)) \in Nat
      BY <1>1, FromIsPlace, FullWindowIs, StartsCounted, FS_CardinalityType
    <3>4. CASE Cardinality(RoundStarts(w)) > 2
      <4>1. log[keep].kind = "user"
        BY <3>1, <3>4 DEF RoundStarts
      <4>2. QED  BY <3>2, <4>1
    <3>5. CASE Cardinality(RoundStarts(w)) <= 2
      <4>1. keep = IF summary = NoState THEN 1 ELSE summary.id
        BY <1>2, <2>2, <3>1, <3>5
      <4>2. summary # NoState => log[summary.id].kind = "summary"
        BY <1>1 DEF StateOK
      <4>3. QED  BY <3>2, <4>1, <4>2
    <3>6. QED  BY <3>3, <3>4, <3>5
  <2>3. QED  BY <2>1, <2>2
<1> HIDE DEF keep
<1>4. ASSUME NEW i \in 1..Len(log), log[i].kind = "tool", log[i].call[1] < keep, keep <= i
      PROVE  FALSE
  <2>1. PICK c \in 1..(i - 1) : c = log[i].call[1]
    BY <1>1, <1>4, ToolCallIs
  <2>2. c \in Nat \ {0} /\ c < keep
    BY <1>4, <2>1
  <2>3. keep \in 1..Len(log) /\ log[keep].kind \in {"user", "summary"}
    BY <1>3, <2>2
  <2>4. keep \in log[i].call[1]..i
    BY <1>4, <2>1, <2>2, <2>3
  <2>5. log[keep].kind \notin {"user", "summary"}
    BY <1>1, <1>4, <2>4 DEF AnswersSoon
  <2>6. QED  BY <2>3, <2>5
<1>5. QED  BY <1>4 DEF Straight, keep

\* Repair gives each request its results right behind their calls and drops only messages
\* of calls without a text; pruning and summarizing at the border keep it so while runs do
\* not overlap (context_builder.py, ContextSummaryPlanner).
THEOREM RequestsAreWellFormed == Spec => []RequestsWellFormed
<1>1. Invariant => RequestsWellFormed
  <2> SUFFICES ASSUME Invariant, NEW r \in Runs, At(r, "plan")
               PROVE  LET keep == KeepStart(run[r].window)
                          recent == Only(Pruned(r),
                                         {k \in DOMAIN Pruned(r) : Pruned(r)[k].at >= keep})
                      IN /\ WellFormed(Records(r))
                         /\ \A i \in Range(run[r].window) \ Kept(Records(r)) :
                              log[i].kind = "calls" /\ ~log[i].text
                         /\ "overlap" \notin seen => WellFormed(Pruned(r)) /\ WellFormed(recent)
    BY DEF RequestsWellFormed
  <2> DEFINE w == run[r].window
             keep == KeepStart(w)
  <2>1. IInv /\ LogOK(log) /\ WindowOK(r)
    BY LogIsOK, RangeReady DEF Invariant
  <2>2. w \in Seq(1..Len(log)) /\ \A j, k \in DOMAIN w : w[j] = w[k] => j = k
    BY <2>1 DEF WindowOK
  <2>3. /\ Sound(log, Records(r))
        /\ \A i \in Range(w) : i \in Kept(Records(r)) \/ Droppable(log, i)
    BY <2>1, <2>2, NormalizeRepairs DEF Records
  <2>4. keep \in Nat
    <3>1. CASE w = <<>>
      BY <3>1 DEF KeepStart
    <3>2. CASE w # <<>>
      <4>1. keep \in Range(w) /\ Len(log) \in Nat
        BY <2>1, <2>2, <3>2, KeepStartIs DEF IInv, Typed
      <4>2. QED  BY <2>2, <4>1 DEF Range
    <3>3. QED  BY <3>1, <3>2
  <2>5. ASSUME "overlap" \notin seen
        PROVE  /\ WellFormed(Pruned(r))
               /\ WellFormed(Only(Pruned(r), {k \in DOMAIN Pruned(r) : Pruned(r)[k].at >= keep}))
    <3>1. Straight(log, keep)
      BY <2>1, <2>5, BorderIsStraight
    <3>2. Sound(log, Pruned(r))
      BY <2>1, <2>3, <2>4, <3>1, PruneSound DEF Pruned
    <3> HIDE DEF keep
    <3>3. Sound(log, Only(Pruned(r), {k \in DOMAIN Pruned(r) : Pruned(r)[k].at >= keep}))
      BY <2>1, <2>4, <3>1, <3>2, RecentSound
    <3>4. QED  BY <3>2, <3>3, SoundIsWellFormed
  <2>6. WellFormed(Records(r))
    BY <2>3, SoundIsWellFormed
  <2>7. QED  BY <2>3, <2>5, <2>6 DEF Droppable
<1>2. QED  BY <1>1, Invariance, PTL
=============================================================================
