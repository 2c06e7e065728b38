--------------------------- MODULE AgentLoopProofs ---------------------------
(***************************************************************************)
(* Proofs about AgentLoop, for any number of turns, attempts and chunks    *)
(* and whatever calls the model asks for: what is stored is what the model *)
(* was told, every call is answered before the model speaks again, and the *)
(* events implement LoopContract.                                          *)
(***************************************************************************)
EXTENDS AgentLoop, SequenceTheorems, FiniteSetTheorems, WellFoundedInduction, TLAPS

-----------------------------------------------------------------------------
(* FlattenSeq, one sequence at a time.                                       *)

\* The least of a set of naturals: what takes the place of induction below.
LEMMA LeastNat == ASSUME NEW T \in SUBSET Nat, T # {} PROVE \E n \in T : \A m \in T : n <= m
<1> DEFINE R == StrictSubsetOrdering(Nat)
           F == FiniteSubsetsOf(Nat)
           D == {1 .. n : n \in T}
<1>1. IsWellFoundedOn(R, F)
  BY FS_StrictSubsetOrderingWellFounded
<1>2. D \subseteq F
  <2>1. \A n \in T : IsFiniteSet(1 .. n)
    BY FS_Interval
  <2>2. QED BY <2>1 DEF FiniteSubsetsOf
<1>3. D # {}
  OBVIOUS
<1>4. PICK d \in D : \A e \in D : ~(<<e, d>> \in R)
  <2> HIDE DEF R, F, D
  <2> QED BY <1>1, <1>2, <1>3, WFMin
<1>5. PICK n \in T : d = 1 .. n
  OBVIOUS
<1>6. ASSUME NEW m \in T, m < n PROVE FALSE
  <2>1. 1 .. m \in D
    OBVIOUS
  <2>2. 1 .. m \subseteq 1 .. n /\ 1 .. m # 1 .. n
    BY <1>6, n \in 1 .. n
  <2>3. <<1 .. m, 1 .. n>> \in R
    BY <2>2 DEF StrictSubsetOrdering
  <2> QED BY <1>4, <1>5, <2>1, <2>3
<1>7. QED
  BY <1>6


\* f goes through the first n sequences of s the way FlattenSeq does.
Joins(f, s, n) == f = [i \in 1..n |-> IF i = 1 THEN s[i] ELSE f[i - 1] \o s[i]]

\* There is such a pass over the first n sequences.
LEMMA JoinsExists ==
  ASSUME NEW S, NEW s \in Seq(Seq(S)), NEW n \in 1..Len(s)
  PROVE  \E f : Joins(f, s, n) /\ f \in [1..n -> Seq(S)]
<1> DEFINE Bad == {m \in Nat : m \in 1..Len(s) /\ ~\E f : Joins(f, s, m) /\ f \in [1..m -> Seq(S)]}
<1>1. ASSUME Bad # {} PROVE FALSE
  <2>1. PICK m \in Bad : \A k \in Bad : m <= k
    BY <1>1, LeastNat
  <2>2. m \in 1..Len(s) /\ Len(s) \in Nat /\ m \in Nat /\ s[m] \in Seq(S)
    BY LenProperties, ElementOfSeq
  <2>3. CASE m = 1
    <3>1. Joins([i \in 1..m |-> s[i]], s, m)
      BY <2>2, <2>3 DEF Joins
    <3>2. [i \in 1..m |-> s[i]] \in [1..m -> Seq(S)]
      BY <2>2, <2>3
    <3>3. QED  BY <3>1, <3>2
  <2>4. CASE m # 1
    <3>1. m - 1 \in Nat /\ m - 1 \in 1..Len(s) /\ ~(m <= m - 1)
      BY <2>2, <2>4
    <3> HIDE DEF Bad
    <3>a. m - 1 \notin Bad
      BY <2>1, <3>1
    <3> USE DEF Bad
    <3>2. PICK f : Joins(f, s, m - 1) /\ f \in [1..(m - 1) -> Seq(S)]
      BY <3>1, <3>a
    <3> DEFINE g == [i \in 1..m |-> IF i = m THEN f[m - 1] \o s[m] ELSE f[i]]
    <3>3. f[m - 1] \in Seq(S) /\ f[m - 1] \o s[m] \in Seq(S)
      BY <2>2, <2>4, <3>2, ConcatProperties
    <3>4. g \in [1..m -> Seq(S)]
      BY <2>2, <3>2, <3>3
    <3>5. \A i \in 1..m : g[i] = IF i = 1 THEN s[i] ELSE g[i - 1] \o s[i]
      <4>1. SUFFICES ASSUME NEW i \in 1..m PROVE g[i] = IF i = 1 THEN s[i] ELSE g[i - 1] \o s[i]
        OBVIOUS
      <4>2. CASE i = m
        <5>1. m - 1 \in 1..m /\ m - 1 # m /\ m \in 1..m
          BY <2>2, <2>4
        <5>2. g[m - 1] = f[m - 1] /\ g[m] = f[m - 1] \o s[m]
          BY <5>1
        <5>3. QED  BY <2>4, <4>2, <5>2
      <4>3. CASE i # m
        <5>1. i \in 1..(m - 1) /\ (i # 1 => i - 1 \in 1..(m - 1))
          BY <2>2, <4>3
        <5>2. f[i] = IF i = 1 THEN s[i] ELSE f[i - 1] \o s[i]
          BY <3>2, <5>1 DEF Joins
        <5>3. g[i] = f[i] /\ (i # 1 => g[i - 1] = f[i - 1])
          BY <2>2, <4>3, <5>1
        <5>4. QED  BY <5>2, <5>3
      <4>4. QED  BY <4>2, <4>3
    <3>6. Joins(g, s, m)
      BY <3>4, <3>5 DEF Joins
    <3>7. QED  BY <3>4, <3>6
  <2>5. QED  BY <2>3, <2>4
<1>2. n \in Nat
  BY LenProperties
<1>3. QED  BY <1>1, <1>2

\* And only one.
LEMMA JoinsUnique ==
  ASSUME NEW s, NEW n \in Nat, NEW f, NEW g, Joins(f, s, n), Joins(g, s, n)
  PROVE  f = g
<1> DEFINE Bad == {m \in Nat : m \in 1..n /\ f[m] # g[m]}
<1>1. ASSUME Bad # {} PROVE FALSE
  <2>1. PICK m \in Bad : \A k \in Bad : m <= k
    BY <1>1, LeastNat
  <2>2. /\ f[m] = IF m = 1 THEN s[m] ELSE f[m - 1] \o s[m]
        /\ g[m] = IF m = 1 THEN s[m] ELSE g[m - 1] \o s[m]
    BY DEF Joins
  <2>3. m # 1 /\ m \in 1..n
    BY <2>2
  <2>4. m - 1 \in Nat /\ m - 1 \in 1..n /\ m - 1 \notin Bad
    BY <2>1, <2>3
  <2>5. QED  BY <2>2, <2>3, <2>4
<1>2. \A i \in 1..n : f[i] = g[i]
  BY <1>1
<1>3. DOMAIN f = 1..n /\ DOMAIN g = 1..n
  BY DEF Joins
<1>4. QED
  BY <1>2, <1>3 DEF Joins

\* FlattenSeq is what the last step of such a pass returns.
LEMMA FlattenJoins ==
  ASSUME NEW S, NEW s \in Seq(Seq(S)), Len(s) # 0
  PROVE  \E f : FlattenSeq(s) = f[Len(s)] /\ Joins(f, s, Len(s)) /\ f \in [1..Len(s) -> Seq(S)]
<1> DEFINE F == CHOOSE f : Joins(f, s, Len(s))
<1>1. FlattenSeq(s) = F[Len(s)]
  BY DEF FlattenSeq, Joins
<1>2. Len(s) \in 1..Len(s) /\ Len(s) \in Nat
  BY LenProperties
<1>3. PICK f : Joins(f, s, Len(s)) /\ f \in [1..Len(s) -> Seq(S)]
  BY <1>2, JoinsExists
<1>4. Joins(F, s, Len(s))
  BY <1>3
<1> HIDE DEF F
<1>5. F = f
  BY <1>2, <1>3, <1>4, JoinsUnique
<1>6. QED  BY <1>1, <1>3, <1>5

\* FlattenSeq, step by step: one more sequence is added at the end.
LEMMA FlattenAppend ==
  ASSUME NEW S, NEW s \in Seq(Seq(S)), NEW t \in Seq(S)
  PROVE  FlattenSeq(s) \in Seq(S) /\ FlattenSeq(Append(s, t)) = FlattenSeq(s) \o t
<1>1. PICK n \in Nat, u \in Seq(Seq(S)) :
        /\ n = Len(s) /\ u = Append(s, t) /\ Len(u) = n + 1 /\ u[n + 1] = t
        /\ \A i \in 1..n : u[i] = s[i]
  <2>1. Len(s) \in Nat /\ Append(s, t) \in Seq(Seq(S)) /\ Len(Append(s, t)) = Len(s) + 1
    BY AppendProperties, LenProperties
  <2>2. Append(s, t)[Len(s) + 1] = t /\ \A i \in 1..Len(s) : Append(s, t)[i] = s[i]
    BY AppendProperties
  <2>3. QED  BY <2>1, <2>2
<1>2. PICK g : FlattenSeq(u) = g[n + 1] /\ Joins(g, u, n + 1) /\ g \in [1..(n + 1) -> Seq(S)]
  <2>1. Len(u) # 0
    BY <1>1
  <2>2. QED  BY <1>1, <2>1, FlattenJoins
<1>3. \A i \in 1..(n + 1) : g[i] = IF i = 1 THEN u[i] ELSE g[i - 1] \o u[i]
  BY <1>2 DEF Joins
<1>4. CASE n = 0
  <2>1. s = <<>> /\ FlattenSeq(s) = <<>>
    BY <1>1, <1>4, EmptySeq DEF FlattenSeq
  <2>2. 1 \in 1..(n + 1) /\ n + 1 = 1
    BY <1>4
  <2>3. FlattenSeq(u) = t
    BY <1>1, <1>2, <1>3, <2>2
  <2>4. t = <<>> \o t
    BY ConcatEmptySeq
  <2>5. QED  BY <1>1, <2>1, <2>3, <2>4, EmptySeq
<1>5. CASE n # 0
  <2>1. PICK f : FlattenSeq(s) = f[n] /\ Joins(f, s, n) /\ f \in [1..n -> Seq(S)]
    <3>1. Len(s) # 0
      BY <1>1, <1>5
    <3>2. QED  BY <1>1, <3>1, FlattenJoins
  <2> DEFINE h == [i \in 1..n |-> g[i]]
  <2>2. Joins(h, s, n)
    <3>1. ASSUME NEW i \in 1..n
          PROVE  h[i] = IF i = 1 THEN s[i] ELSE h[i - 1] \o s[i]
      <4>1. i \in 1..(n + 1) /\ u[i] = s[i] /\ (i # 1 => i - 1 \in 1..n)
        BY <1>1
      <4>2. h[i] = g[i] /\ (i # 1 => h[i - 1] = g[i - 1])
        BY <4>1
      <4>3. g[i] = IF i = 1 THEN s[i] ELSE g[i - 1] \o s[i]
        BY <1>3, <4>1
      <4>4. QED  BY <4>2, <4>3
    <3>2. h = [i \in 1..n |-> h[i]]
      OBVIOUS
    <3> HIDE DEF h
    <3>3. QED  BY <3>1, <3>2 DEF Joins
  <2>3. h = f
    <3> HIDE DEF h
    <3> QED BY <2>1, <2>2, JoinsUnique
  <2>4. f[n] = g[n] /\ n \in 1..n /\ n + 1 \in 1..(n + 1) /\ n + 1 # 1 /\ (n + 1) - 1 = n
    BY <1>5, <2>3
  <2>5. g[n + 1] = g[n] \o t
    BY <1>1, <1>3, <2>4
  <2>6. QED  BY <1>1, <1>2, <2>1, <2>4, <2>5
<1>6. QED  BY <1>4, <1>5

-----------------------------------------------------------------------------
(* Talks and events as values: what one more entry does to them.             *)

\* One more element.
LEMMA OneMore ==
  ASSUME NEW S, NEW s \in Seq(S), NEW e \in S
  PROVE  /\ Append(s, e) \in Seq(S) /\ Append(s, e) # <<>> /\ Last(Append(s, e)) = e
         /\ \E n \in Nat : /\ Len(s) = n /\ DOMAIN s = 1..n
                           /\ Len(Append(s, e)) = n + 1 /\ DOMAIN Append(s, e) = 1..(n + 1)
                           /\ Append(s, e)[n + 1] = e
                           /\ \A i \in 1..n : Append(s, e)[i] = s[i]
<1>1. /\ Append(s, e) \in Seq(S) /\ Len(s) \in Nat /\ DOMAIN s = 1..Len(s)
      /\ Len(Append(s, e)) = Len(s) + 1 /\ DOMAIN Append(s, e) = 1..(Len(s) + 1)
  BY AppendProperties, LenProperties
<1>2. Append(s, e)[Len(s) + 1] = e /\ \A i \in 1..Len(s) : Append(s, e)[i] = s[i]
  BY AppendProperties
<1>3. Append(s, e) # <<>>
  BY <1>1, EmptySeq
<1>4. QED  BY <1>1, <1>2, <1>3 DEF Last

\* One or two elements put behind a sequence are appended one after the other.
LEMMA Behind ==
  ASSUME NEW S, NEW s \in Seq(S), NEW a \in S, NEW b \in S
  PROVE  /\ s \o <<a>> = Append(s, a)
         /\ s \o <<a, b>> = Append(Append(s, a), b)
         /\ (s \o <<a>>) \o <<b>> = Append(Append(s, a), b)
         /\ (s \o <<a>>) \o <<>> = Append(s, a)
         /\ s \o (<<a>> \o <<b>>) = Append(Append(s, a), b)
         /\ s \o (<<a>> \o <<>>) = Append(s, a)
<1>1. \A t \in Seq(S), c \in S : t \o <<c>> = Append(t, c)
  OBVIOUS
<1>2. Append(s, a) \in Seq(S)
  BY AppendProperties
<1>3. s \o <<a, b>> = Append(Append(s, a), b)
  <2>1. Len(s) \in Nat /\ <<a, b>> \in Seq(S) /\ Len(<<a, b>>) = 2
    BY LenProperties
  <2>2. PICK n \in Nat, u \in Seq(S), v \in Seq(S) :
          /\ n = Len(s) /\ u = s \o <<a, b>> /\ v = Append(Append(s, a), b)
          /\ Len(u) = n + 2 /\ Len(v) = n + 2
          /\ \A i \in 1..(n + 2) : u[i] = v[i]
    <3>1. s \o <<a, b>> \in Seq(S) /\ Len(s \o <<a, b>>) = Len(s) + 2
      BY <2>1, ConcatProperties
    <3>2. Append(Append(s, a), b) \in Seq(S) /\ Len(Append(Append(s, a), b)) = Len(s) + 2
      BY <1>2, <2>1, AppendProperties
    <3>3. ASSUME NEW i \in 1..(Len(s) + 2)
          PROVE  (s \o <<a, b>>)[i] = Append(Append(s, a), b)[i]
      <4>1. (s \o <<a, b>>)[i] = IF i <= Len(s) THEN s[i] ELSE <<a, b>>[i - Len(s)]
        BY <2>1, ConcatProperties
      <4>2. CASE i <= Len(s)
        <5>1. i \in 1..Len(s) /\ i \in 1..Len(Append(s, a))
          BY <2>1, <4>2, AppendProperties
        <5>2. Append(s, a)[i] = s[i] /\ Append(Append(s, a), b)[i] = Append(s, a)[i]
          BY <1>2, <5>1, AppendProperties
        <5>3. QED  BY <4>1, <4>2, <5>2
      <4>3. CASE i = Len(s) + 1
        <5>1. i \in 1..Len(Append(s, a)) /\ i - Len(s) = 1 /\ ~(i <= Len(s))
          BY <2>1, <4>3, AppendProperties
        <5>2. Append(s, a)[i] = a /\ Append(Append(s, a), b)[i] = Append(s, a)[i]
          BY <1>2, <4>3, <5>1, AppendProperties
        <5>3. QED  BY <4>1, <5>1, <5>2
      <4>4. CASE i = Len(s) + 2
        <5>1. i = Len(Append(s, a)) + 1 /\ i - Len(s) = 2 /\ ~(i <= Len(s))
          BY <2>1, <4>4, AppendProperties
        <5>2. Append(Append(s, a), b)[i] = b
          BY <1>2, <5>1, AppendProperties
        <5>3. QED  BY <4>1, <5>1, <5>2
      <4>5. QED  BY <2>1, <4>2, <4>3, <4>4
    <3>4. QED  BY <2>1, <3>1, <3>2, <3>3
  <2>3. u = v
    <3>1. DOMAIN u = 1..(n + 2) /\ DOMAIN v = 1..(n + 2) /\ u \in [1..(n + 2) -> S] /\ v \in [1..(n + 2) -> S]
      BY <2>2, LenProperties
    <3>2. QED  BY <2>2, <3>1
  <2>4. QED  BY <2>2, <2>3
<1>4. (s \o <<a>>) \o <<>> = Append(s, a)
  BY <1>1, <1>2, ConcatEmptySeq
<1>5. <<a>> \in Seq(S) /\ <<b>> \in Seq(S)
  OBVIOUS
<1>7. s \o (<<a>> \o <<b>>) = Append(Append(s, a), b)
  <2>1. s \o (<<a>> \o <<b>>) = (s \o <<a>>) \o <<b>>
    BY <1>5, ConcatAssociative
  <2>2. QED  BY <1>1, <1>2, <2>1
<1>6. s \o (<<a>> \o <<>>) = Append(s, a)
  BY <1>1, <1>5, ConcatEmptySeq
<1>8. QED  BY <1>1, <1>2, <1>3, <1>4, <1>6, <1>7

CallIds == Nat \X Nat

Entries == [role : {"assistant", "tool", "attached"}, call : CallIds]

Events == [type : Types, call : CallIds, said : Nat, attached : BOOLEAN]

LEMMA CallIdParts ==
  ASSUME NEW t \in Nat, NEW k \in Nat
  PROVE  <<t, k>> \in CallIds /\ <<t, k>>[1] = t /\ <<t, k>>[2] = k
BY DEF CallIds

\* The calls of a turn that s has results of.
Answers(s, t) == {k \in Nat : \E j \in DOMAIN s : s[j].role = "tool" /\ s[j].call = <<t, k>>}

\* The turns of a talk follow one another, each begins with what the model said
\* and has each result once.
Ordered(s, t) ==
  /\ \A i \in DOMAIN s : s[i].call[1] <= t
  /\ \A i, j \in DOMAIN s : i < j => s[i].call[1] <= s[j].call[1]
  /\ \A i, j \in DOMAIN s : s[i].role = "assistant" /\ s[i].call[1] = s[j].call[1] => i <= j
  /\ \A i, j \in DOMAIN s : s[i].role = "tool" /\ s[j].role = "tool" /\ s[i].call = s[j].call => i = j

\* The turns before t have all their results, and turn t has n calls.
Closed(s, t, n) ==
  \A i \in DOMAIN s : s[i].role = "assistant" =>
    /\ s[i].call[1] < t => \A k \in 1..s[i].call[2] : k \in Answers(s, s[i].call[1])
    /\ s[i].call[1] = t => s[i].call[2] = n

\* One more entry: of the turn, and with none of the turn before it, if it is
\* what the model said; or a result that was not there; or an attached message.
Fits(s, m, t, n, c) ==
  /\ Ordered(s, t) /\ Closed(s, t, n) /\ m.call = <<t, c>>
  /\ m.role = "assistant" => c = n /\ \A i \in DOMAIN s : s[i].call[1] < t
  /\ m.role = "tool" => c \notin Answers(s, t)

\* Such an entry keeps the order, and answers its call if it is a result.
LEMMA TalkGrows ==
  ASSUME NEW s \in Seq(Entries), NEW m \in Entries, NEW t \in Nat, NEW n \in Nat, NEW c \in Nat,
         Fits(s, m, t, n, c)
  PROVE  /\ Ordered(Append(s, m), t) /\ Closed(Append(s, m), t, n)
         /\ m.role = "tool" => Answers(Append(s, m), t) = Answers(s, t) \union {c}
         /\ m.role # "tool" => Answers(Append(s, m), t) = Answers(s, t)
<1>f. /\ Ordered(s, t) /\ Closed(s, t, n) /\ m.call = <<t, c>>
      /\ m.role = "assistant" => c = n /\ \A i \in DOMAIN s : s[i].call[1] < t
      /\ m.role = "tool" => c \notin Answers(s, t)
  BY DEF Fits
<1>0. m.call[1] = t /\ m.call[2] = c
  BY <1>f
<1>1. PICK l \in Nat, u \in Seq(Entries) :
        /\ u = Append(s, m) /\ DOMAIN s = 1..l /\ DOMAIN u = 1..(l + 1) /\ u[l + 1] = m
        /\ \A i \in 1..l : u[i] = s[i]
  <2>1. PICK u \in Seq(Entries) : u = Append(s, m)
    BY OneMore
  <2>2. PICK l \in Nat : /\ DOMAIN s = 1..l /\ DOMAIN u = 1..(l + 1) /\ u[l + 1] = m
                        /\ \A i \in 1..l : u[i] = s[i]
    BY <1>f, <2>1, OneMore
  <2>3. QED  BY <1>f, <2>1, <2>2
<1>2. /\ \A i \in 1..l : s[i] \in Entries
      /\ \A i \in 1..l : s[i].call \in CallIds /\ s[i].call[1] \in Nat
      /\ m.call \in CallIds
  <2>1. \A i \in 1..l : s[i] \in Entries
    BY <1>f, <1>1, ElementOfSeq, LenProperties
  <2>2. QED  BY <1>f, <2>1 DEF Entries, CallIds
<1>3. /\ m.role = "tool" => Answers(u, t) = Answers(s, t) \union {c}
      /\ m.role # "tool" => Answers(u, t) = Answers(s, t)
  <2>1. ASSUME NEW k \in Nat
        PROVE  k \in Answers(u, t) <=> k \in Answers(s, t) \/ (m.role = "tool" /\ k = c)
    <3>1. (m.call = <<t, k>>) <=> k = c
      BY <1>f
    <3>2. k \in Answers(u, t) <=> \E j \in 1..(l + 1) : u[j].role = "tool" /\ u[j].call = <<t, k>>
      BY <1>f, <1>1 DEF Answers
    <3>3. k \in Answers(s, t) <=> \E j \in 1..l : s[j].role = "tool" /\ s[j].call = <<t, k>>
      BY <1>f, <1>1 DEF Answers
    <3>4. (\E j \in 1..(l + 1) : u[j].role = "tool" /\ u[j].call = <<t, k>>)
          <=> \/ \E j \in 1..l : s[j].role = "tool" /\ s[j].call = <<t, k>>
              \/ m.role = "tool" /\ m.call = <<t, k>>
      BY <1>f, <1>1
    <3>5. QED  BY <1>f, <3>1, <3>2, <3>3, <3>4
  <2>2. Answers(u, t) \subseteq Nat /\ Answers(s, t) \subseteq Nat
    BY DEF Answers
  <2>3. QED  BY <1>f, <2>1, <2>2
<1>4. Ordered(u, t)
  <2>1. \A i \in DOMAIN u : u[i].call[1] <= t
    <3>1. SUFFICES ASSUME NEW i \in 1..(l + 1) PROVE u[i].call[1] <= t
      BY <1>f, <1>1
    <3>2. CASE i = l + 1
      BY <1>f, <1>0, <1>1, <3>2
    <3>3. CASE i # l + 1
      BY <1>f, <1>1, <3>3 DEF Ordered
    <3>4. QED  BY <1>f, <3>2, <3>3
  <2>2. \A i, j \in DOMAIN u : i < j => u[i].call[1] <= u[j].call[1]
    <3>1. SUFFICES ASSUME NEW i \in 1..(l + 1), NEW j \in 1..(l + 1), i < j
                   PROVE  u[i].call[1] <= u[j].call[1]
      BY <1>f, <1>1
    <3>2. CASE j = l + 1
      BY <1>f, <1>0, <1>1, <2>1, <3>2
    <3>3. CASE j # l + 1
      BY <1>f, <1>1, <3>1, <3>3 DEF Ordered
    <3>4. QED  BY <1>f, <3>2, <3>3
  <2>3. \A i, j \in DOMAIN u : u[i].role = "assistant" /\ u[i].call[1] = u[j].call[1] => i <= j
    <3>1. SUFFICES ASSUME NEW i \in 1..(l + 1), NEW j \in 1..(l + 1),
                          u[i].role = "assistant", u[i].call[1] = u[j].call[1]
                   PROVE  i <= j
      BY <1>f, <1>1
    <3>2. CASE j = l + 1
      BY <1>f, <3>2
    <3>3. CASE i = l + 1 /\ j # l + 1
      <4>1. j \in 1..l /\ s[j].call[1] < t /\ s[j].call[1] = t
        BY <1>f, <1>0, <1>1, <3>1, <3>3
      <4>2. QED  BY <1>f, <1>2, <4>1
    <3>4. CASE i # l + 1 /\ j # l + 1
      BY <1>f, <1>1, <3>1, <3>4 DEF Ordered
    <3>5. QED  BY <1>f, <3>2, <3>3, <3>4
  <2>4. \A i, j \in DOMAIN u :
          u[i].role = "tool" /\ u[j].role = "tool" /\ u[i].call = u[j].call => i = j
    <3>1. ASSUME NEW i \in 1..l, s[i].role = "tool", m.role = "tool", s[i].call = m.call PROVE FALSE
      <4>1. c \in Answers(s, t)
        BY <1>f, <1>1, <3>1 DEF Answers
      <4>2. QED  BY <1>f, <3>1, <4>1
    <3>2. SUFFICES ASSUME NEW i \in 1..(l + 1), NEW j \in 1..(l + 1),
                          u[i].role = "tool", u[j].role = "tool", u[i].call = u[j].call
                   PROVE  i = j
      BY <1>f, <1>1
    <3>3. CASE i # l + 1 /\ j # l + 1
      BY <1>f, <1>1, <3>2, <3>3 DEF Ordered
    <3>4. QED  BY <1>f, <1>1, <3>1, <3>2, <3>3
  <2>5. QED  BY <1>f, <2>1, <2>2, <2>3, <2>4 DEF Ordered
<1>5. Closed(u, t, n)
  <2>1. SUFFICES ASSUME NEW i \in 1..(l + 1), u[i].role = "assistant"
                 PROVE  /\ u[i].call[1] < t => \A k \in 1..u[i].call[2] : k \in Answers(u, u[i].call[1])
                        /\ u[i].call[1] = t => u[i].call[2] = n
    BY <1>f, <1>1 DEF Closed
  <2>2. CASE i = l + 1
    BY <1>f, <1>0, <1>1, <2>1, <2>2
  <2>3. CASE i # l + 1
    <3>1. i \in 1..l /\ u[i] = s[i]
      BY <1>f, <1>1, <2>3
    <3>2. \A q : Answers(s, q) \subseteq Answers(u, q)
      BY <1>f, <1>1 DEF Answers
    <3>3. QED  BY <1>f, <1>1, <2>1, <3>1, <3>2 DEF Closed
  <2>4. QED  BY <1>f, <2>2, <2>3
<1>6. QED  BY <1>f, <1>1, <1>3, <1>4, <1>5

\* The next turn may begin when the last one has all its results.
LEMMA TurnGrows ==
  ASSUME NEW s \in Seq(Entries), NEW t \in Nat, NEW n \in Nat,
         Ordered(s, t), Closed(s, t, n), 1..n \subseteq Answers(s, t)
  PROVE  /\ Ordered(s, t + 1) /\ \A i \in DOMAIN s : s[i].call[1] < t + 1
         /\ Closed(s, t + 1, 0) /\ Answers(s, t + 1) = {}
<1>1. \A i \in DOMAIN s : s[i].call \in CallIds /\ s[i].call[1] \in Nat /\ s[i].call[1] <= t
  <2>1. \A i \in DOMAIN s : s[i] \in Entries
    BY ElementOfSeq, LenProperties
  <2>2. QED  BY <2>1 DEF Entries, CallIds, Ordered
<1>2. \A i \in DOMAIN s : s[i].call[1] < t + 1 /\ s[i].call[1] <= t + 1 /\ s[i].call[1] # t + 1
  BY <1>1
<1>3. Ordered(s, t + 1)
  BY <1>2 DEF Ordered
<1>4. Answers(s, t + 1) = {}
  <2>1. ASSUME NEW k \in Nat, NEW j \in DOMAIN s, s[j].call = <<t + 1, k>> PROVE FALSE
    BY <1>2, <2>1
  <2>2. QED  BY <2>1 DEF Answers
<1>5. Closed(s, t + 1, 0)
  <2>1. SUFFICES ASSUME NEW i \in DOMAIN s, s[i].role = "assistant", NEW k \in 1..s[i].call[2]
                 PROVE  k \in Answers(s, s[i].call[1])
    BY <1>2 DEF Closed
  <2>2. CASE s[i].call[1] = t
    BY <2>1, <2>2 DEF Closed
  <2>3. CASE s[i].call[1] < t
    BY <2>1, <2>3 DEF Closed
  <2>4. QED  BY <1>1, <2>2, <2>3
<1>6. QED  BY <1>2, <1>3, <1>4, <1>5

\* What the events of a run have said so far, and what they have stored.
Deltas(s, t) == {i \in DOMAIN s : s[i].type = "delta" /\ s[i].call[1] = t}

Stores(e) ==
  CASE e.type = "assistant_with_tools" -> <<Entry("assistant", e.call)>>
    [] e.type = "tool_completed" -> <<Entry("tool", e.call)>>
         \o (IF e.attached THEN <<Entry("attached", e.call)>> ELSE <<>>)
    [] OTHER -> <<>>

Story(s) == FlattenSeq([i \in DOMAIN s |-> Stores(s[i])])

LEMMA StoredIsStory == Stored = Story(events)
BY DEF Stored, Story, Stores

LEMMA StoresType ==
  ASSUME NEW e \in Events
  PROVE  Stores(e) \in Seq(Entries)
<1>1. /\ Entry("assistant", e.call) \in Entries /\ Entry("tool", e.call) \in Entries
      /\ Entry("attached", e.call) \in Entries
  BY DEF Entry, Entries, Events
<1>2. \A a \in Entries : <<a>> \in Seq(Entries)
  OBVIOUS
<1>3. <<>> \in Seq(Entries)
  BY EmptySeq
<1>4. <<Entry("tool", e.call)>> \o (IF e.attached THEN <<Entry("attached", e.call)>> ELSE <<>>)
        \in Seq(Entries)
  <2>1. PICK a \in Seq(Entries) : a = <<Entry("tool", e.call)>>
    BY <1>1, <1>2
  <2>2. PICK b \in Seq(Entries) : b = IF e.attached THEN <<Entry("attached", e.call)>> ELSE <<>>
    BY <1>1, <1>2, <1>3
  <2>3. QED  BY <2>1, <2>2, ConcatProperties
<1>5. QED  BY <1>1, <1>2, <1>3, <1>4 DEF Stores

\* One more event.
LEMMA StoryGrows ==
  ASSUME NEW s \in Seq(Events), NEW e \in Events
  PROVE  Story(s) \in Seq(Entries) /\ Story(Append(s, e)) = Story(s) \o Stores(e)
<1> DEFINE f == [i \in DOMAIN s |-> Stores(s[i])]
           g == [i \in DOMAIN Append(s, e) |-> Stores(Append(s, e)[i])]
<1>1. PICK n \in Nat : /\ Len(s) = n /\ DOMAIN s = 1..n
                       /\ DOMAIN Append(s, e) = 1..(n + 1) /\ Append(s, e)[n + 1] = e
                       /\ \A i \in 1..n : Append(s, e)[i] = s[i]
  BY OneMore
<1>2. f \in Seq(Seq(Entries)) /\ Len(f) = n /\ DOMAIN f = 1..n
  <2>1. \A i \in 1..n : s[i] \in Events
    BY <1>1, ElementOfSeq
  <2>2. f \in [1..n -> Seq(Entries)]
    BY <1>1, <2>1, StoresType
  <2>3. f \in Seq(Seq(Entries))
    BY <2>2, SeqDef
  <2>4. QED  BY <2>2, <2>3, LenProperties
<1>3. g = Append(f, Stores(e))
  <2>1. PICK h \in Seq(Seq(Entries)) :
          /\ h = Append(f, Stores(e)) /\ DOMAIN h = 1..(n + 1) /\ h[n + 1] = Stores(e)
          /\ \A i \in 1..n : h[i] = f[i]
    <3>1. Stores(e) \in Seq(Entries)
      BY StoresType
    <3> HIDE DEF f
    <3>2. PICK h \in Seq(Seq(Entries)) : h = Append(f, Stores(e))
      BY <1>2, <3>1, AppendProperties
    <3>3. /\ Len(h) = n + 1 /\ h[n + 1] = Stores(e) /\ \A i \in 1..n : h[i] = f[i]
      BY <1>2, <3>1, <3>2, AppendProperties
    <3>4. DOMAIN h = 1..(n + 1)
      BY <3>3, LenProperties
    <3>5. QED  BY <3>2, <3>3, <3>4
  <2>2. \A i \in 1..(n + 1) : g[i] = h[i]
    <3>1. ASSUME NEW i \in 1..n PROVE g[i] = h[i]
      <4>1. g[i] = Stores(s[i]) /\ f[i] = Stores(s[i])
        BY <1>1
      <4>2. QED  BY <2>1, <4>1
    <3>2. g[n + 1] = h[n + 1]
      BY <1>1, <2>1
    <3> HIDE DEF g
    <3>3. QED  BY <3>1, <3>2
  <2>3. DOMAIN g = 1..(n + 1) /\ g = [i \in 1..(n + 1) |-> g[i]]
    BY <1>1
  <2>4. h = [i \in 1..(n + 1) |-> h[i]]
    BY <2>1, LenProperties
  <2> HIDE DEF g
  <2>5. g = h
    BY <2>2, <2>3, <2>4
  <2>6. QED  BY <2>1, <2>5
<1>4. FlattenSeq(f) \in Seq(Entries) /\ FlattenSeq(Append(f, Stores(e))) = FlattenSeq(f) \o Stores(e)
  <2> HIDE DEF f
  <2> QED BY <1>2, StoresType, FlattenAppend
<1>5. QED  BY <1>3, <1>4 DEF Story

LEMMA EventsGrow ==
  ASSUME NEW s \in Seq(Events), NEW e \in Events, NEW t \in Nat
  PROVE  /\ IsFiniteSet(Deltas(s, t)) /\ Cardinality(Deltas(s, t)) \in Nat
         /\ Cardinality(Deltas(Append(s, e), t)) =
              Cardinality(Deltas(s, t)) + (IF e.type = "delta" /\ e.call[1] = t THEN 1 ELSE 0)
<1>1. PICK n \in Nat, u \in Seq(Events) :
        /\ u = Append(s, e) /\ DOMAIN s = 1..n /\ DOMAIN u = 1..(n + 1) /\ u[n + 1] = e
        /\ \A i \in 1..n : u[i] = s[i]
  <2>1. PICK u \in Seq(Events) : u = Append(s, e)
    BY OneMore
  <2>2. PICK n \in Nat : /\ DOMAIN s = 1..n /\ DOMAIN u = 1..(n + 1) /\ u[n + 1] = e
                        /\ \A i \in 1..n : u[i] = s[i]
    BY <2>1, OneMore
  <2>3. QED  BY <2>1, <2>2
<1>3. Deltas(s, t) \subseteq 1..n /\ IsFiniteSet(Deltas(s, t)) /\ Cardinality(Deltas(s, t)) \in Nat
  <2>1. Deltas(s, t) \subseteq 1..n
    BY <1>1 DEF Deltas
  <2>2. IsFiniteSet(1..n)
    BY FS_Interval
  <2>3. IsFiniteSet(Deltas(s, t))
    BY <2>1, <2>2, FS_Subset
  <2>4. QED  BY <2>1, <2>3, FS_CardinalityType
<1>4. Deltas(u, t) = Deltas(s, t) \union (IF e.type = "delta" /\ e.call[1] = t THEN {n + 1} ELSE {})
  BY <1>1 DEF Deltas
<1>5. n + 1 \notin Deltas(s, t)
  BY <1>3
<1>6. Cardinality(Deltas(s, t) \union {n + 1}) = Cardinality(Deltas(s, t)) + 1
  BY <1>3, <1>5, FS_AddElement
<1>7. Cardinality(Deltas(u, t)) =
        Cardinality(Deltas(s, t)) + (IF e.type = "delta" /\ e.call[1] = t THEN 1 ELSE 0)
  <2>1. CASE e.type = "delta" /\ e.call[1] = t
    BY <1>4, <1>6, <2>1
  <2>2. CASE ~(e.type = "delta" /\ e.call[1] = t)
    <3>1. Deltas(u, t) = Deltas(s, t)
      BY <1>4, <2>2
    <3>2. QED  BY <1>3, <2>2, <3>1
  <2>3. QED  BY <2>1, <2>2
<1>8. QED  BY <1>1, <1>3, <1>7

-----------------------------------------------------------------------------
(* Types, and the tasks of a turn.                                           *)

Tasks == [k : Nat, state : {"ready", "running"} \union Outcomes]

Typed ==
  /\ pc \in Pcs /\ turn \in 0..MaxTurns /\ attempt \in 0..Attempts /\ said \in 0..MaxSaid
  /\ calls \in Seq(Kinds) /\ calls \in ToolTurns \union {<<>>}
  /\ next \in 0..(Len(calls) + 1)
  /\ tasks \in Seq(Tasks) /\ talk \in Seq(Entries) /\ events \in Seq(Events)
  /\ cancelled \in BOOLEAN /\ killed \in BOOLEAN

\* The tasks are the calls of the turn that are to be run, in their order: all
\* those before next while the turn is prepared, all of them afterwards.
TaskInv ==
  /\ \A i \in DOMAIN tasks : tasks[i].k \in DOMAIN calls /\ calls[tasks[i].k] = "runs"
  /\ \A i, j \in DOMAIN tasks : i < j => tasks[i].k < tasks[j].k
  /\ pc \in {"start", "stream"} => calls = <<>> /\ tasks = <<>>
  /\ pc = "prepare" =>
       /\ Len(tasks) < next
       /\ \A i \in DOMAIN tasks : tasks[i].k < next
       /\ \A k \in 1..(next - 1) : calls[k] = "runs" => \E i \in DOMAIN tasks : tasks[i].k = k
  /\ pc \in {"gather", "report"} =>
       /\ Len(tasks) <= Len(calls)
       /\ \A k \in DOMAIN calls : calls[k] = "runs" => \E i \in DOMAIN tasks : tasks[i].k = k
  /\ pc = "report" => next \in 1..(Len(tasks) + 1)

\* The kinds of steps.  Some end the run, by a last event or by raising; some
\* pass to the next part of a turn and neither say nor store anything.
Endings == {"completed", "failed", "cancelled"}

EndStep ==
  /\ pc \notin {"start", "over", "raised"}
  /\ \E type \in Endings : EndWith(type) /\ (type = "completed" => pc = "stream")

RaiseStep ==
  /\ pc \notin {"start", "over", "raised"}
  /\ pc' = "raised" /\ UNCHANGED <<Frame, events, cancelled, killed>>

Passes ==
  \/ Retry \/ NothingToRun \/ RunTools \/ Gathered \/ TurnOver
  \/ \E i \in 1..Len(tasks) : ToolEnds(i)

Answering == FailsAtOnce \/ Refused \/ Starts \/ \E i \in DOMAIN tasks : Report(i)

StepKinds ==
  \/ UNCHANGED vars
  \/ EndStep \/ RaiseStep
  \/ Start \/ BeginTurn \/ Chunk \/ AsksForTools
  \/ Answering \/ Passes
  \/ SetCancel \/ KillGather

LEMMA CancelledErrorKind ==
  ASSUME CancelledErrorRaised, pc \notin {"start", "over", "raised"}
  PROVE  EndStep \/ RaiseStep
<1>1. CASE cancelled
  BY <1>1 DEF CancelledErrorRaised, EndStep, Endings
<1>2. CASE ~cancelled
  BY <1>2 DEF CancelledErrorRaised, RaiseStep
<1>3. QED  BY <1>1, <1>2

LEMMA NextKinds == [Next]_vars => StepKinds
<1>1. ASSUME Proceed PROVE StepKinds
  <2>1. CASE TurnsExceeded \/ CancelledBetweenTurns \/ CancelledInStream \/ StreamFails \/ Completes
             \/ CancelledBeforeTools
    <3>1. EndStep
      BY <2>1 DEF TurnsExceeded, CancelledBetweenTurns, CancelledInStream, StreamFails, Completes,
                  CancelledBeforeTools, AllPrepared, EndStep, Endings
    <3>2. QED  BY <3>1 DEF StepKinds
  <2>2. CASE GatherRaises
    <3>1. EndStep \/ RaiseStep
      BY <2>2, CancelledErrorKind DEF GatherRaises, AllEnded
    <3>2. QED  BY <3>1 DEF StepKinds
  <2>3. CASE \E i \in 1..Len(tasks) : ToolEnds(i) \/ Report(i) \/ ReportRaises(i)
    <3>1. PICK i \in 1..Len(tasks) : ToolEnds(i) \/ Report(i) \/ ReportRaises(i)
      BY <2>3
    <3>2. CASE ToolEnds(i)
      BY <3>1, <3>2 DEF StepKinds, Passes
    <3>3. CASE Report(i)
      <4>1. i \in DOMAIN tasks
        BY <3>3 DEF Report, Reporting
      <4>2. QED  BY <3>3, <4>1 DEF StepKinds, Answering
    <3>4. CASE ReportRaises(i)
      <4>1. EndStep
        BY <3>4 DEF ReportRaises, Reporting, EndStep, Endings
      <4>2. QED  BY <4>1 DEF StepKinds
    <3>5. QED  BY <3>1, <3>2, <3>3, <3>4
  <2>4. QED  BY <1>1, <2>1, <2>2, <2>3 DEF Proceed, StepKinds, Passes, Answering
<1>2. ASSUME Kill PROVE StepKinds
  <2>1. EndStep \/ RaiseStep
    BY <1>2, CancelledErrorKind DEF Kill, Preparing
  <2>2. QED  BY <2>1 DEF StepKinds
<1>3. QED  BY <1>1, <1>2 DEF Next, StepKinds

\* The events of the run are of their type.
LEMMA EventType ==
  ASSUME NEW type \in Types, NEW t \in Nat, NEW k \in Nat
  PROVE  \E e \in Events : /\ e = Event(type, <<t, k>>)
                           /\ e.type = type /\ e.call = <<t, k>> /\ ~e.attached
<1> DEFINE c == <<t, k>>
           e == Event(type, c)
<1>1. c \in CallIds
  BY DEF CallIds
<1> HIDE DEF c
<1>2. e \in Events /\ e.type = type /\ e.call = c /\ e.attached = FALSE
  BY <1>1 DEF Event, Events
<1> HIDE DEF e
<1>3. \E x \in Events : x = e /\ x.type = type /\ x.call = c /\ ~x.attached
  BY <1>2
<1>4. QED  BY <1>3 DEF c, e

\* e is the event of a type with a count of chunks.
SaidEvent(e, type, t, k, n) ==
  /\ e \in Events /\ e = [Event(type, <<t, k>>) EXCEPT !.said = n]
  /\ e.type = type /\ e.call = <<t, k>> /\ e.said = n /\ ~e.attached

LEMMA SaidEventType ==
  ASSUME NEW type \in Types, NEW t \in Nat, NEW k \in Nat, NEW n \in Nat
  PROVE  \E e : SaidEvent(e, type, t, k, n)
<1> DEFINE c == <<t, k>>
           e == [Event(type, c) EXCEPT !.said = n]
<1>1. c \in CallIds
  BY DEF CallIds
<1> HIDE DEF c
<1>2. e \in Events /\ e.type = type /\ e.call = c /\ e.said = n /\ e.attached = FALSE
  BY <1>1 DEF Event, Events
<1> HIDE DEF e
<1>3. SaidEvent(e, type, t, k, n)
  BY <1>2 DEF SaidEvent, c, e
<1>4. QED  BY <1>3

LEMMA EntryTypes ==
  ASSUME NEW role \in {"assistant", "tool", "attached"}, NEW t \in Nat, NEW k \in Nat
  PROVE  /\ Entry(role, <<t, k>>) \in Entries
         /\ Entry(role, <<t, k>>).role = role /\ Entry(role, <<t, k>>).call = <<t, k>>
BY DEF Entry, Entries, CallIds

\* An ending adds one event and changes nothing else.
LEMMA EndShape ==
  ASSUME Typed, EndStep
  PROVE  \E type \in Endings, e \in Events :
           /\ type = "completed" => pc = "stream"
           /\ e.type = type /\ e.call = <<0, 0>> /\ e.said = said
           /\ events' = Append(events, e) /\ pc' = "over"
           /\ UNCHANGED <<turn, attempt, said, calls, next, tasks, talk, cancelled, killed>>
<1>1. PICK type \in Endings : EndWith(type) /\ (type = "completed" => pc = "stream")
  BY DEF EndStep
<1>2. type \in Types /\ said \in Nat
  BY BoundsAssumption DEF Endings, Types, Typed
<1>3. PICK e : SaidEvent(e, type, 0, 0, said)
  BY <1>2, SaidEventType
<1>4. /\ e \in Events /\ e = [Event(type, <<0, 0>>) EXCEPT !.said = said]
      /\ e.type = type /\ e.call = <<0, 0>> /\ e.said = said
  BY <1>3 DEF SaidEvent
<1>5. QED  BY <1>1, <1>4 DEF EndWith, Emit, NoCall, Frame

\* What answers calls stores their results: one, or none when a tool starts.
LEMMA AnswerShape ==
  ASSUME Typed, TaskInv, Answering
  PROVE  \/ /\ pc = "prepare" /\ pc' = "prepare" /\ next' = next + 1
            /\ next \in DOMAIN calls /\ calls[next] # "runs" /\ UNCHANGED tasks
            /\ UNCHANGED <<turn, attempt, said, calls, cancelled, killed>>
            /\ \E m \in Entries, e \in Events, d \in Events :
                 /\ m = Entry("tool", <<turn, next>>) /\ talk' = Append(talk, m)
                 /\ e.type = "tool_completed" /\ e.call = <<turn, next>> /\ ~e.attached
                 /\ d.type = "tool_started" /\ d.call = <<turn, next>> /\ ~d.attached
                 /\ \/ events' = Append(events, e)
                    \/ events' = Append(Append(events, d), e)
         \/ /\ pc = "prepare" /\ pc' = "prepare" /\ next' = next + 1
            /\ next \in DOMAIN calls /\ calls[next] = "runs"
            /\ tasks' = Append(tasks, [k |-> next, state |-> "ready"]) /\ UNCHANGED talk
            /\ UNCHANGED <<turn, attempt, said, calls, cancelled, killed>>
            /\ \E d \in Events : /\ d.type = "tool_started" /\ d.call = <<turn, next>> /\ ~d.attached
                                 /\ events' = Append(events, d)
         \/ /\ pc = "report" /\ pc' = "report" /\ next' = next + 1
            /\ next \in DOMAIN tasks /\ UNCHANGED tasks
            /\ UNCHANGED <<turn, attempt, said, calls, cancelled, killed>>
            /\ \E m \in Entries, a \in Entries, e \in Events :
                 /\ m = Entry("tool", <<turn, tasks[next].k>>)
                 /\ a = Entry("attached", <<turn, tasks[next].k>>)
                 /\ e.type = "tool_completed" /\ e.call = <<turn, tasks[next].k>>
                 /\ events' = Append(events, e)
                 /\ \/ ~e.attached /\ talk' = Append(talk, m)
                    \/ e.attached /\ talk' = Append(Append(talk, m), a)
<1>1. /\ turn \in Nat /\ next \in Nat /\ Len(calls) \in Nat /\ DOMAIN calls = 1..Len(calls)
      /\ "tool_started" \in Types /\ "tool_completed" \in Types
  BY BoundsAssumption, LenProperties DEF Typed, Types
<1>2. CASE FailsAtOnce \/ Refused
  <2>1. /\ pc = "prepare" /\ pc' = "prepare" /\ next' = next + 1 /\ next <= Len(calls)
        /\ calls[next] # "runs" /\ UNCHANGED tasks
        /\ UNCHANGED <<turn, attempt, said, calls, cancelled, killed>>
        /\ talk' = Append(talk, Entry("tool", <<turn, next>>))
        /\ \/ events' = Append(events, Event("tool_completed", <<turn, next>>))
           \/ events' = events \o <<Event("tool_started", <<turn, next>>),
                                    Event("tool_completed", <<turn, next>>)>>
    BY <1>2 DEF FailsAtOnce, Refused, Preparing, Prepared, Call, Emit
  <2>2. next \in DOMAIN calls
    BY <1>1, <2>1 DEF TaskInv
  <2>3. PICK e \in Events : /\ e = Event("tool_completed", <<turn, next>>)
                            /\ e.type = "tool_completed" /\ e.call = <<turn, next>> /\ ~e.attached
    BY <1>1, EventType
  <2>4. PICK d \in Events : /\ d = Event("tool_started", <<turn, next>>)
                            /\ d.type = "tool_started" /\ d.call = <<turn, next>> /\ ~d.attached
    BY <1>1, EventType
  <2>5. PICK m \in Entries : m = Entry("tool", <<turn, next>>)
    BY <1>1, EntryTypes
  <2>6. events \o <<d, e>> = Append(Append(events, d), e)
    BY Behind DEF Typed
  <2>7. talk' = Append(talk, m) /\ (events' = Append(events, e) \/ events' = Append(Append(events, d), e))
    BY <2>1, <2>3, <2>4, <2>5, <2>6
  <2>8. QED  BY <2>1, <2>2, <2>3, <2>4, <2>5, <2>7
<1>3. CASE Starts
  <2>1. /\ pc = "prepare" /\ pc' = "prepare" /\ next' = next + 1 /\ next <= Len(calls)
        /\ calls[next] = "runs" /\ UNCHANGED talk
        /\ tasks' = Append(tasks, [k |-> next, state |-> "ready"])
        /\ UNCHANGED <<turn, attempt, said, calls, cancelled, killed>>
        /\ events' = Append(events, Event("tool_started", <<turn, next>>))
    BY <1>3 DEF Starts, Preparing, Prepared, Call, Emit
  <2>2. next \in DOMAIN calls
    BY <1>1, <2>1 DEF TaskInv
  <2>3. PICK d \in Events : /\ d = Event("tool_started", <<turn, next>>)
                            /\ d.type = "tool_started" /\ d.call = <<turn, next>> /\ ~d.attached
    BY <1>1, EventType
  <2>4. QED  BY <2>1, <2>2, <2>3
<1>4. CASE \E i \in DOMAIN tasks : Report(i)
  <2>1. PICK i \in DOMAIN tasks : Report(i)
    BY <1>4
  <2>2. PICK k \in Nat : k = tasks[i].k
    <3>1. tasks[i] \in Tasks
      BY <2>1, ElementOfSeq, LenProperties DEF Typed
    <3>2. QED  BY <3>1 DEF Tasks
  <2>3. /\ pc = "report" /\ pc' = "report" /\ next = i /\ next' = next + 1 /\ UNCHANGED tasks
        /\ UNCHANGED <<turn, attempt, said, calls, cancelled, killed>>
        /\ events' = Append(events, Completed(i))
        /\ talk' = (talk \o <<Entry("tool", <<turn, k>>)>>)
                     \o (IF tasks[i].state = "attached" THEN <<Entry("attached", <<turn, k>>)>> ELSE <<>>)
    BY <2>1, <2>2 DEF Report, Reporting, Emit
  <2>4. PICK e \in Events : /\ e = Completed(i) /\ e.type = "tool_completed" /\ e.call = <<turn, k>>
                            /\ e.attached <=> tasks[i].state = "attached"
    <3>1. PICK v \in Events : /\ v = Event("tool_completed", <<turn, k>>)
                              /\ v.type = "tool_completed" /\ v.call = <<turn, k>>
      BY <1>1, EventType
    <3>2. Completed(i) = [v EXCEPT !.attached = (tasks[i].state = "attached")]
      BY <2>2, <3>1 DEF Completed
    <3>3. PICK e : e = [v EXCEPT !.attached = (tasks[i].state = "attached")]
      OBVIOUS
    <3>4. e \in Events /\ e.type = v.type /\ e.call = v.call
          /\ e.attached = (tasks[i].state = "attached")
      BY <3>3 DEF Events
    <3>5. QED  BY <3>1, <3>2, <3>3, <3>4
  <2>7. PICK m \in Entries : m = Entry("tool", <<turn, k>>)
    BY <1>1, EntryTypes
  <2>8. PICK a \in Entries : a = Entry("attached", <<turn, k>>)
    BY <1>1, EntryTypes
  <2>9. /\ (talk \o <<m>>) \o <<a>> = Append(Append(talk, m), a)
        /\ (talk \o <<m>>) \o <<>> = Append(talk, m)
    BY Behind DEF Typed
  <2>10. (~e.attached /\ talk' = Append(talk, m)) \/ (e.attached /\ talk' = Append(Append(talk, m), a))
    <3>1. CASE tasks[i].state = "attached"
      BY <2>3, <2>4, <2>7, <2>8, <2>9, <3>1
    <3>2. CASE tasks[i].state # "attached"
      BY <2>3, <2>4, <2>7, <2>8, <2>9, <3>2
    <3>3. QED  BY <3>1, <3>2
  <2>11. QED  BY <2>1, <2>2, <2>3, <2>4, <2>7, <2>8, <2>10
<1>5. QED  BY <1>2, <1>3, <1>4 DEF Answering

LEMMA InitTyped == Init => Typed /\ TaskInv
<1>1. SUFFICES ASSUME Init PROVE Typed /\ TaskInv
  OBVIOUS
<1>2. /\ pc = "start" /\ turn = 0 /\ attempt = 0 /\ said = 0 /\ next = 0
      /\ calls = <<>> /\ tasks = <<>> /\ talk = <<>> /\ events = <<>>
      /\ cancelled \in BOOLEAN /\ killed \in BOOLEAN
  <2>1. pc = "start" /\ turn = 0 /\ attempt = 0 /\ said = 0 /\ next = 0
    BY <1>1 DEF Init
  <2>2. calls = <<>> /\ tasks = <<>>
    BY <1>1 DEF Init
  <2>3. talk = <<>> /\ events = <<>>
    BY <1>1 DEF Init
  <2>4. cancelled \in BOOLEAN /\ killed \in BOOLEAN
    BY <1>1 DEF Init
  <2>5. QED  BY <2>1, <2>2, <2>3, <2>4
<1>3. \A S : <<>> \in Seq(S) /\ Len(<<>>) = 0
  BY EmptySeq
<1>4. DOMAIN <<>> = {}
  OBVIOUS
<1>5. MaxTurns \in Nat /\ Attempts \in Nat /\ MaxSaid \in Nat
  BY BoundsAssumption
<1>6. Typed
  BY <1>2, <1>3, <1>5 DEF Typed, Pcs
<1>7. TaskInv
  BY <1>2, <1>4 DEF TaskInv
<1>8. QED  BY <1>6, <1>7

\* A task starts: the last of them, whose call is behind those of the others.
LEMMA TaskGrows ==
  ASSUME Typed, TaskInv, pc = "prepare", next \in DOMAIN calls, calls[next] = "runs",
         tasks' = Append(tasks, [k |-> next, state |-> "ready"]),
         next' = next + 1, pc' = pc, calls' = calls
  PROVE  tasks' \in Seq(Tasks) /\ TaskInv'
<1>1. next \in Nat
  BY DEF Typed
<1>2. PICK r \in Tasks : r = [k |-> next, state |-> "ready"] /\ r.k = next
  BY <1>1 DEF Tasks
<1>3. PICK n \in Nat : /\ Len(tasks) = n /\ DOMAIN tasks = 1..n
                       /\ Len(tasks') = n + 1 /\ DOMAIN tasks' = 1..(n + 1)
                       /\ tasks'[n + 1] = r /\ \A i \in 1..n : tasks'[i] = tasks[i]
  <2>1. tasks \in Seq(Tasks) /\ tasks' = Append(tasks, r)
    BY <1>2 DEF Typed
  <2>2. PICK n \in Nat : /\ Len(tasks) = n /\ DOMAIN tasks = 1..n
                         /\ Len(Append(tasks, r)) = n + 1 /\ DOMAIN Append(tasks, r) = 1..(n + 1)
                         /\ Append(tasks, r)[n + 1] = r
                         /\ \A i \in 1..n : Append(tasks, r)[i] = tasks[i]
    BY <2>1, OneMore
  <2>3. QED  BY <2>1, <2>2
<1>4. tasks' \in Seq(Tasks)
  <2>1. tasks \in Seq(Tasks) /\ tasks' = Append(tasks, r)
    BY <1>2 DEF Typed
  <2>2. QED  BY <2>1, AppendProperties
<1>5. \A i \in 1..n : tasks[i].k \in Nat
  <2>1. \A i \in 1..n : tasks[i] \in Tasks
    BY <1>3, ElementOfSeq DEF Typed
  <2>2. QED  BY <2>1 DEF Tasks
<1>6. \A i \in DOMAIN tasks' : tasks'[i].k \in DOMAIN calls' /\ calls'[tasks'[i].k] = "runs"
  BY <1>2, <1>3 DEF TaskInv
<1>7. \A i, j \in DOMAIN tasks' : i < j => tasks'[i].k < tasks'[j].k
  <2>1. SUFFICES ASSUME NEW i \in 1..(n + 1), NEW j \in 1..(n + 1), i < j
                 PROVE  tasks'[i].k < tasks'[j].k
    BY <1>3
  <2>2. CASE j = n + 1
    BY <1>2, <1>3, <2>1, <2>2 DEF TaskInv
  <2>3. CASE j # n + 1
    BY <1>3, <2>1, <2>3 DEF TaskInv
  <2>4. QED  BY <2>2, <2>3
<1>8. Len(tasks') < next' /\ \A i \in DOMAIN tasks' : tasks'[i].k < next'
  <2>1. n < next /\ \A i \in 1..n : tasks[i].k < next
    BY <1>3 DEF TaskInv
  <2>2. QED  BY <1>1, <1>2, <1>3, <1>5, <2>1
<1>9. \A k \in 1..(next' - 1) : calls'[k] = "runs" => \E i \in DOMAIN tasks' : tasks'[i].k = k
  <2>1. SUFFICES ASSUME NEW k \in 1..next, calls[k] = "runs"
                 PROVE  \E i \in 1..(n + 1) : tasks'[i].k = k
    <3>1. next' - 1 = next
      BY <1>1
    <3>2. QED  BY <1>3, <3>1
  <2>2. CASE k = next
    BY <1>2, <1>3, <2>2
  <2>3. CASE k # next
    <3>1. k \in 1..(next - 1)
      BY <1>1, <2>1, <2>3
    <3>2. PICK i \in 1..n : tasks[i].k = k
      BY <1>3, <2>1, <3>1 DEF TaskInv
    <3>3. QED  BY <1>3, <3>2
  <2>4. QED  BY <2>2, <2>3
<1>10. QED  BY <1>4, <1>6, <1>7, <1>8, <1>9 DEF TaskInv

LEMMA NextTyped == Typed /\ TaskInv /\ [Next]_vars => Typed' /\ TaskInv'
<1>1. SUFFICES ASSUME Typed, TaskInv, StepKinds PROVE Typed' /\ TaskInv'
  BY NextKinds
<1>2. /\ MaxTurns \in Nat /\ Attempts \in Nat /\ Attempts >= 1 /\ MaxSaid \in Nat
      /\ turn \in Nat /\ said \in Nat /\ next \in Nat /\ attempt \in Nat
      /\ Len(calls) \in Nat /\ DOMAIN calls = 1..Len(calls)
      /\ Len(tasks) \in Nat /\ DOMAIN tasks = 1..Len(tasks)
  <2>1. MaxTurns \in Nat /\ Attempts \in Nat /\ Attempts >= 1 /\ MaxSaid \in Nat
    BY BoundsAssumption
  <2>2. /\ Len(calls) \in Nat /\ DOMAIN calls = 1..Len(calls)
        /\ Len(tasks) \in Nat /\ DOMAIN tasks = 1..Len(tasks)
    BY <1>1, LenProperties DEF Typed
  <2>3. turn \in Nat /\ said \in Nat /\ next \in Nat /\ attempt \in Nat
    BY <1>1, <2>1, <2>2 DEF Typed
  <2>4. QED  BY <2>1, <2>2, <2>3
<1>3. CASE UNCHANGED vars
  BY <1>1, <1>3 DEF vars, Typed, TaskInv
<1>4. CASE EndStep
  <2>1. PICK e \in Events :
          /\ events' = Append(events, e) /\ pc' = "over"
          /\ UNCHANGED <<turn, attempt, said, calls, next, tasks, talk, cancelled, killed>>
    BY <1>1, <1>4, EndShape
  <2>2. events' \in Seq(Events)
    BY <1>1, <2>1, AppendProperties DEF Typed
  <2>3. QED  BY <1>1, <2>1, <2>2 DEF Typed, TaskInv, Pcs
<1>5. CASE RaiseStep
  BY <1>1, <1>5 DEF RaiseStep, Frame, Typed, TaskInv, Pcs
<1>6. CASE Start
  <2>0. "run_started" \in Types
    BY DEF Types
  <2>1. PICK e \in Events : e = Event("run_started", <<0, 0>>)
    BY <2>0, EventType
  <2>2. events' \in Seq(Events)
    BY <1>1, <1>6, <2>1, AppendProperties DEF Typed, Start, Emit, NoCall
  <2>3. QED  BY <1>1, <1>6, <2>2 DEF Start, Frame, Typed, TaskInv, Pcs
<1>7. CASE BeginTurn
  <2>1. \A S : <<>> \in Seq(S) /\ Len(<<>>) = 0
    BY EmptySeq
  <2>2. DOMAIN <<>> = {}
    OBVIOUS
  <2>3. turn' \in 0..MaxTurns
    BY <1>1, <1>2, <1>7 DEF BeginTurn, Typed
  <2>4. Typed'
    BY <1>1, <1>2, <1>7, <2>1, <2>3 DEF BeginTurn, Typed, Pcs
  <2>5. TaskInv'
    BY <1>7, <2>2 DEF BeginTurn, TaskInv
  <2>6. QED  BY <2>4, <2>5
<1>8. CASE Chunk
  <2>0. "delta" \in Types
    BY DEF Types
  <2>1. PICK e \in Events : e = Event("delta", <<turn, 0>>)
    BY <1>2, <2>0, EventType
  <2>2. events' \in Seq(Events)
    BY <1>1, <1>8, <2>1, AppendProperties DEF Typed, Chunk, Emit
  <2>3. said' \in 0..MaxSaid
    BY <1>1, <1>2, <1>8 DEF Typed, Chunk
  <2>4. QED  BY <1>1, <1>8, <2>2, <2>3 DEF Chunk, Typed, TaskInv
<1>9. CASE AsksForTools
  <2>1. PICK t \in ToolTurns :
          /\ calls' = t
          /\ events' = Append(events, [Event("assistant_with_tools", <<turn, Len(t)>>) EXCEPT !.said = said])
          /\ talk' = Append(talk, Entry("assistant", <<turn, Len(t)>>))
    BY <1>9 DEF AsksForTools, Emit
  <2>2. t \in Seq(Kinds) /\ Len(t) \in Nat
    BY ToolTurnsAssumption, LenProperties
  <2>3. PICK e \in Events : e = [Event("assistant_with_tools", <<turn, Len(t)>>) EXCEPT !.said = said]
    <3>1. "assistant_with_tools" \in Types
      BY DEF Types
    <3>2. PICK e : SaidEvent(e, "assistant_with_tools", turn, Len(t), said)
      BY <1>2, <2>2, <3>1, SaidEventType
    <3>3. QED  BY <3>2 DEF SaidEvent
  <2>4. PICK m \in Entries : m = Entry("assistant", <<turn, Len(t)>>)
    BY <1>2, <2>2, EntryTypes
  <2>5. events' \in Seq(Events) /\ talk' \in Seq(Entries)
    BY <1>1, <2>1, <2>3, <2>4, AppendProperties DEF Typed
  <2>6. next' \in 0..(Len(calls') + 1)
    BY <1>9, <2>1, <2>2 DEF AsksForTools
  <2>7. Typed'
    BY <1>1, <1>9, <2>1, <2>2, <2>5, <2>6 DEF AsksForTools, Typed, Pcs
  <2>8. tasks' = <<>> /\ DOMAIN tasks' = {} /\ Len(tasks') = 0
    <3>1. tasks' = tasks /\ tasks = <<>>
      BY <1>1, <1>9 DEF AsksForTools, TaskInv
    <3>2. QED  BY <3>1, EmptySeq
  <2>9. TaskInv'
    BY <1>9, <2>8 DEF AsksForTools, TaskInv
  <2>10. QED  BY <2>7, <2>9
<1>10. CASE Answering
  <2>1. events' \in Seq(Events) /\ talk' \in Seq(Entries)
    <3>1. \A s \in Seq(Events), d \in Events : Append(s, d) \in Seq(Events)
      BY AppendProperties
    <3>2. \A s \in Seq(Entries), m \in Entries : Append(s, m) \in Seq(Entries)
      BY AppendProperties
    <3>3. events \in Seq(Events) /\ talk \in Seq(Entries)
      BY <1>1 DEF Typed
    <3>4. \/ \E e \in Events, d \in Events :
               events' = Append(events, e) \/ events' = Append(Append(events, d), e)
      BY <1>1, <1>10, AnswerShape
    <3>5. \/ talk' = talk
          \/ \E m \in Entries, a \in Entries :
               talk' = Append(talk, m) \/ talk' = Append(Append(talk, m), a)
      BY <1>1, <1>10, AnswerShape
    <3>6. QED  BY <3>1, <3>2, <3>3, <3>4, <3>5
  <2>2. CASE pc = "prepare" /\ UNCHANGED tasks
    <3>1. /\ pc' = "prepare" /\ next' = next + 1 /\ next \in DOMAIN calls /\ calls[next] # "runs"
          /\ UNCHANGED <<turn, attempt, said, calls, cancelled, killed, tasks>>
      <4>1. Append(tasks, [k |-> next, state |-> "ready"]) # tasks
        <5>1. PICK r \in Tasks : r = [k |-> next, state |-> "ready"]
          BY <1>2 DEF Tasks
        <5>2. PICK s \in Seq(Tasks) : s = tasks
          BY <1>1 DEF Typed
        <5>3. Len(Append(s, r)) = Len(s) + 1 /\ Len(s) \in Nat
          BY AppendProperties, LenProperties
        <5>4. Append(s, r) # s
          BY <5>3
        <5>5. QED  BY <5>1, <5>2, <5>4
      <4>2. QED  BY <1>1, <1>10, <2>2, <4>1, AnswerShape
    <3>2. next' \in 0..(Len(calls') + 1) /\ Len(tasks) < next + 1
      BY <1>1, <1>2, <2>2, <3>1 DEF TaskInv
    <3>3. \A i \in DOMAIN tasks : tasks[i].k < next + 1
      <4>1. \A i \in DOMAIN tasks : tasks[i].k < next /\ tasks[i].k \in 1..Len(calls)
        BY <1>1, <1>2, <2>2 DEF TaskInv
      <4>2. QED  BY <1>2, <4>1
    <3>4. \A k \in 1..((next + 1) - 1) : calls[k] = "runs" => \E i \in DOMAIN tasks : tasks[i].k = k
      <4>1. \A k \in 1..((next + 1) - 1) : k = next \/ k \in 1..(next - 1)
        BY <1>2
      <4>2. QED  BY <1>1, <2>2, <3>1, <4>1 DEF TaskInv
    <3>5. Typed'
      BY <1>1, <2>1, <3>1, <3>2 DEF Typed, Pcs
    <3>6. TaskInv'
      BY <1>1, <3>1, <3>2, <3>3, <3>4 DEF TaskInv
    <3>7. QED  BY <3>5, <3>6
  <2>3. CASE pc = "prepare" /\ ~UNCHANGED tasks
    <3>1. /\ pc' = "prepare" /\ next' = next + 1 /\ next \in DOMAIN calls /\ calls[next] = "runs"
          /\ tasks' = Append(tasks, [k |-> next, state |-> "ready"])
          /\ UNCHANGED <<turn, attempt, said, calls, cancelled, killed>>
      BY <1>1, <1>10, <2>3, AnswerShape
    <3>2. tasks' \in Seq(Tasks) /\ TaskInv'
      BY <1>1, <2>3, <3>1, TaskGrows
    <3>3. next' \in 0..(Len(calls') + 1)
      BY <1>2, <3>1
    <3>4. QED  BY <1>1, <2>1, <3>1, <3>2, <3>3 DEF Typed, Pcs
  <2>4. CASE pc # "prepare"
    <3>1. /\ pc = "report" /\ pc' = "report" /\ next' = next + 1 /\ next \in DOMAIN tasks
          /\ UNCHANGED <<turn, attempt, said, calls, cancelled, killed, tasks>>
      BY <1>1, <1>10, <2>4, AnswerShape
    <3>2. next' \in 0..(Len(calls') + 1) /\ next' \in 1..(Len(tasks) + 1)
      BY <1>1, <1>2, <3>1 DEF TaskInv
    <3>3. Typed'
      BY <1>1, <2>1, <3>1, <3>2 DEF Typed, Pcs
    <3>4. TaskInv'
      BY <1>1, <3>1, <3>2 DEF TaskInv
    <3>5. QED  BY <3>3, <3>4
  <2>5. QED  BY <2>2, <2>3, <2>4
<1>11. CASE Passes
  <2>1. CASE Retry
    <3>1. attempt' \in 0..Attempts
      BY <1>2, <2>1 DEF Retry
    <3>2. QED  BY <1>1, <2>1, <3>1 DEF Retry, Typed, TaskInv
  <2>2. CASE NothingToRun \/ TurnOver
    BY <1>1, <2>2 DEF NothingToRun, TurnOver, Frame, Typed, TaskInv, Pcs
  <2>3. CASE RunTools \/ \E i \in 1..Len(tasks) : ToolEnds(i)
    <3>1. /\ tasks' \in Seq(Tasks) /\ Len(tasks') = Len(tasks) /\ DOMAIN tasks' = DOMAIN tasks
          /\ \A i \in DOMAIN tasks : tasks'[i].k = tasks[i].k
      <4>1. \A i \in 1..Len(tasks) : tasks[i] \in Tasks
        BY <1>1, ElementOfSeq DEF Typed
      <4>2. /\ tasks' \in [1..Len(tasks) -> Tasks]
            /\ \A i \in DOMAIN tasks : tasks'[i].k = tasks[i].k
        <5>1. CASE RunTools
          BY <1>2, <4>1, <5>1 DEF RunTools, Tasks
        <5>2. CASE \E i \in 1..Len(tasks) : ToolEnds(i)
          <6>1. PICK i \in 1..Len(tasks), o \in Outcomes : tasks' = [tasks EXCEPT ![i].state = o]
            BY <5>2 DEF ToolEnds
          <6>2. \A j \in 1..Len(tasks) :
                  tasks'[j] = IF j = i THEN [tasks[i] EXCEPT !.state = o] ELSE tasks[j]
            BY <1>2, <6>1
          <6>3. DOMAIN tasks' = 1..Len(tasks) /\ tasks' = [j \in 1..Len(tasks) |-> tasks'[j]]
            BY <1>1, <1>2, <6>1 DEF Typed
          <6>4. [tasks[i] EXCEPT !.state = o] \in Tasks /\ [tasks[i] EXCEPT !.state = o].k = tasks[i].k
            BY <4>1 DEF Tasks
          <6>5. QED  BY <1>2, <4>1, <6>2, <6>3, <6>4
        <5>3. QED  BY <2>3, <5>1, <5>2
      <4>3. tasks' \in Seq(Tasks)
        BY <1>2, <4>2, SeqDef
      <4>4. Len(tasks') = Len(tasks)
        BY <1>2, <4>2, <4>3, LenProperties
      <4>5. QED  BY <1>2, <4>2, <4>3, <4>4
    <3>2. UNCHANGED <<turn, attempt, said, calls, next, talk, events, cancelled, killed>> /\ pc' = "gather"
      BY <2>3 DEF RunTools, ToolEnds
    <3>3. /\ Len(tasks) <= Len(calls)
          /\ \A k \in DOMAIN calls : calls[k] = "runs" => \E i \in DOMAIN tasks : tasks[i].k = k
      <4>1. CASE RunTools
        <5>1. pc = "prepare" /\ next = Len(calls) + 1
          BY <1>1, <1>2, <4>1 DEF RunTools, AllPrepared, Typed
        <5>2. QED  BY <1>1, <1>2, <5>1 DEF TaskInv
      <4>2. CASE \E i \in 1..Len(tasks) : ToolEnds(i)
        BY <1>1, <4>2 DEF ToolEnds, TaskInv
      <4>3. QED  BY <2>3, <4>1, <4>2
    <3>4. Typed'
      BY <1>1, <3>1, <3>2 DEF Typed, Pcs
    <3>5. TaskInv'
      <4>1. \A i, j \in DOMAIN tasks' : i < j => tasks'[i].k < tasks'[j].k
        BY <1>1, <3>1 DEF TaskInv
      <4>2. \A i \in DOMAIN tasks' : tasks'[i].k \in DOMAIN calls' /\ calls'[tasks'[i].k] = "runs"
        BY <1>1, <3>1, <3>2 DEF TaskInv
      <4>3. \A k \in DOMAIN calls' : calls'[k] = "runs" => \E i \in DOMAIN tasks' : tasks'[i].k = k
        BY <3>1, <3>2, <3>3
      <4>4. QED  BY <3>1, <3>2, <3>3, <4>1, <4>2, <4>3 DEF TaskInv
    <3>6. QED  BY <3>4, <3>5
  <2>4. CASE Gathered
    <3>1. next' = 1 /\ pc = "gather" /\ pc' = "report"
          /\ UNCHANGED <<turn, attempt, said, calls, tasks, talk, events, cancelled, killed>>
      BY <2>4 DEF Gathered, AllEnded
    <3>2. next' \in 0..(Len(calls') + 1) /\ next' \in 1..(Len(tasks') + 1)
      BY <1>2, <3>1
    <3>3. QED  BY <1>1, <3>1, <3>2 DEF Typed, TaskInv, Pcs
  <2>5. QED  BY <1>11, <2>1, <2>2, <2>3, <2>4 DEF Passes
<1>12. CASE SetCancel \/ KillGather
  BY <1>1, <1>12 DEF SetCancel, KillGather, Frame, Typed, TaskInv
<1>13. QED
  BY <1>1, <1>3, <1>4, <1>5, <1>6, <1>7, <1>8, <1>9, <1>10, <1>11, <1>12 DEF StepKinds

-----------------------------------------------------------------------------
(* What the events say of the run, and what the model has been told.         *)

\* n chunks of text were passed on in turn t, nothing of a later turn was, and
\* m is what is stored.
Flow(s, t, n, m) ==
  /\ n = Cardinality(Deltas(s, t))
  /\ \A i \in DOMAIN s : s[i].call[1] <= t
  /\ Story(s) = m

FlowInv ==
  /\ Flow(events, turn, said, talk)
  /\ events = <<>> <=> pc = "start"
  /\ pc # "over" => \A i \in DOMAIN events : events[i].type \notin Endings
  /\ \A i \in DOMAIN events : events[i].type = "completed" => pc = "over" /\ events[i].said = said

\* The calls of the turn that have been answered.
Answered ==
  CASE pc \in {"start", "stream"} -> {}
    [] pc = "prepare" -> {k \in 1..(next - 1) : calls[k] # "runs"}
    [] pc = "gather" -> {k \in DOMAIN calls : calls[k] # "runs"}
    [] pc = "report" -> {k \in DOMAIN calls : calls[k] # "runs"} \union {tasks[i].k : i \in 1..(next - 1)}
    [] OTHER -> DOMAIN calls

AnswerInv ==
  /\ Ordered(talk, turn) /\ Closed(talk, turn, Len(calls))
  /\ pc = "stream" => turn >= 1 /\ \A i \in DOMAIN talk : talk[i].call[1] < turn
  /\ pc \notin {"over", "raised"} => Answers(talk, turn) = Answered

IInv == Typed /\ TaskInv /\ FlowInv /\ AnswerInv

LEMMA FlowGrows ==
  ASSUME NEW s \in Seq(Events), NEW e \in Events, NEW t \in Nat, NEW n \in Nat, NEW m,
         Flow(s, t, n, m), e.call[1] <= t, NEW p, NEW q, q = m \o Stores(e),
         p = n + (IF e.type = "delta" /\ e.call[1] = t THEN 1 ELSE 0)
  PROVE  /\ Flow(Append(s, e), t, p, q)
         /\ \A i \in DOMAIN Append(s, e) : (i \in DOMAIN s /\ Append(s, e)[i] = s[i]) \/ Append(s, e)[i] = e
<1>1. PICK l \in Nat : /\ DOMAIN s = 1..l /\ DOMAIN Append(s, e) = 1..(l + 1)
                       /\ Append(s, e)[l + 1] = e /\ \A i \in 1..l : Append(s, e)[i] = s[i]
  BY OneMore
<1>2. \A i \in DOMAIN Append(s, e) : (i \in DOMAIN s /\ Append(s, e)[i] = s[i]) \/ Append(s, e)[i] = e
  BY <1>1
<1>3. \A i \in DOMAIN Append(s, e) : Append(s, e)[i].call[1] <= t
  BY <1>2 DEF Flow
<1>4. Cardinality(Deltas(Append(s, e), t)) = p
  BY EventsGrow DEF Flow
<1>5. Story(Append(s, e)) = q
  BY StoryGrows DEF Flow
<1>6. QED  BY <1>2, <1>3, <1>4, <1>5 DEF Flow

LEMMA StoresNothing ==
  ASSUME NEW e \in Events, e.type \notin {"assistant_with_tools", "tool_completed"}
  PROVE  talk \in Seq(Entries) => talk \o Stores(e) = talk
<1>1. Stores(e) = <<>>
  BY DEF Stores
<1>2. QED  BY <1>1, ConcatEmptySeq

LEMMA InitFlow == Init => FlowInv /\ AnswerInv
<1>1. SUFFICES ASSUME Init PROVE FlowInv /\ AnswerInv
  OBVIOUS
<1>2. pc = "start" /\ turn = 0 /\ said = 0 /\ calls = <<>>
  <2>1. pc = "start" /\ turn = 0 /\ said = 0
    BY <1>1 DEF Init
  <2>2. calls = <<>>
    BY <1>1 DEF Init
  <2>3. QED  BY <2>1, <2>2
<1>3. talk = <<>> /\ events = <<>>
  BY <1>1 DEF Init
<1>4. DOMAIN <<>> = {} /\ Len(<<>>) = 0
  OBVIOUS
<1>5. Story(events) = <<>>
  <2>1. [i \in DOMAIN events |-> Stores(events[i])] = <<>>
    BY <1>3, <1>4
  <2>2. QED  BY <1>4, <2>1 DEF Story, FlattenSeq
<1>6. Cardinality(Deltas(events, turn)) = 0
  <2>1. Deltas(events, turn) = {}
    BY <1>3, <1>4 DEF Deltas
  <2>2. QED  BY <2>1, FS_EmptySet
<1>7. FlowInv
  BY <1>2, <1>3, <1>4, <1>5, <1>6 DEF FlowInv, Flow
<1>8. Answers(talk, turn) = {} /\ Answered = {}
  BY <1>2, <1>3, <1>4 DEF Answers, Answered
<1>9. AnswerInv
  BY <1>2, <1>3, <1>4, <1>8 DEF AnswerInv, Ordered, Closed
<1>10. QED  BY <1>7, <1>9

\* One more event, of this turn or of none, that goes with what is stored.
LEMMA EventAdded ==
  ASSUME Typed, NEW s \in Seq(Events), NEW m, Flow(s, turn, said, m),
         \A i \in DOMAIN s : s[i].type \notin Endings,
         NEW e \in Events, e.call[1] <= turn, events' = Append(s, e), turn' = turn,
         e.type \in Endings <=> pc' = "over", pc' # "start",
         e.type = "completed" => e.said = said',
         said' = said + (IF e.type = "delta" /\ e.call[1] = turn THEN 1 ELSE 0),
         talk' = m \o Stores(e)
  PROVE  FlowInv'
<1>1. turn \in Nat /\ said \in Nat
  BY BoundsAssumption DEF Typed
<1>2. /\ Flow(events', turn, said', talk')
      /\ \A i \in DOMAIN events' : (i \in DOMAIN s /\ events'[i] = s[i]) \/ events'[i] = e
  BY <1>1, FlowGrows
<1>3. events' # <<>>
  BY OneMore
<1>4. pc' # "over" => \A i \in DOMAIN events' : events'[i].type \notin Endings
  BY <1>2
<1>5. \A i \in DOMAIN events' : events'[i].type = "completed" => pc' = "over" /\ events'[i].said = said'
  BY <1>2 DEF Endings
<1>6. QED  BY <1>2, <1>3, <1>4, <1>5 DEF FlowInv

LEMMA NextFlow == Typed /\ TaskInv /\ FlowInv /\ [Next]_vars => FlowInv'
<1>1. SUFFICES ASSUME Typed, TaskInv, FlowInv, StepKinds PROVE FlowInv'
  BY NextKinds
<1>2. /\ turn \in Nat /\ said \in Nat /\ next \in Nat
      /\ events \in Seq(Events) /\ talk \in Seq(Entries) /\ DOMAIN <<>> = {}
  <2>1. turn \in Nat /\ said \in Nat
    BY <1>1, BoundsAssumption DEF Typed
  <2>2. events \in Seq(Events) /\ talk \in Seq(Entries)
    BY <1>1 DEF Typed
  <2>3. next \in Nat
    BY <1>1, LenProperties DEF Typed
  <2>4. QED  BY <2>1, <2>2, <2>3
<1>3. /\ Flow(events, turn, said, talk)
      /\ pc # "over" => \A i \in DOMAIN events : events[i].type \notin Endings
  BY <1>1 DEF FlowInv
<1>4. CASE UNCHANGED vars
  BY <1>1, <1>4 DEF vars, FlowInv
<1>5. CASE EndStep
  <2>1. PICK type \in Endings, e \in Events :
          /\ e.type = type /\ e.call = <<0, 0>> /\ e.said = said
          /\ events' = Append(events, e) /\ pc' = "over"
          /\ UNCHANGED <<turn, attempt, said, calls, next, tasks, talk, cancelled, killed>>
    BY <1>1, <1>5, EndShape
  <2>2. talk \o Stores(e) = talk /\ e.type # "delta" /\ e.call[1] = 0 /\ e.call[1] <= turn /\ pc # "over"
    BY <1>2, <1>5, <2>1, StoresNothing DEF Endings, EndStep
  <2>3. said' = said + (IF e.type = "delta" /\ e.call[1] = turn THEN 1 ELSE 0)
    BY <1>2, <2>1, <2>2
  <2>4. QED  BY <1>1, <1>2, <1>3, <2>1, <2>2, <2>3, EventAdded
<1>6. CASE RaiseStep
  <2>1. /\ pc \notin {"start", "over"} /\ pc' = "raised"
        /\ UNCHANGED <<turn, said, talk, events>>
    BY <1>6 DEF RaiseStep, Frame
  <2>2. QED  BY <1>1, <2>1 DEF FlowInv
<1>7. CASE Start
  <2>1. "run_started" \in Types
    BY DEF Types
  <2>2. PICK e \in Events : /\ e = Event("run_started", <<0, 0>>)
                            /\ e.type = "run_started" /\ e.call = <<0, 0>>
    BY <2>1, EventType
  <2>3. /\ pc = "start" /\ pc' = "turn" /\ events' = Append(events, e)
        /\ UNCHANGED <<turn, said, talk>>
    BY <1>7, <2>2 DEF Start, Emit, NoCall, Frame
  <2>4. talk \o Stores(e) = talk /\ e.call[1] <= turn
    BY <1>2, <2>2, StoresNothing
  <2>5. e.type \notin Endings /\ said' = said + (IF e.type = "delta" /\ e.call[1] = turn THEN 1 ELSE 0)
    BY <1>2, <2>2, <2>3 DEF Endings
  <2>6. QED  BY <1>1, <1>2, <1>3, <2>2, <2>3, <2>4, <2>5, EventAdded
<1>8. CASE BeginTurn
  <2>1. /\ pc = "turn" /\ pc' = "stream" /\ turn' = turn + 1 /\ said' = 0
        /\ talk' = talk /\ events' = events
    BY <1>8 DEF BeginTurn
  <2>2. \A i \in DOMAIN events : events[i].call[1] \in Nat /\ events[i].call[1] <= turn
    <3>1. \A i \in DOMAIN events : events[i] \in Events
      BY <1>2, ElementOfSeq, LenProperties
    <3>2. QED  BY <1>3, <3>1 DEF Flow, Events, CallIds
  <2>3. Deltas(events, turn + 1) = {}
    BY <1>2, <2>2 DEF Deltas
  <2>4. Flow(events, turn + 1, 0, talk)
    <3>1. Cardinality(Deltas(events, turn + 1)) = 0
      BY <2>3, FS_EmptySet
    <3>2. \A i \in DOMAIN events : events[i].call[1] <= turn + 1
      BY <1>2, <2>2
    <3>3. QED  BY <1>3, <3>1, <3>2 DEF Flow
  <2>5. QED  BY <1>1, <1>3, <2>1, <2>4 DEF FlowInv
<1>9. CASE Chunk
  <2>1. "delta" \in Types
    BY DEF Types
  <2>2. PICK e \in Events : /\ e = Event("delta", <<turn, 0>>)
                            /\ e.type = "delta" /\ e.call = <<turn, 0>> /\ ~e.attached
    <3>1. turn \in Nat /\ 0 \in Nat
      BY <1>2
    <3>2. QED  BY <2>1, <3>1, EventType
  <2>3. /\ pc = "stream" /\ pc' = "stream" /\ events' = Append(events, e)
        /\ turn' = turn /\ said' = said + 1 /\ talk' = talk
    BY <1>9, <2>2 DEF Chunk, Emit
  <2>4. talk \o Stores(e) = talk /\ e.call[1] = turn /\ e.call[1] <= turn
    <3>1. talk \o Stores(e) = talk
      BY <1>2, <2>2, StoresNothing
    <3>2. e.call[1] = turn
      BY <2>2
    <3>3. QED  BY <1>2, <3>1, <3>2
  <2>5. e.type \notin Endings /\ said' = said + (IF e.type = "delta" /\ e.call[1] = turn THEN 1 ELSE 0)
    BY <1>2, <2>2, <2>3, <2>4 DEF Endings
  <2>6. QED  BY <1>1, <1>2, <1>3, <2>2, <2>3, <2>4, <2>5, EventAdded
<1>10. CASE AsksForTools
  <2>1. PICK t \in ToolTurns :
          /\ events' = Append(events, [Event("assistant_with_tools", <<turn, Len(t)>>) EXCEPT !.said = said])
          /\ talk' = Append(talk, Entry("assistant", <<turn, Len(t)>>))
    BY <1>10 DEF AsksForTools, Emit
  <2>2. Len(t) \in Nat /\ "assistant_with_tools" \in Types
    BY ToolTurnsAssumption, LenProperties DEF Types
  <2>3. PICK e \in Events : /\ e = [Event("assistant_with_tools", <<turn, Len(t)>>) EXCEPT !.said = said]
                            /\ e.type = "assistant_with_tools" /\ e.call = <<turn, Len(t)>>
    <3>1. turn \in Nat /\ said \in Nat
      BY <1>2
    <3>2. PICK e : SaidEvent(e, "assistant_with_tools", turn, Len(t), said)
      BY <2>2, <3>1, SaidEventType
    <3>3. QED  BY <3>2 DEF SaidEvent
  <2>4. PICK m \in Entries : m = Entry("assistant", <<turn, Len(t)>>)
    BY <1>2, <2>2, EntryTypes
  <2>5. Stores(e) = <<m>>
    BY <2>3, <2>4 DEF Stores
  <2>6. talk' = talk \o Stores(e)
    BY <1>2, <2>1, <2>4, <2>5, Behind
  <2>7. pc = "stream" /\ pc' = "prepare" /\ turn' = turn /\ said' = said
    BY <1>10 DEF AsksForTools
  <2>8. /\ e.type \notin Endings /\ e.call[1] <= turn
        /\ said' = said + (IF e.type = "delta" /\ e.call[1] = turn THEN 1 ELSE 0)
    <3>1. e.call[1] = turn
      BY <2>3
    <3>2. QED  BY <1>2, <2>3, <2>7, <3>1 DEF Endings
  <2>9. QED  BY <1>1, <1>2, <1>3, <2>1, <2>3, <2>6, <2>7, <2>8, EventAdded
<1>11. CASE Answering
  <2>1. /\ pc' = pc /\ pc \in {"prepare", "report"} /\ turn' = turn /\ said' = said
    BY <1>1, <1>11, AnswerShape
  \* A tool that starts is not stored.
  <2>2. ASSUME NEW d \in Events, NEW k \in Nat, d.type = "tool_started", d.call = <<turn, k>>
        PROVE  /\ Append(events, d) \in Seq(Events) /\ Flow(Append(events, d), turn, said, talk)
               /\ \A i \in DOMAIN Append(events, d) : Append(events, d)[i].type \notin Endings
    <3>0. d.call[1] = turn
      BY <2>2
    <3>1. talk \o Stores(d) = talk /\ d.call[1] <= turn
      <4>1. talk \o Stores(d) = talk
        BY <1>2, <2>2, StoresNothing
      <4>2. QED  BY <1>2, <3>0, <4>1
    <3>2. said + (IF d.type = "delta" /\ d.call[1] = turn THEN 1 ELSE 0) = said
      BY <1>2, <2>2
    <3>3. /\ Flow(Append(events, d), turn, said, talk)
          /\ \A i \in DOMAIN Append(events, d) :
               (i \in DOMAIN events /\ Append(events, d)[i] = events[i]) \/ Append(events, d)[i] = d
      BY <1>2, <1>3, <3>1, <3>2, FlowGrows
    <3>4. Append(events, d) \in Seq(Events)
      BY <1>2, AppendProperties
    <3>5. QED  BY <1>3, <2>1, <2>2, <3>3, <3>4 DEF Endings
  \* A result is.
  <2>3. ASSUME NEW s \in Seq(Events), Flow(s, turn, said, talk),
               \A i \in DOMAIN s : s[i].type \notin Endings,
               NEW e \in Events, NEW k \in Nat, NEW m \in Entries, NEW a \in Entries,
               e.type = "tool_completed", e.call = <<turn, k>>, events' = Append(s, e),
               m = Entry("tool", <<turn, k>>), a = Entry("attached", <<turn, k>>),
               \/ ~e.attached /\ talk' = Append(talk, m)
               \/ e.attached /\ talk' = Append(Append(talk, m), a)
        PROVE  FlowInv'
    <3>1. talk' = talk \o Stores(e)
      <4>1. CASE e.attached
        <5>1. Stores(e) = <<m>> \o <<a>>
          BY <2>3, <4>1 DEF Stores
        <5>2. talk \o (<<m>> \o <<a>>) = Append(Append(talk, m), a)
          BY <1>2, Behind
        <5>3. QED  BY <2>3, <4>1, <5>1, <5>2
      <4>2. CASE ~e.attached
        <5>1. Stores(e) = <<m>> \o <<>>
          BY <2>3, <4>2 DEF Stores
        <5>2. talk \o (<<m>> \o <<>>) = Append(talk, m)
          BY <1>2, Behind
        <5>3. QED  BY <2>3, <4>2, <5>1, <5>2
      <4>3. QED  BY <4>1, <4>2
    <3>2. /\ e.type \notin Endings /\ e.call[1] <= turn /\ e.type # "completed"
          /\ said' = said + (IF e.type = "delta" /\ e.call[1] = turn THEN 1 ELSE 0)
      BY <1>2, <2>1, <2>3 DEF Endings
    <3>3. pc' \notin {"start", "over"}
      BY <2>1
    <3>4. QED  BY <1>1, <2>1, <2>3, <3>1, <3>2, <3>3, EventAdded
  <2>4. CASE pc = "prepare" /\ talk' # talk
    <3>1. PICK m \in Entries, e \in Events, d \in Events :
            /\ m = Entry("tool", <<turn, next>>) /\ talk' = Append(talk, m)
            /\ e.type = "tool_completed" /\ e.call = <<turn, next>> /\ ~e.attached
            /\ d.type = "tool_started" /\ d.call = <<turn, next>>
            /\ \/ events' = Append(events, e)
               \/ events' = Append(Append(events, d), e)
      BY <1>1, <1>11, <2>4, AnswerShape
    <3>2. PICK a \in Entries : a = Entry("attached", <<turn, next>>)
      BY <1>2, EntryTypes
    <3>3. CASE events' = Append(events, e)
      BY <1>2, <1>3, <2>1, <2>3, <3>1, <3>2, <3>3
    <3>4. CASE events' = Append(Append(events, d), e)
      <4>1. PICK s \in Seq(Events) : s = Append(events, d)
        BY <1>2, AppendProperties
      <4>2. Flow(s, turn, said, talk) /\ \A i \in DOMAIN s : s[i].type \notin Endings
        BY <1>2, <2>2, <3>1, <4>1
      <4>3. QED  BY <1>2, <2>3, <3>1, <3>2, <3>4, <4>1, <4>2
    <3>5. QED  BY <3>1, <3>3, <3>4
  <2>5. CASE pc = "prepare" /\ talk' = talk
    <3>1. PICK d \in Events : /\ d.type = "tool_started" /\ d.call = <<turn, next>>
                              /\ events' = Append(events, d)
      <4>1. ASSUME NEW m \in Entries PROVE Append(talk, m) # talk
        <5>1. PICK s \in Seq(Entries) : s = talk
          BY <1>2
        <5>2. Len(Append(s, m)) = Len(s) + 1 /\ Len(s) \in Nat
          BY AppendProperties, LenProperties
        <5>3. Append(s, m) # s
          BY <5>2
        <5>4. QED  BY <5>1, <5>3
      <4>2. QED  BY <1>1, <1>11, <2>5, <4>1, AnswerShape
    <3>2. talk \o Stores(d) = talk /\ d.call[1] <= turn
      <4>1. talk \o Stores(d) = talk
        BY <1>2, <3>1, StoresNothing
      <4>2. d.call[1] = turn
        BY <3>1
      <4>3. QED  BY <1>2, <4>1, <4>2
    <3>3. /\ d.type \notin Endings /\ d.type # "completed"
          /\ said' = said + (IF d.type = "delta" /\ d.call[1] = turn THEN 1 ELSE 0)
      BY <1>2, <2>1, <3>1 DEF Endings
    <3>4. QED  BY <1>1, <1>2, <1>3, <2>1, <2>5, <3>1, <3>2, <3>3, EventAdded
  <2>6. CASE pc = "report"
    <3>1. PICK m \in Entries, a \in Entries, e \in Events :
            /\ m = Entry("tool", <<turn, tasks[next].k>>) /\ a = Entry("attached", <<turn, tasks[next].k>>)
            /\ e.type = "tool_completed" /\ e.call = <<turn, tasks[next].k>>
            /\ events' = Append(events, e) /\ next \in DOMAIN tasks
            /\ \/ ~e.attached /\ talk' = Append(talk, m)
               \/ e.attached /\ talk' = Append(Append(talk, m), a)
      BY <1>1, <1>11, <2>6, AnswerShape
    <3>2. PICK k \in Nat : k = tasks[next].k
      <4>1. tasks[next] \in Tasks
        BY <1>1, <3>1, ElementOfSeq, LenProperties DEF Typed
      <4>2. QED  BY <4>1 DEF Tasks
    <3>3. QED  BY <1>2, <1>3, <2>3, <2>6, <3>1, <3>2
  <2>7. QED  BY <2>1, <2>4, <2>5, <2>6
<1>12. CASE Passes
  <2>1. /\ UNCHANGED <<turn, said, talk, events>>
        /\ pc \notin {"start", "over"} /\ pc' \notin {"start", "over"}
    BY <1>12 DEF Passes, Retry, NothingToRun, RunTools, Gathered, TurnOver, ToolEnds, Frame,
                 AllPrepared, AllEnded
  <2>2. QED  BY <1>1, <2>1 DEF FlowInv
<1>13. CASE SetCancel \/ KillGather
  <2>1. UNCHANGED <<pc, turn, said, talk, events>>
    BY <1>13 DEF SetCancel, KillGather, Frame
  <2>2. QED  BY <1>1, <2>1 DEF FlowInv
<1>14. QED
  BY <1>1, <1>4, <1>5, <1>6, <1>7, <1>8, <1>9, <1>10, <1>11, <1>12, <1>13 DEF StepKinds

-----------------------------------------------------------------------------
(* Which calls are answered.                                                 *)

\* The results of a turn come one by one: one for each call, and none again.
LEMMA ResultGrows ==
  ASSUME Typed, AnswerInv, NEW k \in Nat, k \notin Answers(talk, turn),
         NEW m \in Entries, NEW a \in Entries,
         m = Entry("tool", <<turn, k>>), a = Entry("attached", <<turn, k>>),
         NEW new \in Seq(Entries), new = Append(talk, m) \/ new = Append(Append(talk, m), a)
  PROVE  /\ Ordered(new, turn) /\ Closed(new, turn, Len(calls))
         /\ Answers(new, turn) = Answers(talk, turn) \union {k}
<1>1. PICK t \in Nat, n \in Nat : t = turn /\ n = Len(calls)
  <2>1. turn \in Nat
    BY BoundsAssumption DEF Typed
  <2>2. Len(calls) \in Nat
    BY LenProperties DEF Typed
  <2>3. QED  BY <2>1, <2>2
<1>2. PICK s \in Seq(Entries) : s = talk
  BY DEF Typed
<1>3. m.role = "tool" /\ m.call = <<t, k>> /\ a.role = "attached" /\ a.call = <<t, k>>
  BY <1>1 DEF Entry
<1>5. Ordered(s, t) /\ Closed(s, t, n) /\ k \notin Answers(s, t)
  BY <1>1, <1>2 DEF AnswerInv
<1>6. /\ Ordered(Append(s, m), t) /\ Closed(Append(s, m), t, n)
      /\ Answers(Append(s, m), t) = Answers(s, t) \union {k}
  <2>1. Fits(s, m, t, n, k)
    BY <1>3, <1>5 DEF Fits
  <2>2. m.role = "tool"
    BY <1>3
  <2>3. Ordered(Append(s, m), t) /\ Closed(Append(s, m), t, n)
    BY <2>1, TalkGrows
  <2>4. m.role = "tool" => Answers(Append(s, m), t) = Answers(s, t) \union {k}
    BY <2>1, TalkGrows
  <2>5. QED  BY <2>2, <2>3, <2>4
<1>8. PICK u \in Seq(Entries) : u = Append(s, m)
  BY AppendProperties
<1>9. /\ Ordered(Append(u, a), t) /\ Closed(Append(u, a), t, n)
      /\ a.role # "tool" => Answers(Append(u, a), t) = Answers(u, t)
  <2>1. Fits(u, a, t, n, k)
    BY <1>3, <1>6, <1>8 DEF Fits
  <2>2. QED  BY <2>1, TalkGrows
<1>10. Answers(Append(u, a), t) = Answers(u, t)
  BY <1>3, <1>9
<1>11. CASE new = Append(talk, m)
  BY <1>1, <1>2, <1>6, <1>11
<1>12. CASE new = Append(Append(talk, m), a)
  BY <1>1, <1>2, <1>6, <1>8, <1>9, <1>10, <1>12
<1>13. QED  BY <1>11, <1>12

\* What the type of a state says of its numbers.
LEMMA Sizes ==
  ASSUME Typed
  PROVE  /\ turn \in Nat /\ next \in Nat
         /\ Len(calls) \in Nat /\ DOMAIN calls = 1..Len(calls)
         /\ Len(tasks) \in Nat /\ DOMAIN tasks = 1..Len(tasks)
         /\ \A i \in DOMAIN tasks : tasks[i].k \in Nat
<1>1. turn \in Nat
  BY BoundsAssumption DEF Typed
<1>2. /\ Len(calls) \in Nat /\ DOMAIN calls = 1..Len(calls)
      /\ Len(tasks) \in Nat /\ DOMAIN tasks = 1..Len(tasks)
  BY LenProperties DEF Typed
<1>3. next \in Nat
  BY <1>2 DEF Typed
<1>4. \A i \in DOMAIN tasks : tasks[i].k \in Nat
  <2>1. \A i \in DOMAIN tasks : tasks[i] \in Tasks
    BY <1>2, ElementOfSeq DEF Typed
  <2>2. QED  BY <2>1 DEF Tasks
<1>5. QED  BY <1>1, <1>2, <1>3, <1>4

\* The calls answered after a step that answers one or lets a tool start.
LEMMA AnsweredGrows ==
  ASSUME Typed, TaskInv, pc' = pc, calls' = calls, next' = next + 1, pc = "report" => tasks' = tasks
  PROVE  /\ pc = "prepare" /\ next \in DOMAIN calls =>
              /\ calls[next] = "runs" => Answered' = Answered
              /\ calls[next] # "runs" => next \notin Answered /\ Answered' = Answered \union {next}
         /\ pc = "report" /\ next \in DOMAIN tasks =>
              /\ tasks[next].k \in DOMAIN calls /\ tasks[next].k \notin Answered
              /\ Answered' = Answered \union {tasks[next].k}
<1>1. ASSUME pc = "prepare", next \in DOMAIN calls
      PROVE  /\ calls[next] = "runs" => Answered' = Answered
             /\ calls[next] # "runs" => next \notin Answered /\ Answered' = Answered \union {next}
  <2>1. /\ Answered = {k \in 1..(next - 1) : calls[k] # "runs"}
        /\ Answered' = {k \in 1..((next + 1) - 1) : calls[k] # "runs"}
    BY <1>1 DEF Answered
  <2>2. 1..((next + 1) - 1) = (1..(next - 1)) \union {next} /\ next \notin 1..(next - 1)
    BY <1>1, Sizes
  <2>3. QED  BY <2>1, <2>2
<1>2. ASSUME pc = "report", next \in DOMAIN tasks, NEW k \in Nat, k = tasks[next].k
      PROVE  k \in DOMAIN calls /\ k \notin Answered /\ Answered' = Answered \union {k}
  <2>1. /\ Answered = {j \in DOMAIN calls : calls[j] # "runs"} \union {tasks[i].k : i \in 1..(next - 1)}
        /\ Answered' = {j \in DOMAIN calls : calls[j] # "runs"}
                         \union {tasks[i].k : i \in 1..((next + 1) - 1)}
    BY <1>2 DEF Answered
  <2>2. /\ 1..((next + 1) - 1) = (1..(next - 1)) \union {next} /\ 1..(next - 1) \subseteq DOMAIN tasks
        /\ \A i \in 1..(next - 1) : i < next
    BY <1>2, Sizes
  <2>3. k \in DOMAIN calls /\ calls[k] = "runs"
    BY <1>2 DEF TaskInv
  <2>4. \A i \in 1..(next - 1) : tasks[i].k < k
    BY <1>2, <2>2 DEF TaskInv
  <2>5. k \notin {tasks[i].k : i \in 1..(next - 1)}
    BY <2>4
  <2>6. QED  BY <1>2, <2>1, <2>2, <2>3, <2>5
<1>3. QED
  <2>1. ASSUME pc = "report", next \in DOMAIN tasks
        PROVE  /\ tasks[next].k \in DOMAIN calls /\ tasks[next].k \notin Answered
               /\ Answered' = Answered \union {tasks[next].k}
    <3>1. PICK k \in Nat : k = tasks[next].k
      BY <2>1, Sizes
    <3>2. k \in DOMAIN calls /\ k \notin Answered /\ Answered' = Answered \union {k}
      BY <1>2, <2>1, <3>1
    <3>3. QED  BY <3>1, <3>2
  <2>2. QED  BY <1>1, <2>1

LEMMA NextAnswer == Typed /\ TaskInv /\ FlowInv /\ AnswerInv /\ [Next]_vars => AnswerInv'
<1>1. SUFFICES ASSUME Typed, TaskInv, FlowInv, AnswerInv, StepKinds PROVE AnswerInv'
  BY NextKinds
<1>2. /\ turn \in Nat /\ next \in Nat
      /\ Len(calls) \in Nat /\ DOMAIN calls = 1..Len(calls)
      /\ Len(tasks) \in Nat /\ DOMAIN tasks = 1..Len(tasks)
      /\ \A i \in DOMAIN tasks : tasks[i].k \in Nat
  BY <1>1, Sizes
<1>3. talk \in Seq(Entries) /\ events \in Seq(Events)
  BY <1>1 DEF Typed
<1>4. CASE UNCHANGED vars
  BY <1>1, <1>4 DEF vars, AnswerInv, Answered
<1>5. CASE EndStep \/ RaiseStep
  <2>1. pc' \in {"over", "raised"} /\ UNCHANGED <<turn, calls, talk>>
    BY <1>5 DEF EndStep, EndWith, RaiseStep, Frame
  <2>2. QED  BY <1>1, <2>1 DEF AnswerInv
<1>6. CASE Start
  <2>3. pc = "start" /\ pc' = "turn" /\ UNCHANGED <<turn, talk, calls>>
    BY <1>6 DEF Start, Frame
  <2>5. Answered = {} /\ Answered' = {}
    <3>1. calls = <<>> /\ DOMAIN <<>> = {}
      BY <1>1, <2>3 DEF TaskInv
    <3>2. QED  BY <2>3, <3>1 DEF Answered
  <2>6. QED  BY <1>1, <2>3, <2>5 DEF AnswerInv
<1>7. CASE BeginTurn
  <2>1. /\ pc = "turn" /\ pc' = "stream" /\ turn' = turn + 1 /\ calls' = <<>>
        /\ talk' = talk /\ events' = events
    BY <1>7 DEF BeginTurn
  <2>2. 1..Len(calls) \subseteq Answers(talk, turn)
    BY <1>1, <1>2, <2>1 DEF AnswerInv, Answered
  <2>3. PICK s \in Seq(Entries), t \in Nat, n \in Nat : s = talk /\ t = turn /\ n = Len(calls)
    BY <1>2, <1>3
  <2>4. /\ Ordered(s, t + 1) /\ \A i \in DOMAIN s : s[i].call[1] < t + 1
        /\ Closed(s, t + 1, 0) /\ Answers(s, t + 1) = {}
    <3>1. Ordered(s, t) /\ Closed(s, t, n) /\ 1..n \subseteq Answers(s, t)
      BY <1>1, <2>2, <2>3 DEF AnswerInv
    <3>2. QED  BY <3>1, TurnGrows
  <2>6. Answered' = {} /\ Len(calls') = 0 /\ turn' >= 1
    <3>1. Len(<<>>) = 0
      BY EmptySeq
    <3>2. QED  BY <1>2, <2>1, <3>1 DEF Answered
  <2>7. QED  BY <2>1, <2>3, <2>4, <2>6 DEF AnswerInv
<1>8. CASE Chunk
  <2>3. pc = "stream" /\ pc' = "stream" /\ UNCHANGED <<turn, talk, calls>>
    BY <1>8 DEF Chunk
  <2>5. Answered = {} /\ Answered' = {}
    BY <2>3 DEF Answered
  <2>6. QED  BY <1>1, <2>3, <2>5 DEF AnswerInv
<1>9. CASE AsksForTools
  <2>1. PICK t \in ToolTurns :
          /\ calls' = t
          /\ talk' = Append(talk, Entry("assistant", <<turn, Len(t)>>))
    BY <1>9 DEF AsksForTools
  <2>2. pc = "stream" /\ pc' = "prepare" /\ turn' = turn /\ next' = 1
    BY <1>9 DEF AsksForTools
  <2>3. PICK l \in Nat, u \in Nat : l = Len(t) /\ u = turn
    <3>1. Len(t) \in Nat
      BY ToolTurnsAssumption, LenProperties
    <3>2. QED  BY <1>2, <3>1
  <2>6. PICK m \in Entries : /\ m = Entry("assistant", <<u, l>>)
                             /\ m.role = "assistant" /\ m.call = <<u, l>>
    BY EntryTypes
  <2>7. PICK s \in Seq(Entries) : s = talk
    BY <1>3
  <2>8. Ordered(s, u) /\ Closed(s, u, Len(calls)) /\ \A i \in DOMAIN s : s[i].call[1] < u
    BY <1>1, <2>2, <2>3, <2>7 DEF AnswerInv
  <2>9. Closed(s, u, l)
    <3>1. \A i \in DOMAIN s : s[i].call[1] \in Nat
      <4>1. \A i \in DOMAIN s : s[i] \in Entries
        BY ElementOfSeq, LenProperties
      <4>2. QED  BY <4>1 DEF Entries, CallIds
    <3>2. \A i \in DOMAIN s : s[i].call[1] # u
      BY <2>8, <3>1
    <3>3. QED  BY <2>8, <3>2 DEF Closed
  <2>10. /\ Ordered(Append(s, m), u) /\ Closed(Append(s, m), u, l)
         /\ m.role # "tool" => Answers(Append(s, m), u) = Answers(s, u)
    <3>1. Fits(s, m, u, l, l)
      BY <2>6, <2>8, <2>9 DEF Fits
    <3>2. QED  BY <3>1, TalkGrows
  <2>11. Answers(Append(s, m), u) = Answers(s, u)
    BY <2>6, <2>10
  <2>12. talk' = Append(s, m)
    BY <2>1, <2>3, <2>6, <2>7
  <2>13. Answered = {} /\ Answered' = {}
    BY <2>2 DEF Answered
  <2>14. Answers(talk, turn) = {}
    BY <1>1, <2>2, <2>13 DEF AnswerInv
  <2>15. Answers(talk', turn') = {}
    BY <2>2, <2>3, <2>7, <2>11, <2>12, <2>14
  <2>16. Ordered(talk', turn') /\ Closed(talk', turn', Len(calls'))
    BY <2>1, <2>2, <2>3, <2>7, <2>10, <2>12
  <2>17. QED  BY <2>2, <2>13, <2>15, <2>16 DEF AnswerInv
<1>10. CASE Answering
  <2>1. /\ pc' = pc /\ pc \in {"prepare", "report"} /\ UNCHANGED <<turn, calls>> /\ next' = next + 1
    BY <1>1, <1>10, AnswerShape
  <2>2. /\ Answers(talk, turn) = Answered
        /\ Ordered(talk, turn) /\ Closed(talk, turn, Len(calls))
    BY <1>1, <2>1 DEF AnswerInv
  \* A result of call k, which had none.
  <2>3. ASSUME NEW k \in Nat, k \notin Answered, Answered' = Answered \union {k},
               NEW m \in Entries, NEW a \in Entries,
               m = Entry("tool", <<turn, k>>), a = Entry("attached", <<turn, k>>),
               talk' = Append(talk, m) \/ talk' = Append(Append(talk, m), a)
        PROVE  AnswerInv'
    <3>1. PICK new \in Seq(Entries) : new = talk'
      <4>1. PICK u \in Seq(Entries) : u = Append(talk, m)
        BY <1>3, AppendProperties
      <4>2. Append(u, a) \in Seq(Entries)
        BY AppendProperties
      <4>3. QED  BY <2>3, <4>1, <4>2
    <3>2. new = Append(talk, m) \/ new = Append(Append(talk, m), a)
      BY <2>3, <3>1
    <3>3. /\ Ordered(new, turn) /\ Closed(new, turn, Len(calls))
          /\ Answers(new, turn) = Answers(talk, turn) \union {k}
      <4>1. k \notin Answers(talk, turn)
        BY <2>2, <2>3
      <4>2. m = Entry("tool", <<turn, k>>) /\ a = Entry("attached", <<turn, k>>)
        BY <2>3
      <4>3. QED  BY <1>1, <3>2, <4>1, <4>2, ResultGrows
    <3>7. QED  BY <2>1, <2>2, <2>3, <3>1, <3>3 DEF AnswerInv
  <2>4. CASE pc = "prepare" /\ talk' # talk
    <3>1. PICK m \in Entries : m = Entry("tool", <<turn, next>>) /\ talk' = Append(talk, m)
      BY <1>1, <1>10, <2>4, AnswerShape
    <3>2. PICK a \in Entries : a = Entry("attached", <<turn, next>>)
      BY <1>2, EntryTypes
    <3>3. next \in DOMAIN calls /\ calls[next] # "runs"
      BY <1>1, <1>10, <2>4, AnswerShape
    <3>4. next \notin Answered /\ Answered' = Answered \union {next}
      BY <1>1, <2>1, <2>4, <3>3, AnsweredGrows
    <3>5. QED  BY <1>2, <2>3, <3>1, <3>2, <3>4
  <2>5. CASE pc = "prepare" /\ talk' = talk
    <3>2. next \in DOMAIN calls /\ calls[next] = "runs"
      <4>1. ASSUME NEW m \in Entries PROVE Append(talk, m) # talk
        <5>1. PICK s \in Seq(Entries) : s = talk
          BY <1>3
        <5>2. Len(Append(s, m)) = Len(s) + 1 /\ Len(s) \in Nat
          BY AppendProperties, LenProperties
        <5>3. Append(s, m) # s
          BY <5>2
        <5>4. QED  BY <5>1, <5>3
      <4>2. QED  BY <1>1, <1>10, <2>5, <4>1, AnswerShape
    <3>4. Answered' = Answered
      BY <1>1, <2>1, <2>5, <3>2, AnsweredGrows
    <3>5. QED  BY <2>1, <2>2, <2>5, <3>4 DEF AnswerInv
  <2>6. CASE pc = "report"
    <3>1. PICK m \in Entries, a \in Entries :
            /\ m = Entry("tool", <<turn, tasks[next].k>>) /\ a = Entry("attached", <<turn, tasks[next].k>>)
            /\ talk' = Append(talk, m) \/ talk' = Append(Append(talk, m), a)
      BY <1>1, <1>10, <2>6, AnswerShape
    <3>2. next \in DOMAIN tasks /\ tasks' = tasks
      BY <1>1, <1>10, <2>6, AnswerShape
    <3>3. PICK k \in Nat : k = tasks[next].k
      BY <1>2, <3>2
    <3>4. k \notin Answered /\ Answered' = Answered \union {k}
      BY <1>1, <2>1, <2>6, <3>2, <3>3, AnsweredGrows
    <3>6. QED  BY <2>3, <3>1, <3>3, <3>4
  <2>7. QED  BY <2>1, <2>4, <2>5, <2>6
<1>11. CASE Passes
  <2>1. /\ UNCHANGED <<turn, talk, events, calls>>
        /\ pc \notin {"over", "raised"} /\ pc' \notin {"over", "raised"}
        /\ pc' = "stream" => pc = "stream"
    BY <1>11 DEF Passes, Retry, NothingToRun, RunTools, Gathered, TurnOver, ToolEnds, Frame,
                 AllPrepared, AllEnded
  <2>2. Answered' = Answered
    <3>1. CASE Retry
      BY <3>1 DEF Retry, Answered
    <3>2. CASE NothingToRun
      <4>1. /\ pc = "prepare" /\ pc' = "turn" /\ calls' = calls /\ next = Len(calls) + 1 /\ tasks = <<>>
        BY <1>1, <1>2, <3>2 DEF NothingToRun, AllPrepared, Frame, Typed
      <4>2. DOMAIN tasks = {}
        BY <4>1
      <4>3. \A k \in 1..(next - 1) : calls[k] # "runs"
        BY <1>1, <4>1, <4>2 DEF TaskInv
      <4>4. Answered = 1..(next - 1) /\ Answered' = 1..Len(calls)
        BY <1>2, <4>1, <4>3 DEF Answered
      <4>5. QED  BY <1>2, <4>1, <4>4
    <3>3. CASE RunTools
      <4>1. pc = "prepare" /\ pc' = "gather" /\ calls' = calls /\ next = Len(calls) + 1
        BY <1>1, <1>2, <3>3 DEF RunTools, AllPrepared, Typed
      <4>2. 1..(next - 1) = DOMAIN calls
        BY <1>2, <4>1
      <4>3. QED  BY <4>1, <4>2 DEF Answered
    <3>4. CASE \E i \in 1..Len(tasks) : ToolEnds(i)
      BY <3>4 DEF ToolEnds, Answered
    <3>5. CASE Gathered
      <4>1. pc = "gather" /\ pc' = "report" /\ calls' = calls /\ next' = 1 /\ tasks' = tasks
        BY <3>5 DEF Gathered, AllEnded
      <4>2. 1..(next' - 1) = {}
        BY <4>1
      <4>3. {tasks'[i].k : i \in 1..(next' - 1)} = {}
        BY <4>2
      <4>4. QED  BY <4>1, <4>3 DEF Answered
    <3>6. CASE TurnOver
      <4>1. /\ pc = "report" /\ pc' = "turn" /\ calls' = calls /\ next = Len(tasks) + 1
        <5>1. next > Len(tasks) /\ next \in 1..(Len(tasks) + 1)
          BY <1>1, <3>6 DEF TurnOver, TaskInv
        <5>2. QED  BY <1>2, <3>6, <5>1 DEF TurnOver, Frame
      <4>2. 1..(next - 1) = DOMAIN tasks
        BY <1>2, <4>1
      <4>3. DOMAIN calls = {k \in DOMAIN calls : calls[k] # "runs"} \union {tasks[i].k : i \in DOMAIN tasks}
        BY <1>1, <4>1 DEF TaskInv
      <4>4. QED  BY <4>1, <4>2, <4>3 DEF Answered
    <3>7. QED  BY <1>11, <3>1, <3>2, <3>3, <3>4, <3>5, <3>6 DEF Passes
  <2>3. QED  BY <1>1, <2>1, <2>2 DEF AnswerInv
<1>12. CASE SetCancel \/ KillGather
  <2>1. UNCHANGED <<pc, turn, calls, next, tasks, talk, events>>
    BY <1>12 DEF SetCancel, KillGather, Frame
  <2>2. QED  BY <1>1, <2>1 DEF AnswerInv, Answered
<1>13. QED
  BY <1>1, <1>4, <1>5, <1>6, <1>7, <1>8, <1>9, <1>10, <1>11, <1>12 DEF StepKinds

-----------------------------------------------------------------------------
(* The properties.                                                           *)

LEMMA Inductive == Spec => []IInv
<1>1. Init => IInv
  BY InitTyped, InitFlow DEF IInv
<1>2. IInv /\ [Next]_vars => IInv'
  BY NextTyped, NextFlow, NextAnswer DEF IInv
<1>3. QED  BY <1>1, <1>2, PTL DEF Spec

\* Each variable keeps its type, and the tasks of a turn are calls of that turn
\* that are to be run, each once and in their order (the loop over tool_calls
\* and tools_to_execute).
THEOREM Typing == Spec => []TypeOK
<1>1. IInv => TypeOK
  <2>1. SUFFICES ASSUME Typed, TaskInv PROVE TypeOK
    BY DEF IInv
  <2>2. /\ \A i \in DOMAIN tasks : tasks[i] \in Tasks
        /\ \A i \in DOMAIN talk : talk[i] \in Entries
        /\ \A i \in DOMAIN events : events[i] \in Events
    BY <2>1, ElementOfSeq, LenProperties DEF Typed
  <2>3. ASSUME NEW i \in DOMAIN tasks
        PROVE  /\ tasks[i].k \in DOMAIN calls /\ calls[tasks[i].k] = "runs"
               /\ tasks[i].state \in {"ready", "running"} \union Outcomes
               /\ i > 1 => tasks[i - 1].k < tasks[i].k
    <3>1. i > 1 => i - 1 \in DOMAIN tasks /\ i - 1 < i
      BY <2>1, Sizes
    <3>2. QED  BY <2>1, <2>2, <3>1 DEF TaskInv, Tasks
  <2>4. \A i \in DOMAIN talk : talk[i].role \in {"assistant", "tool", "attached"}
    BY <2>2 DEF Entries
  <2>5. \A i \in DOMAIN events : events[i].type \in Types
    BY <2>2 DEF Events
  <2>6. QED  BY <2>1, <2>3, <2>4, <2>5 DEF Typed, TypeOK
<1>2. QED  BY <1>1, Inductive, PTL

\* When the model is called, each call it asked for has its one result, placed
\* before the model spoke again (_tool_turn's messages in conversation_messages).
THEOREM CallsGetAnswers == Spec => []CallsAnswered
<1>1. IInv => CallsAnswered
  <2>1. SUFFICES ASSUME Typed, AnswerInv, pc = "stream", NEW i \in DOMAIN talk,
                        talk[i].role = "assistant", NEW k \in 1..talk[i].call[2],
                        NEW result, result = Entry("tool", <<talk[i].call[1], k>>)
                 PROVE  \E j \in DOMAIN talk :
                          /\ talk[j] = result /\ i < j
                          /\ \A m \in {x \in (i + 1)..Len(talk) : talk[x].role = "assistant"} : j < m
                          /\ \A l \in DOMAIN talk : talk[l] = result => l = j
    BY DEF IInv, CallsAnswered
  <2>2. PICK n \in Nat : Len(talk) = n /\ DOMAIN talk = 1..n
    BY <2>1, LenProperties DEF Typed
  <2>3. \A x \in 1..n : talk[x] \in Entries
    BY <2>1, <2>2, ElementOfSeq DEF Typed
  <2>4. \A x \in 1..n : talk[x].call \in CallIds /\ talk[x].call[1] \in Nat /\ talk[x].call[2] \in Nat
    BY <2>3 DEF Entries, CallIds
  <2>5. PICK t \in Nat : t = talk[i].call[1] /\ t < turn
    BY <2>1, <2>2, <2>4 DEF AnswerInv
  <2>6. k \in Answers(talk, t)
    BY <2>1, <2>5 DEF AnswerInv, Closed
  <2>7. PICK j \in 1..n : talk[j].role = "tool" /\ talk[j].call = <<t, k>>
    BY <2>2, <2>6 DEF Answers
  <2>8. result.role = "tool" /\ result.call = <<t, k>> /\ talk[j] = result
    BY <2>1, <2>3, <2>5, <2>7 DEF Entry, Entries
  <2>9. talk[j].call[1] = t /\ i # j
    BY <2>1, <2>7
  <2>10. i < j
    BY <2>1, <2>2, <2>5, <2>9 DEF AnswerInv, Ordered
  <2>11. ASSUME NEW m \in (i + 1)..n, talk[m].role = "assistant" PROVE j < m
    <3>1. m \in 1..n /\ i < m
      BY <2>2, <2>11
    <3>2. talk[i].call[1] <= talk[m].call[1]
      BY <2>1, <2>2, <3>1 DEF AnswerInv, Ordered
    <3>3. talk[m].call[1] # t
      BY <2>1, <2>2, <2>5, <2>11, <3>1 DEF AnswerInv, Ordered
    <3>4. m < j => talk[m].call[1] <= talk[j].call[1]
      BY <2>1, <2>2, <3>1 DEF AnswerInv, Ordered
    <3>5. m # j
      BY <2>7, <2>11
    <3>6. QED  BY <2>4, <2>5, <2>9, <3>1, <3>2, <3>3, <3>4, <3>5
  <2>12. ASSUME NEW l \in 1..n, talk[l] = result PROVE l = j
    BY <2>1, <2>2, <2>7, <2>8, <2>12 DEF AnswerInv, Ordered
  <2>13. QED  BY <2>2, <2>8, <2>10, <2>11, <2>12
<1>2. QED  BY <1>1, Inductive, PTL

\* What ChatEventProcessor stores for the events of a run is what the model was
\* told in it, and the answer it stores is the text that was streamed.
THEOREM StoredIsTalk == Spec => []HistoryIsTalk
<1>1. IInv => HistoryIsTalk
  <2>1. SUFFICES ASSUME FlowInv PROVE HistoryIsTalk
    BY DEF IInv
  <2>2. Stored = talk
    BY <2>1, StoredIsStory DEF FlowInv, Flow
  <2>3. \A i \in DOMAIN events : events[i].type = "completed" =>
          events[i].said =
            Cardinality({j \in DOMAIN events : events[j].type = "delta" /\ events[j].call[1] = turn})
    BY <2>1 DEF FlowInv, Flow, Deltas
  <2>4. QED  BY <2>2, <2>3 DEF HistoryIsTalk
<1>2. QED  BY <1>1, Inductive, PTL

\* Once the cancel event is set no turn begins and no tool is run any more (the
\* looks at cancel_event before a turn and before the tools).
THEOREM CancelStopsWork == Spec => NoWorkAfterCancel
<1>1. [Next]_vars => [cancelled => turn' = turn /\ (pc # "gather" => pc' # "gather")]_vars
  <2>1. SUFFICES ASSUME [Next]_vars, cancelled PROVE turn' = turn /\ (pc # "gather" => pc' # "gather")
    OBVIOUS
  <2>2. CASE EndStep \/ RaiseStep
    BY <2>2 DEF EndStep, EndWith, RaiseStep, Frame
  <2>3. CASE UNCHANGED vars \/ SetCancel \/ KillGather
    BY <2>3 DEF vars, SetCancel, KillGather, Frame
  <2>4. CASE Start \/ BeginTurn \/ Chunk \/ AsksForTools
    BY <2>1, <2>4 DEF Start, BeginTurn, Chunk, AsksForTools, Frame
  <2>5. CASE Answering
    BY <2>5 DEF Answering, FailsAtOnce, Refused, Starts, Prepared, Report
  <2>6. CASE Passes
    BY <2>1, <2>6 DEF Passes, Retry, NothingToRun, RunTools, Gathered, TurnOver, ToolEnds, Frame
  <2>7. QED  BY <2>1, <2>2, <2>3, <2>4, <2>5, <2>6, NextKinds DEF StepKinds
<1>2. QED  BY <1>1, PTL DEF Spec, NoWorkAfterCancel

-----------------------------------------------------------------------------
(* The events keep the contract.                                             *)

Signals(s) == [i \in DOMAIN s |-> Signal(s[i])]

\* The calls the events of a type name, and the announced ones without a result.
Told(s, type) == Contract!Named(Signals(s), type, Len(s))

Open(s) == Told(s, "assistant_with_tools") \ Told(s, "tool_completed")

LEMMA SignalIs ==
  ASSUME NEW e \in Events
  PROVE  /\ Signal(e).type = e.type
         /\ e.type = "assistant_with_tools" => Signal(e).calls = {<<e.call[1], k>> : k \in 1..e.call[2]}
         /\ e.type \in {"tool_started", "tool_completed"} => Signal(e).calls = {e.call}
         /\ e.type \notin {"assistant_with_tools", "tool_started", "tool_completed"} => Signal(e).calls = {}
<1> DEFINE S == CASE e.type = "assistant_with_tools" -> {<<e.call[1], k>> : k \in 1..e.call[2]}
                  [] e.type \in {"tool_started", "tool_completed"} -> {e.call}
                  [] OTHER -> {}
<1>1. Signal(e).type = e.type /\ Signal(e).calls = S
  BY DEF Signal
<1>2. QED  BY <1>1

LEMMA ToldHas ==
  ASSUME NEW s \in Seq(Events), NEW type, NEW c
  PROVE  c \in Told(s, type) <=> \E j \in 1..Len(s) : s[j].type = type /\ c \in Signal(s[j]).calls
<1>1. DOMAIN s = 1..Len(s)
  BY LenProperties
<1>2. \A j \in 1..Len(s) : Signals(s)[j] = Signal(s[j]) /\ Signal(s[j]).type = s[j].type
  <2>1. \A j \in 1..Len(s) : s[j] \in Events
    BY ElementOfSeq
  <2>2. QED  BY <1>1, <2>1, SignalIs DEF Signals
<1>3. QED  BY <1>2 DEF Told, Contract!Named

\* What the contract sees of t up to s is what s tells.
LEMMA ToldSoFar ==
  ASSUME NEW s \in Seq(Events), NEW t \in Seq(Events), Len(s) <= Len(t),
         \A j \in 1..Len(s) : t[j] = s[j], NEW type
  PROVE  Contract!Named(Signals(t), type, Len(s)) = Told(s, type)
<1>1. \A j \in 1..Len(s) : Signals(t)[j] = Signals(s)[j]
  BY LenProperties DEF Signals
<1>2. QED  BY <1>1 DEF Told, Contract!Named

LEMMA ToldGrows ==
  ASSUME NEW s \in Seq(Events), NEW e \in Events, NEW type
  PROVE  Told(Append(s, e), type) = Told(s, type) \union (IF e.type = type THEN Signal(e).calls ELSE {})
<1>1. PICK u \in Seq(Events) : u = Append(s, e)
  BY AppendProperties
<1>2. PICK l \in Nat : /\ Len(s) = l /\ Len(u) = l + 1
                       /\ u[l + 1] = e /\ \A i \in 1..l : u[i] = s[i]
  BY <1>1, AppendProperties, LenProperties
<1>3. \A c : c \in Told(u, type) <=> c \in Told(s, type) \/ (e.type = type /\ c \in Signal(e).calls)
  <2>1. TAKE c
  <2>2. c \in Told(u, type) <=> \E j \in 1..(l + 1) : u[j].type = type /\ c \in Signal(u[j]).calls
    BY <1>2, ToldHas
  <2>3. c \in Told(s, type) <=> \E j \in 1..l : s[j].type = type /\ c \in Signal(s[j]).calls
    BY <1>2, ToldHas
  <2>4. \A j \in 1..(l + 1) : j \in 1..l \/ j = l + 1
    BY <1>2
  <2>5. QED  BY <1>2, <2>2, <2>3, <2>4
<1>4. QED  BY <1>1, <1>3

\* The event e may follow those of s.
Fitting(s, e) ==
  /\ e.type = "run_started" <=> s = <<>>
  /\ \A j \in DOMAIN s : s[j].type \notin Endings
  /\ e.type = "assistant_with_tools" =>
       /\ Open(s) = {} /\ Signal(e).calls # {}
       /\ Signal(e).calls \intersect Told(s, "assistant_with_tools") = {}
  /\ e.type \in {"tool_started", "tool_completed"} => e.call \in Open(s)
  /\ e.type = "tool_started" => e.call \notin Told(s, "tool_started")
  /\ e.type = "completed" => Open(s) = {}

LEMMA FittingIsPermitted ==
  ASSUME NEW s \in Seq(Events), NEW t \in Seq(Events), NEW i \in 1..Len(t), Len(s) = i - 1,
         \A j \in 1..Len(s) : t[j] = s[j], Fitting(s, t[i])
  PROVE  Contract!Permitted(Signals(t), i)
<1>1. Len(s) \in Nat /\ Len(t) \in Nat /\ DOMAIN s = 1..Len(s) /\ DOMAIN t = 1..Len(t) /\ i \in Nat
  BY LenProperties
<1>2. \A type : Contract!Named(Signals(t), type, i - 1) = Told(s, type)
  BY <1>1, ToldSoFar
<1>3. Contract!Owed(Signals(t), i - 1) = Open(s)
  BY <1>2 DEF Contract!Owed, Open
<1>4. s = <<>> <=> i = 1
  BY <1>1, EmptySeq
<1>5. \A j \in 1..i : Signals(t)[j] = Signal(t[j]) /\ t[j] \in Events /\ Signal(t[j]).type = t[j].type
  <2>1. \A j \in 1..i : j \in DOMAIN t /\ t[j] \in Events
    BY <1>1, ElementOfSeq
  <2>2. QED  BY <2>1, SignalIs DEF Signals
<1>6. i \in 1..i
  BY <1>1
<1>7. PICK e \in Events : e = t[i] /\ Signals(t)[i] = Signal(e) /\ Signal(e).type = e.type
  BY <1>5, <1>6
<1>8. \A j \in 1..(i - 1) : Signals(t)[j].type = s[j].type
  BY <1>1, <1>5
<1>9. e.type \in {"tool_started", "tool_completed"} => Signal(e).calls = {e.call}
  BY SignalIs
<1>10. Fitting(s, e)
  BY <1>7
<1>11. \A j \in 1..(i - 1) : Signals(t)[j].type \notin Contract!Endings
  BY <1>1, <1>8, <1>10 DEF Fitting, Endings, Contract!Endings
<1>12. QED
  BY <1>2, <1>3, <1>4, <1>7, <1>9, <1>10, <1>11 DEF Fitting, Contract!Permitted

LEMMA SignalsLen == ASSUME NEW s \in Seq(Events) PROVE Len(Signals(s)) = Len(s)
<1> DEFINE T == {Signal(e) : e \in Events}
<1>1. PICK l \in Nat : Len(s) = l /\ DOMAIN s = 1..l /\ \A i \in 1..l : s[i] \in Events
  BY LenProperties, ElementOfSeq
<1>2. Signals(s) \in [1..l -> T]
  BY <1>1 DEF Signals
<1>3. Signals(s) \in Seq(T) /\ DOMAIN Signals(s) = 1..l
  BY <1>1, <1>2, SeqDef
<1> HIDE DEF T
<1>4. QED  BY <1>1, <1>3, LenProperties

LEMMA HeardIs == Heard = Signals(events) /\ Heard' = Signals(events')
BY DEF Heard, Signals

LEMMA SaysOne ==
  ASSUME pc # "raised", pc' # "raised", events \in Seq(Events), NEW e \in Events,
         events' = Append(events, e), Fitting(events, e)
  PROVE  Contract!Say
<1>1. PICK s \in Seq(Events), t \in Seq(Events) : s = events /\ t = Append(s, e)
  BY AppendProperties
<1>2. PICK l \in Nat : /\ Len(s) = l /\ Len(t) = l + 1 /\ DOMAIN s = 1..l /\ DOMAIN t = 1..(l + 1)
                       /\ t[l + 1] = e /\ \A i \in 1..l : t[i] = s[i]
  BY <1>1, AppendProperties, LenProperties
<1>3. Contract!Permitted(Signals(t), l + 1)
  <2>1. l + 1 \in 1..Len(t) /\ Len(s) = (l + 1) - 1 /\ Fitting(s, t[l + 1])
    BY <1>1, <1>2
  <2>2. \A j \in 1..Len(s) : t[j] = s[j]
    BY <1>2
  <2>3. QED  BY <2>1, <2>2, FittingIsPermitted
<1>4. /\ DOMAIN Signals(s) = 1..l /\ DOMAIN Signals(t) = 1..(l + 1)
      /\ \A i \in 1..l : Signals(t)[i] = Signals(s)[i]
  BY <1>2 DEF Signals
<1>5. Len(Signals(s)) = l /\ Len(Signals(t)) = l + 1
  BY <1>2, SignalsLen
<1>6. \A i \in (l + 1)..(l + 1) : Contract!Permitted(Signals(t), i)
  BY <1>2, <1>3
<1>7. Heard = Signals(s) /\ Heard' = Signals(t)
  BY <1>1, HeardIs
<1>8. QED  BY <1>2, <1>4, <1>5, <1>6, <1>7 DEF Contract!Say

LEMMA SaysTwo ==
  ASSUME pc # "raised", pc' # "raised", events \in Seq(Events), NEW d \in Events, NEW e \in Events,
         events' = Append(Append(events, d), e),
         Fitting(events, d), Fitting(Append(events, d), e)
  PROVE  Contract!Say
<1>1. PICK s \in Seq(Events), u \in Seq(Events), t \in Seq(Events) :
        s = events /\ u = Append(s, d) /\ t = Append(u, e)
  BY AppendProperties
<1>2. PICK l \in Nat : /\ Len(s) = l /\ DOMAIN s = 1..l
                       /\ Len(u) = l + 1 /\ u[l + 1] = d /\ \A i \in 1..l : u[i] = s[i]
  BY <1>1, AppendProperties, LenProperties
<1>3. /\ Len(t) = l + 2 /\ DOMAIN t = 1..(l + 2) /\ t[l + 2] = e
      /\ \A i \in 1..(l + 1) : t[i] = u[i]
  BY <1>1, <1>2, AppendProperties, LenProperties
<1>4. Contract!Permitted(Signals(t), l + 1)
  <2>1. l + 1 \in 1..Len(t) /\ Len(s) = (l + 1) - 1 /\ Fitting(s, t[l + 1])
    BY <1>1, <1>2, <1>3
  <2>2. \A j \in 1..Len(s) : t[j] = s[j]
    BY <1>2, <1>3
  <2>3. QED  BY <2>1, <2>2, FittingIsPermitted
<1>5. Contract!Permitted(Signals(t), l + 2)
  <2>1. l + 2 \in 1..Len(t) /\ Len(u) = (l + 2) - 1 /\ Fitting(u, t[l + 2])
    BY <1>1, <1>2, <1>3
  <2>2. \A j \in 1..Len(u) : t[j] = u[j]
    BY <1>2, <1>3
  <2>3. QED  BY <2>1, <2>2, FittingIsPermitted
<1>6. /\ DOMAIN Signals(s) = 1..l /\ DOMAIN Signals(t) = 1..(l + 2)
      /\ \A i \in 1..l : Signals(t)[i] = Signals(s)[i]
  BY <1>2, <1>3 DEF Signals
<1>7. Len(Signals(s)) = l /\ Len(Signals(t)) = l + 2
  BY <1>2, <1>3, SignalsLen
<1>8. \A i \in (l + 1)..(l + 2) : Contract!Permitted(Signals(t), i)
  <2>1. \A i \in (l + 1)..(l + 2) : i = l + 1 \/ i = l + 2
    BY <1>2
  <2>2. QED  BY <1>4, <1>5, <2>1
<1>9. Heard = Signals(s) /\ Heard' = Signals(t)
  BY <1>1, HeardIs
<1>10. QED  BY <1>2, <1>6, <1>7, <1>8, <1>9 DEF Contract!Say

LEMMA OpenGrows ==
  ASSUME NEW s \in Seq(Events), NEW e \in Events
  PROVE  /\ e.type = "tool_completed" => Open(Append(s, e)) = Open(s) \ {e.call}
         /\ e.type \notin {"assistant_with_tools", "tool_completed"} => Open(Append(s, e)) = Open(s)
         /\ e.type = "assistant_with_tools" /\ Open(s) = {}
              /\ Signal(e).calls \intersect Told(s, "tool_completed") = {}
            => Open(Append(s, e)) = Signal(e).calls
<1>1. PICK u : u = Append(s, e)
  OBVIOUS
<1>2. /\ Told(u, "assistant_with_tools") = Told(s, "assistant_with_tools")
           \union (IF e.type = "assistant_with_tools" THEN Signal(e).calls ELSE {})
      /\ Told(u, "tool_completed") = Told(s, "tool_completed")
           \union (IF e.type = "tool_completed" THEN Signal(e).calls ELSE {})
  BY <1>1, ToldGrows
<1>3. e.type = "tool_completed" => Signal(e).calls = {e.call}
  BY SignalIs
<1>4. QED  BY <1>1, <1>2, <1>3 DEF Open

\* The calls of the turn whose results are missing.
Missing(c, t, done) == {<<t, k>> : k \in DOMAIN c \ done}

\* What the consumers have heard is what the run is about: the calls they miss
\* are those of this turn that are not answered, none of which was heard before.
HeardInv ==
  /\ pc = "stream" =>
       \A i \in DOMAIN events :
         events[i].type \in {"assistant_with_tools", "tool_started", "tool_completed"} =>
           events[i].call[1] < turn
  /\ pc = "prepare" =>
       \A i \in DOMAIN events, k \in Nat :
         events[i].type = "tool_started" /\ events[i].call = <<turn, k>> => k < next
  /\ pc \notin {"over", "raised"} => Open(events) = Missing(calls, turn, Answered)

LEMMA InitHeard == Init => HeardInv /\ Contract!Init
<1>1. SUFFICES ASSUME Init PROVE HeardInv /\ Contract!Init
  OBVIOUS
<1>2. pc = "start"
  BY <1>1 DEF Init
<1>3. calls = <<>>
  BY <1>1 DEF Init
<1>4. events = <<>>
  BY <1>1 DEF Init
<1>5. <<>> \in Seq(Events) /\ Len(<<>>) = 0 /\ DOMAIN <<>> = {}
  BY EmptySeq
<1>6. Open(events) = {}
  <2>1. PICK s \in Seq(Events) : s = events /\ Len(s) = 0
    BY <1>4, <1>5
  <2>2. ASSUME NEW c PROVE c \notin Told(s, "assistant_with_tools")
    <3>1. c \in Told(s, "assistant_with_tools") =>
            \E j \in 1..Len(s) : s[j].type = "assistant_with_tools" /\ c \in Signal(s[j]).calls
      BY ToldHas
    <3>2. ~\E j \in 1..Len(s) : TRUE
      BY <2>1
    <3>3. QED  BY <3>1, <3>2
  <2>3. QED  BY <2>1, <2>2 DEF Open
<1>7. Missing(calls, turn, Answered) = {}
  BY <1>3, <1>5 DEF Missing
<1>8. Heard = <<>>
  BY <1>4, <1>5 DEF Heard
<1>9. QED  BY <1>2, <1>6, <1>7, <1>8 DEF HeardInv, Contract!Init

\* A result or a start that the run is about to tell is one the contract permits.
LEMMA CallFits ==
  ASSUME NEW s \in Seq(Events), s # <<>>, \A i \in DOMAIN s : s[i].type \notin Endings,
         NEW e \in Events, NEW t \in Nat, NEW k \in Nat,
         e.type \in {"tool_started", "tool_completed"}, e.call = <<t, k>>, <<t, k>> \in Open(s),
         e.type = "tool_started" =>
           \A i \in DOMAIN s : ~(s[i].type = "tool_started" /\ s[i].call = <<t, k>>)
  PROVE  Fitting(s, e)
<1>1. ASSUME e.type = "tool_started" PROVE <<t, k>> \notin Told(s, "tool_started")
  <2>1. SUFFICES ASSUME <<t, k>> \in Told(s, "tool_started") PROVE FALSE
    OBVIOUS
  <2>2. PICK j \in 1..Len(s) : s[j].type = "tool_started" /\ <<t, k>> \in Signal(s[j]).calls
    BY <2>1, ToldHas
  <2>3. j \in DOMAIN s /\ s[j] \in Events
    BY ElementOfSeq, LenProperties
  <2>4. Signal(s[j]).calls = {s[j].call}
    BY <2>2, <2>3, SignalIs
  <2>5. QED  BY <1>1, <2>2, <2>3, <2>4
<1>2. QED  BY <1>1 DEF Fitting, Endings

LEMMA NextHeard ==
  ASSUME Typed, TaskInv, FlowInv, AnswerInv, HeardInv, Typed', FlowInv', AnswerInv', StepKinds
  PROVE  HeardInv' /\ [Contract!Next]_(Contract!vars)
<1>1. /\ turn \in Nat /\ next \in Nat /\ events \in Seq(Events) /\ DOMAIN <<>> = {}
      /\ events # <<>> <=> pc # "start"
      /\ pc # "over" => \A i \in DOMAIN events : events[i].type \notin Endings
  BY Sizes DEF Typed, FlowInv
<1>2. pc \notin {"over", "raised"} => Open(events) = Missing(calls, turn, Answered)
  BY DEF HeardInv
\* A step that says nothing and leaves the answered calls alone.
<1>3. ASSUME UNCHANGED <<turn, calls, events>>, pc \notin {"over", "raised"},
             pc' \notin {"over", "raised"}, Answered' = Answered,
             pc' = "stream" => pc = "stream", pc' = "prepare" => pc = "prepare" /\ next' = next
      PROVE  HeardInv' /\ [Contract!Next]_(Contract!vars)
  <2>1. HeardInv'
    BY <1>2, <1>3 DEF HeardInv
  <2>2. UNCHANGED Contract!vars
    <3>1. Heard' = Heard /\ (pc' = "raised" <=> pc = "raised")
      BY <1>3 DEF Heard
    <3>2. QED  BY <3>1 DEF Contract!vars
  <2>3. QED  BY <2>1, <2>2
<1>4. CASE UNCHANGED vars
  <2>1. UNCHANGED <<pc, turn, calls, next, tasks, events>>
    BY <1>4 DEF vars
  <2>2. Answered' = Answered
    BY <2>1 DEF Answered
  <2>3. HeardInv'
    BY <2>1, <2>2 DEF HeardInv
  <2>4. UNCHANGED Contract!vars
    BY <2>1 DEF Contract!vars, Heard
  <2>5. QED  BY <2>3, <2>4
<1>5. CASE EndStep
  <2>1. PICK type \in Endings, e \in Events :
          /\ type = "completed" => pc = "stream"
          /\ e.type = type /\ events' = Append(events, e) /\ pc' = "over"
    BY <1>5, EndShape
  <2>2. pc \notin {"start", "over", "raised"}
    BY <1>5 DEF EndStep
  <2>3. type = "completed" => Open(events) = {}
    <3>1. pc = "stream" => calls = <<>>
      BY DEF TaskInv
    <3>2. calls = <<>> => Missing(calls, turn, Answered) = {}
      BY <1>1 DEF Missing
    <3>3. QED  BY <1>2, <2>1, <2>2, <3>1, <3>2
  <2>4. Fitting(events, e)
    BY <1>1, <2>1, <2>2, <2>3 DEF Fitting, Endings
  <2>5. Contract!Say
    BY <1>1, <2>1, <2>2, <2>4, SaysOne
  <2>6. QED  BY <2>1, <2>5 DEF HeardInv, Contract!Next
<1>6. CASE RaiseStep
  <2>1. pc \notin {"start", "over", "raised"} /\ pc' = "raised" /\ events' = events
    BY <1>6 DEF RaiseStep, Frame
  <2>2. PICK l \in Nat : Len(events) = l /\ DOMAIN events = 1..l /\ l # 0
    BY <1>1, <2>1, EmptySeq, LenProperties
  <2>3. /\ Len(Heard) = l /\ Heard[l].type = events[l].type
    <3>1. l \in DOMAIN events /\ events[l] \in Events
      BY <1>1, <2>2, ElementOfSeq
    <3>2. QED  BY <1>1, <2>2, <3>1, HeardIs, SignalsLen, SignalIs DEF Heard
  <2>4. events[l].type \notin Contract!Endings
    BY <1>1, <2>1, <2>2 DEF Endings, Contract!Endings
  <2>5. Heard # <<>>
    BY <2>2, <2>3, EmptySeq
  <2>6. Contract!Raise
    BY <2>1, <2>3, <2>4, <2>5, HeardIs DEF Contract!Raise
  <2>7. QED  BY <2>1, <2>6 DEF HeardInv, Contract!Next
<1>7. CASE Start
  <2>1. "run_started" \in Types
    BY DEF Types
  <2>2. PICK e \in Events : e = Event("run_started", <<0, 0>>) /\ e.type = "run_started"
    BY <2>1, EventType
  <2>3. /\ pc = "start" /\ pc' = "turn" /\ events' = Append(events, e)
        /\ UNCHANGED <<turn, calls>>
    BY <1>7, <2>2 DEF Start, Emit, NoCall, Frame
  <2>4. Fitting(events, e)
    BY <1>1, <2>2, <2>3 DEF Fitting
  <2>5. Contract!Say
    BY <1>1, <2>2, <2>3, <2>4, SaysOne
  <2>6. Open(events') = Open(events)
    BY <1>1, <2>2, <2>3, OpenGrows
  <2>7. calls = <<>>
    BY <2>3 DEF TaskInv
  <2>8. Missing(calls, turn, Answered) = {} /\ Missing(calls', turn', Answered') = {}
    BY <1>1, <2>3, <2>7 DEF Missing
  <2>9. HeardInv'
    BY <1>2, <2>3, <2>6, <2>8 DEF HeardInv
  <2>10. QED  BY <2>5, <2>9 DEF Contract!Next
<1>8. CASE BeginTurn
  <2>1. /\ pc = "turn" /\ pc' = "stream" /\ turn' = turn + 1 /\ calls' = <<>> /\ events' = events
    BY <1>8 DEF BeginTurn
  <2>2. Open(events) = {}
    <3>1. Answered = DOMAIN calls
      BY <2>1 DEF Answered
    <3>2. QED  BY <1>2, <2>1, <3>1 DEF Missing
  <2>3. Missing(calls', turn', Answered') = {}
    BY <1>1, <2>1 DEF Missing
  <2>4. \A i \in DOMAIN events : events[i].call[1] < turn'
    <3>1. \A i \in DOMAIN events : events[i] \in Events
      BY <1>1, ElementOfSeq, LenProperties
    <3>2. \A i \in DOMAIN events : events[i].call[1] \in Nat /\ events[i].call[1] <= turn
      BY <3>1 DEF FlowInv, Flow, Events, CallIds
    <3>3. QED  BY <1>1, <2>1, <3>2
  <2>5. HeardInv'
    BY <2>1, <2>2, <2>3, <2>4 DEF HeardInv
  <2>6. UNCHANGED Contract!vars
    <3>1. Heard' = Heard /\ (pc' = "raised" <=> pc = "raised")
      BY <2>1 DEF Heard
    <3>2. QED  BY <3>1 DEF Contract!vars
  <2>7. QED  BY <2>5, <2>6
<1>9. CASE Chunk
  <2>1. "delta" \in Types
    BY DEF Types
  <2>2. PICK e \in Events : e = Event("delta", <<turn, 0>>) /\ e.type = "delta"
    <3>1. turn \in Nat /\ 0 \in Nat
      BY <1>1
    <3>2. QED  BY <2>1, <3>1, EventType
  <2>3. /\ pc = "stream" /\ pc' = "stream" /\ events' = Append(events, e)
        /\ UNCHANGED <<turn, calls>>
    BY <1>9, <2>2 DEF Chunk, Emit
  <2>4. Fitting(events, e)
    BY <1>1, <2>2, <2>3 DEF Fitting
  <2>5. Contract!Say
    BY <1>1, <2>2, <2>3, <2>4, SaysOne
  <2>6. Open(events') = Open(events)
    BY <1>1, <2>2, <2>3, OpenGrows
  <2>7. Answered' = Answered
    BY <2>3 DEF Answered
  <2>8. \A i \in DOMAIN events' : (i \in DOMAIN events /\ events'[i] = events[i]) \/ events'[i] = e
    BY <1>1, <2>3, OneMore
  <2>9. HeardInv'
    BY <1>2, <2>2, <2>3, <2>6, <2>7, <2>8 DEF HeardInv
  <2>10. QED  BY <2>5, <2>9 DEF Contract!Next
<1>10. CASE AsksForTools
  <2>1. PICK t \in ToolTurns :
          /\ calls' = t
          /\ events' = Append(events, [Event("assistant_with_tools", <<turn, Len(t)>>) EXCEPT !.said = said])
    BY <1>10 DEF AsksForTools, Emit
  <2>2. Len(t) \in Nat \ {0} /\ DOMAIN t = 1..Len(t) /\ "assistant_with_tools" \in Types
    BY ToolTurnsAssumption, LenProperties, EmptySeq DEF Types
  <2>3. PICK e \in Events : /\ e = [Event("assistant_with_tools", <<turn, Len(t)>>) EXCEPT !.said = said]
                            /\ e.type = "assistant_with_tools" /\ e.call = <<turn, Len(t)>>
    <3>1. turn \in Nat /\ said \in Nat /\ Len(t) \in Nat
      BY <1>1, <2>2, BoundsAssumption DEF Typed
    <3>2. PICK e : SaidEvent(e, "assistant_with_tools", turn, Len(t), said)
      BY <2>2, <3>1, SaidEventType
    <3>3. QED  BY <3>2 DEF SaidEvent
  <2>4. pc = "stream" /\ pc' = "prepare" /\ turn' = turn /\ next' = 1 /\ events' = Append(events, e)
    BY <1>10, <2>1, <2>3 DEF AsksForTools
  <2>5. Open(events) = {}
    <3>1. calls = <<>>
      BY <2>4 DEF TaskInv
    <3>2. QED  BY <1>1, <1>2, <2>4, <3>1 DEF Missing
  <2>6. Signal(e).calls = {<<turn, k>> : k \in 1..Len(t)}
    <3>1. e.call[1] = turn /\ e.call[2] = Len(t)
      BY <2>3
    <3>2. Signal(e).calls = {<<e.call[1], k>> : k \in 1..e.call[2]}
      BY <2>3, SignalIs
    <3>3. QED  BY <3>1, <3>2
  <2>7. ASSUME NEW type \in {"assistant_with_tools", "tool_completed"}, NEW k \in Nat
        PROVE  <<turn, k>> \notin Told(events, type)
    <3>1. SUFFICES ASSUME <<turn, k>> \in Told(events, type) PROVE FALSE
      OBVIOUS
    <3>2. PICK j \in 1..Len(events) : events[j].type = type /\ <<turn, k>> \in Signal(events[j]).calls
      BY <1>1, <3>1, ToldHas
    <3>3. PICK d \in Events : d = events[j] /\ j \in DOMAIN events
      BY <1>1, ElementOfSeq, LenProperties
    <3>4. d.call[1] < turn
      BY <2>4, <3>2, <3>3 DEF HeardInv
    <3>5. d.call[1] \in Nat
      BY DEF Events, CallIds
    <3>6. d.call[1] = turn
      <4>1. CASE type = "assistant_with_tools"
        BY <3>2, <3>3, <4>1, SignalIs
      <4>2. CASE type = "tool_completed"
        <5>1. d.call = <<turn, k>>
          BY <3>2, <3>3, <4>2, SignalIs
        <5>2. QED  BY <5>1
      <4>3. QED  BY <4>1, <4>2
    <3>7. QED  BY <1>1, <3>4, <3>5, <3>6
  <2>8. /\ Signal(e).calls \intersect Told(events, "assistant_with_tools") = {}
        /\ Signal(e).calls \intersect Told(events, "tool_completed") = {}
    BY <2>2, <2>6, <2>7
  <2>9. Signal(e).calls # {}
    <3>1. <<turn, 1>> \in Signal(e).calls
      BY <2>2, <2>6
    <3>2. QED  BY <3>1
  <2>10. Fitting(events, e)
    BY <1>1, <2>3, <2>4, <2>5, <2>8, <2>9 DEF Fitting
  <2>11. Contract!Say
    BY <1>1, <2>4, <2>10, SaysOne
  <2>12. Open(events') = Missing(calls', turn', Answered')
    <3>1. Answered' = {}
      BY <2>4 DEF Answered
    <3>2. Open(events') = Signal(e).calls
      BY <1>1, <2>3, <2>4, <2>5, <2>8, OpenGrows
    <3>3. QED  BY <2>1, <2>2, <2>4, <2>6, <3>1, <3>2 DEF Missing
  <2>13. \A i \in DOMAIN events' : (i \in DOMAIN events /\ events'[i] = events[i]) \/ events'[i] = e
    BY <1>1, <2>4, OneMore
  <2>14. ASSUME NEW i \in DOMAIN events', NEW k \in Nat,
                events'[i].type = "tool_started", events'[i].call = <<turn, k>>
         PROVE  FALSE
    <3>1. i \in DOMAIN events /\ events'[i] = events[i]
      BY <2>3, <2>13, <2>14
    <3>2. events[i].type = "tool_started" /\ events[i].call = <<turn, k>>
      BY <2>14, <3>1
    <3>3. events[i].call[1] < turn /\ events[i].call[1] = turn
      BY <2>4, <3>1, <3>2 DEF HeardInv
    <3>4. QED  BY <1>1, <3>3
  <2>15. HeardInv'
    BY <2>4, <2>12, <2>14 DEF HeardInv
  <2>16. QED  BY <2>11, <2>15 DEF Contract!Next
<1>11. CASE Answering
  <2>1. /\ pc' = pc /\ pc \in {"prepare", "report"} /\ UNCHANGED <<turn, calls>> /\ next' = next + 1
        /\ pc = "report" => tasks' = tasks
    BY <1>11, AnswerShape
  <2>2. events # <<>> /\ \A i \in DOMAIN events : events[i].type \notin Endings
    BY <1>1, <2>1
  \* The start of the call that is prepared.
  <2>3. ASSUME pc = "prepare", NEW d \in Events, d.type = "tool_started", d.call = <<turn, next>>,
               next \in DOMAIN calls
        PROVE  /\ Fitting(events, d) /\ Append(events, d) \in Seq(Events)
               /\ Append(events, d) # <<>> /\ Open(Append(events, d)) = Open(events)
               /\ \A i \in DOMAIN Append(events, d) :
                    (i \in DOMAIN events /\ Append(events, d)[i] = events[i]) \/ Append(events, d)[i] = d
               /\ <<turn, next>> \in Open(events)
    <3>1. next \notin Answered
      BY <1>1, <2>3 DEF Answered
    <3>2. <<turn, next>> \in Open(events)
      BY <1>2, <2>3, <3>1 DEF Missing
    <3>3. \A i \in DOMAIN events :
            ~(events[i].type = "tool_started" /\ events[i].call = <<turn, next>>)
      BY <1>1, <2>3 DEF HeardInv
    <3>4. Fitting(events, d)
      BY <1>1, <2>2, <2>3, <3>2, <3>3, CallFits
    <3>5. Open(Append(events, d)) = Open(events)
      BY <1>1, <2>3, OpenGrows
    <3>6. QED  BY <1>1, <3>2, <3>4, <3>5, OneMore
  \* What was said before and the start of this call are behind the next.
  <2>4. ASSUME NEW e \in Events, NEW d \in Events, pc = "prepare",
               \A i \in DOMAIN events' : (i \in DOMAIN events /\ events'[i] = events[i])
                                           \/ events'[i] = d \/ events'[i] = e,
               d.call = <<turn, next>>, e.call = <<turn, next>>
        PROVE  \A i \in DOMAIN events', k \in Nat :
                 events'[i].type = "tool_started" /\ events'[i].call = <<turn, k>> => k < next + 1
    BY <1>1, <2>4 DEF HeardInv
  \* A result, behind s.
  <2>5. ASSUME NEW s \in Seq(Events), s # <<>>, \A i \in DOMAIN s : s[i].type \notin Endings,
               Open(s) = Open(events), NEW e \in Events, NEW k \in Nat, e.type = "tool_completed",
               e.call = <<turn, k>>, k \in DOMAIN calls, k \notin Answered
        PROVE  /\ Fitting(s, e)
               /\ Open(Append(s, e)) = Missing(calls, turn, Answered \union {k})
    <3>1. <<turn, k>> \in Open(s)
      BY <1>2, <2>1, <2>5 DEF Missing
    <3>2. Fitting(s, e)
      BY <1>1, <2>5, <3>1, CallFits
    <3>3. Open(Append(s, e)) = Open(s) \ {<<turn, k>>}
      <4>1. Open(Append(s, e)) = Open(s) \ {e.call}
        BY <2>5, OpenGrows
      <4>2. QED  BY <2>5, <4>1
    <3>4. QED  BY <1>2, <2>1, <2>5, <3>2, <3>3 DEF Missing
  <2>6. CASE pc = "prepare" /\ calls[next] # "runs"
    <3>1. PICK e \in Events, d \in Events :
            /\ next \in DOMAIN calls
            /\ e.type = "tool_completed" /\ e.call = <<turn, next>>
            /\ d.type = "tool_started" /\ d.call = <<turn, next>>
            /\ \/ events' = Append(events, e)
               \/ events' = Append(Append(events, d), e)
      BY <1>11, <2>6, AnswerShape
    <3>2. next \notin Answered /\ Answered' = Answered \union {next}
      BY <2>1, <2>6, <3>1, AnsweredGrows
    <3>3. CASE events' = Append(events, e)
      <4>1. Fitting(events, e) /\ Open(events') = Missing(calls, turn, Answered')
        BY <1>1, <2>2, <2>5, <3>1, <3>2, <3>3
      <4>2. Contract!Say
        BY <1>1, <2>1, <3>3, <4>1, SaysOne
      <4>3. \A i \in DOMAIN events' : (i \in DOMAIN events /\ events'[i] = events[i]) \/ events'[i] = e
        BY <1>1, <3>3, OneMore
      <4>4. HeardInv'
        BY <2>1, <2>4, <2>6, <3>1, <4>1, <4>3 DEF HeardInv
      <4>5. QED  BY <4>2, <4>4 DEF Contract!Next
    <3>4. CASE events' = Append(Append(events, d), e)
      <4>1. PICK s \in Seq(Events) :
              /\ s = Append(events, d) /\ Fitting(events, d) /\ s # <<>> /\ Open(s) = Open(events)
              /\ \A i \in DOMAIN s : (i \in DOMAIN events /\ s[i] = events[i]) \/ s[i] = d
        BY <2>3, <2>6, <3>1
      <4>2. \A i \in DOMAIN s : s[i].type \notin Endings
        BY <2>2, <3>1, <4>1 DEF Endings
      <4>3. Fitting(s, e) /\ Open(Append(s, e)) = Missing(calls, turn, Answered')
        BY <1>1, <2>5, <3>1, <3>2, <4>1, <4>2
      <4>4. Contract!Say
        BY <1>1, <2>1, <3>4, <4>1, <4>3, SaysTwo
      <4>5. \A i \in DOMAIN events' : (i \in DOMAIN s /\ events'[i] = s[i]) \/ events'[i] = e
        BY <3>4, <4>1, OneMore
      <4>6. \A i \in DOMAIN events' : (i \in DOMAIN events /\ events'[i] = events[i])
                                        \/ events'[i] = d \/ events'[i] = e
        BY <4>1, <4>5
      <4>7. HeardInv'
        <5>1. Open(events') = Missing(calls', turn', Answered')
          BY <2>1, <3>4, <4>1, <4>3
        <5>2. \A i \in DOMAIN events', k \in Nat :
                events'[i].type = "tool_started" /\ events'[i].call = <<turn, k>> => k < next + 1
          BY <2>4, <2>6, <3>1, <4>6
        <5>3. QED  BY <2>1, <2>6, <5>1, <5>2 DEF HeardInv
      <4>8. QED  BY <4>4, <4>7 DEF Contract!Next
    <3>5. QED  BY <3>1, <3>3, <3>4
  <2>7. CASE pc = "prepare" /\ calls[next] = "runs"
    <3>1. PICK d \in Events : /\ next \in DOMAIN calls /\ d.type = "tool_started"
                              /\ d.call = <<turn, next>> /\ events' = Append(events, d)
      BY <1>11, <2>7, AnswerShape
    <3>2. Answered' = Answered
      BY <2>1, <2>7, <3>1, AnsweredGrows
    <3>3. /\ Fitting(events, d) /\ Open(events') = Open(events)
          /\ \A i \in DOMAIN events' : (i \in DOMAIN events /\ events'[i] = events[i]) \/ events'[i] = d
      BY <2>3, <2>7, <3>1
    <3>4. Contract!Say
      BY <1>1, <2>1, <3>1, <3>3, SaysOne
    <3>5. HeardInv'
      BY <1>2, <2>1, <2>4, <2>7, <3>1, <3>2, <3>3 DEF HeardInv
    <3>6. QED  BY <3>4, <3>5 DEF Contract!Next
  <2>8. CASE pc = "report"
    <3>1. PICK e \in Events : /\ e.type = "tool_completed" /\ e.call = <<turn, tasks[next].k>>
                              /\ events' = Append(events, e) /\ next \in DOMAIN tasks
      BY <1>11, <2>8, AnswerShape
    <3>2. PICK k \in Nat : k = tasks[next].k
      BY <3>1, Sizes
    <3>3. k \in DOMAIN calls /\ k \notin Answered /\ Answered' = Answered \union {k}
      BY <2>1, <2>8, <3>1, <3>2, AnsweredGrows
    <3>4. Fitting(events, e) /\ Open(events') = Missing(calls, turn, Answered')
      BY <1>1, <2>2, <2>5, <3>1, <3>2, <3>3
    <3>5. Contract!Say
      BY <1>1, <2>1, <3>1, <3>4, SaysOne
    <3>6. HeardInv'
      BY <2>1, <2>8, <3>4 DEF HeardInv
    <3>7. QED  BY <3>5, <3>6 DEF Contract!Next
  <2>9. QED  BY <2>1, <2>6, <2>7, <2>8
<1>12. CASE Passes
  <2>1. /\ UNCHANGED <<turn, calls, talk, events>>
        /\ pc \notin {"start", "over", "raised"} /\ pc' \notin {"start", "over", "raised"}
        /\ pc' = "stream" => pc = "stream"
        /\ pc' = "prepare" => pc = "prepare" /\ next' = next
    BY <1>12 DEF Passes, Retry, NothingToRun, RunTools, Gathered, TurnOver, ToolEnds, Frame,
                 AllPrepared, AllEnded
  <2>2. Answers(talk, turn) = Answered /\ Answers(talk', turn') = Answered'
    BY <2>1 DEF AnswerInv
  <2>3. Answered' = Answered
    BY <2>1, <2>2
  <2>4. QED  BY <1>3, <2>1, <2>3
<1>13. CASE SetCancel \/ KillGather
  <2>1. UNCHANGED <<pc, turn, calls, next, tasks, events>>
    BY <1>13 DEF SetCancel, KillGather, Frame
  <2>2. Answered' = Answered
    BY <2>1 DEF Answered
  <2>3. pc \notin {"over", "raised"}
    BY <1>13 DEF SetCancel, KillGather
  <2>4. QED  BY <1>3, <2>1, <2>2, <2>3
<1>14. QED
  BY <1>4, <1>5, <1>6, <1>7, <1>8, <1>9, <1>10, <1>11, <1>12, <1>13 DEF StepKinds

\* The events of a run keep the contract its consumers rely on: one start, which
\* comes first, one end and nothing behind it, and for each announced call one
\* result, behind its announcement and before the next one (agent_loop.py:100-440).
THEOREM ImplementsContract == Spec => KeepsContract
<1>1. Init => HeardInv /\ Contract!Init
  BY InitHeard
<1>2. IInv /\ IInv' /\ HeardInv /\ [Next]_vars => HeardInv' /\ [Contract!Next]_(Contract!vars)
  BY NextHeard, NextKinds DEF IInv
<1>3. QED
  BY <1>1, <1>2, Inductive, PTL DEF Spec, KeepsContract, Contract!Spec
=============================================================================
