-------------------------- MODULE InductionTheorems --------------------------
(***************************************************************************)
(* Induction over the natural numbers, stated of a set and not of an        *)
(* operator, so that the provers can use it; and by it what FlattenSeq makes *)
(* of a sequence of any length.                                              *)
(***************************************************************************)
EXTENDS Integers, Sequences, SequencesExt, FiniteSetTheorems, TLAPS

-----------------------------------------------------------------------------
(* Numbers *)

\* The elements of a finite set of numbers take all ranks.
LEMMA RanksAreTaken ==
    ASSUME NEW S, IsFiniteSet(S), S \subseteq Nat
    PROVE  \A i \in 0 .. (Cardinality(S) - 1) :
              \E k \in S : Cardinality({j \in S : j < k}) = i
<1> DEFINE Below(k) == {j \in S : j < k}
           N == Cardinality(S)
           f == [k \in S |-> Cardinality(Below(k))]
<1>1. N \in Nat
  BY FS_CardinalityType
<1>2. \A k \in S : IsFiniteSet(Below(k)) /\ Cardinality(Below(k)) \in Nat
  BY FS_Subset, FS_CardinalityType
<1>3. ASSUME NEW k \in S PROVE Cardinality(Below(k)) \in 0 .. (N - 1)
  <2>1. Below(k) \subseteq S \ {k}
    OBVIOUS
  <2>2. IsFiniteSet(S \ {k}) /\ Cardinality(S \ {k}) = N - 1
    BY FS_RemoveElement
  <2>3. Cardinality(Below(k)) <= N - 1
    BY <2>1, <2>2, FS_Subset
  <2> QED BY <1>1, <1>2, <2>3
<1>4. ASSUME NEW a \in S, NEW b \in S, a < b
      PROVE  Cardinality(Below(a)) < Cardinality(Below(b))
  <2>1. Below(a) \subseteq Below(b) \ {a} /\ a \in Below(b)
    <3>1. a \in Nat /\ b \in Nat
      OBVIOUS
    <3>2. \A j \in S : j < a => j < b /\ j # a
      BY <1>4, <3>1
    <3> QED BY <1>4, <3>2
  <2>2. IsFiniteSet(Below(b) \ {a}) /\ Cardinality(Below(b) \ {a}) = Cardinality(Below(b)) - 1
    BY <1>2, <2>1, FS_RemoveElement
  <2>3. Cardinality(Below(a)) <= Cardinality(Below(b) \ {a})
    BY <2>1, <2>2, FS_Subset
  <2> QED BY <1>2, <2>2, <2>3
<1> HIDE DEF Below, N
<1>5. f \in [S -> 0 .. (N - 1)]
  BY <1>3
<1>6. \A a, b \in S : a # b => f[a] # f[b]
  <2> SUFFICES ASSUME NEW a \in S, NEW b \in S, a # b PROVE f[a] # f[b]
    OBVIOUS
  <2>1. a < b \/ b < a
    OBVIOUS
  <2> QED BY <1>2, <1>4, <2>1
<1>7. f \in Injection(S, 0 .. (N - 1))
  BY <1>5, <1>6 DEF Injection, IsInjective
<1>8. IsFiniteSet(0 .. (N - 1)) /\ Cardinality(0 .. (N - 1)) = N
  BY <1>1, FS_Interval
<1>9. f \in Surjection(S, 0 .. (N - 1))
  <2> HIDE DEF f
  <2> QED BY <1>7, <1>8, FS_Injection DEF N
<1>10. \A i \in 0 .. (N - 1) : \E k \in S : f[k] = i
  BY <1>9 DEF Surjection
<1> QED BY <1>10 DEF Below, N

\* A finite set of numbers has a greatest one.
LEMMA GreatestExists ==
    ASSUME NEW S, IsFiniteSet(S), S \subseteq Nat, S # {}
    PROVE  \E n \in S : \A t \in S : t <= n
<1> DEFINE N == Cardinality(S)
<1>1. N \in Nat /\ N # 0
  BY FS_CardinalityType, FS_EmptySet
<1>2. PICK k \in S : Cardinality({j \in S : j < k}) = N - 1
  <2>1. N - 1 \in 0 .. (N - 1)
    BY <1>1
  <2> QED BY <2>1, RanksAreTaken
<1>3. \A t \in S : t <= k
  <2> SUFFICES ASSUME NEW t \in S, ~(t <= k) PROVE FALSE
    OBVIOUS
  <2>1. IsFiniteSet(S \ {t}) /\ Cardinality(S \ {t}) = N - 1
    BY FS_RemoveElement
  <2>2. {j \in S : j < k} \subseteq (S \ {t}) \ {k} /\ k \in S \ {t}
    OBVIOUS
  <2>3. IsFiniteSet((S \ {t}) \ {k}) /\ Cardinality((S \ {t}) \ {k}) = N - 2
    <3>1. IsFiniteSet((S \ {t}) \ {k})
          /\ Cardinality((S \ {t}) \ {k}) = Cardinality(S \ {t}) - 1
      BY <2>1, <2>2, FS_RemoveElement
    <3> HIDE DEF N
    <3> QED BY <1>1, <2>1, <3>1
  <2>4. Cardinality({j \in S : j < k}) <= N - 2
    BY <2>2, <2>3, FS_Subset
  <2> QED BY <1>1, <1>2, <2>4
<1> QED BY <1>3

\* ... and, with any elements at all, a least one.
LEMMA LeastExists ==
    ASSUME NEW S, IsFiniteSet(S), S \subseteq Nat, S # {}
    PROVE  \E n \in S : \A t \in S : n <= t
<1>1. Cardinality(S) \in Nat /\ Cardinality(S) # 0
  BY FS_CardinalityType, FS_EmptySet
<1>2. PICK k \in S : Cardinality({j \in S : j < k}) = 0
  <2>1. 0 \in 0 .. (Cardinality(S) - 1)
    BY <1>1
  <2> QED BY <2>1, RanksAreTaken
<1>3. {j \in S : j < k} = {}
  <2>1. IsFiniteSet({j \in S : j < k})
    BY FS_Subset
  <2> QED BY <1>2, <2>1, FS_EmptySet
<1> QED BY <1>3

\* A set of numbers that has 0, and the successor of each of its elements, has
\* them all.
LEMMA SetInduction ==
    ASSUME NEW S, 0 \in S, \A n \in Nat : n \in S => n + 1 \in S
    PROVE  \A n \in Nat : n \in S
<1> SUFFICES ASSUME NEW n \in Nat, n \notin S PROVE FALSE
  OBVIOUS
<1> DEFINE T == {k \in 0 .. n : k \in S}
<1>1. T \subseteq Nat /\ T # {}
  OBVIOUS
<1>2. IsFiniteSet(T)
  <2>1. IsFiniteSet(0 .. n)
    BY FS_Interval
  <2> QED BY <2>1, FS_Subset
<1> HIDE DEF T
<1>3. PICK m \in T : \A t \in T : t <= m
  BY <1>1, <1>2, GreatestExists
<1>4. m \in Nat /\ m \in S /\ m <= n /\ m # n
  BY <1>3 DEF T
<1>5. m + 1 \in T
  BY <1>4 DEF T
<1>6. m + 1 <= m
  BY <1>3, <1>5
<1> QED BY <1>4, <1>6

-----------------------------------------------------------------------------
(* FlattenSeq *)

Flattening(s, n, f) ==
    f = [i \in 1 .. n |-> IF i = 1 THEN s[i] ELSE f[i - 1] \o s[i]]

LEMMA FlatteningAt ==
    ASSUME NEW s, NEW n, NEW f, Flattening(s, n, f), NEW i \in 1 .. n
    PROVE  f[i] = IF i = 1 THEN s[i] ELSE f[i - 1] \o s[i]
BY DEF Flattening

\* The recursive function in FlattenSeq is defined.
LEMMA FlatteningExists ==
    ASSUME NEW s PROVE \A n \in Nat : \E f : Flattening(s, n, f)
<1> DEFINE S == {n \in Nat : \E f : Flattening(s, n, f)}
<1>1. 0 \in S
  <2> DEFINE g == [i \in 1 .. 0 |-> s[i]]
  <2>1. Flattening(s, 0, g)
    BY DEF Flattening
  <2> QED BY <2>1
<1>2. ASSUME NEW n \in Nat, n \in S PROVE n + 1 \in S
  <2>1. PICK f : Flattening(s, n, f)
    BY <1>2
  <2> DEFINE g == [i \in 1 .. (n + 1) |->
                      IF i <= n THEN f[i]
                      ELSE IF n = 0 THEN s[i] ELSE f[n] \o s[i]]
  <2>2. ASSUME NEW i \in 1 .. (n + 1)
        PROVE  g[i] = IF i = 1 THEN s[i] ELSE g[i - 1] \o s[i]
    <3>1. CASE i <= n
      <4>1. i \in 1 .. n /\ g[i] = f[i]
        BY <3>1
      <4>2. f[i] = IF i = 1 THEN s[i] ELSE f[i - 1] \o s[i]
        BY <2>1, <4>1 DEF Flattening
      <4>3. i # 1 => i - 1 \in 1 .. (n + 1) /\ i - 1 <= n
        BY <3>1
      <4>4. i # 1 => g[i - 1] = f[i - 1]
        BY <4>3
      <4> HIDE DEF g
      <4> QED BY <4>1, <4>2, <4>4
    <3>2. CASE i = n + 1 /\ n = 0
      BY <3>2
    <3>3. CASE i = n + 1 /\ n # 0
      <4>1. i # 1 /\ ~(i <= n) /\ i - 1 = n /\ n \in 1 .. (n + 1) /\ n <= n
        BY <3>3
      <4>2. g[n] = f[n]
        BY <4>1
      <4>3. g[i] = f[n] \o s[i]
        BY <3>3, <4>1
      <4> HIDE DEF g
      <4> QED BY <4>1, <4>2, <4>3
    <3> QED BY <3>1, <3>2, <3>3
  <2>3. Flattening(s, n + 1, g)
    <3>1. g = [i \in 1 .. (n + 1) |-> g[i]]
      OBVIOUS
    <3> HIDE DEF g
    <3> QED BY <2>2, <3>1, Zenon DEF Flattening
  <2> QED BY <2>3
<1> HIDE DEF S
<1>3. \A n \in Nat : n \in S
  BY <1>1, <1>2, SetInduction
<1> QED BY <1>3 DEF S

\* The function itself, and its values.
LEMMA FlattenDefined ==
    ASSUME NEW s, Len(s) \in Nat
    PROVE  \E f : /\ Flattening(s, Len(s), f)
                  /\ Len(s) # 0 => FlattenSeq(s) = f[Len(s)]
<1> DEFINE flatten == CHOOSE f : Flattening(s, Len(s), f)
<1>1. Flattening(s, Len(s), flatten)
  BY FlatteningExists
<1>2. Len(s) # 0 => FlattenSeq(s) = flatten[Len(s)]
  BY DEF FlattenSeq, Flattening
<1> QED BY <1>1, <1>2

LEMMA FlattenNone == FlattenSeq(<<>>) = <<>>
BY DEF FlattenSeq

\* A sequence more, at the end.
LEMMA FlattenAppend ==
    ASSUME NEW D, NEW s \in Seq(Seq(D)), NEW x \in Seq(D)
    PROVE  FlattenSeq(Append(s, x)) = FlattenSeq(s) \o x
<1> DEFINE t == Append(s, x)
           N == Len(s)
<1>0. /\ N \in Nat /\ Len(t) = N + 1 /\ t[N + 1] = x
      /\ \A i \in 1 .. N : t[i] = s[i] /\ s[i] \in Seq(D)
      /\ N = 0 => s = <<>>
  OBVIOUS
<1> HIDE DEF t, N
<1>1. PICK f : Flattening(s, N, f) /\ (N # 0 => FlattenSeq(s) = f[N])
  BY <1>0, FlattenDefined DEF N
<1>2. PICK g : Flattening(t, N + 1, g) /\ FlattenSeq(t) = g[N + 1]
  BY <1>0, FlattenDefined
<1>3. \A k \in Nat : k \in 1 .. N => g[k] = f[k]
  <2> DEFINE S == {k \in Nat : k \in 1 .. N => g[k] = f[k]}
  <2>1. 0 \in S
    OBVIOUS
  <2>2. ASSUME NEW k \in Nat, k \in S PROVE k + 1 \in S
    <3> SUFFICES ASSUME k + 1 \in 1 .. N PROVE g[k + 1] = f[k + 1]
      OBVIOUS
    <3>1. /\ f[k + 1] = IF k + 1 = 1 THEN s[k + 1] ELSE f[k + 1 - 1] \o s[k + 1]
          /\ g[k + 1] = IF k + 1 = 1 THEN t[k + 1] ELSE g[k + 1 - 1] \o t[k + 1]
      <4> DEFINE j == k + 1
                 M == N + 1
      <4>1. j \in 1 .. N /\ j \in 1 .. M
        BY <1>0
      <4>2. Flattening(t, M, g)
        BY <1>2
      <4> HIDE DEF j, M
      <4>3. f[j] = IF j = 1 THEN s[j] ELSE f[j - 1] \o s[j]
        BY <1>1, <4>1, FlatteningAt
      <4>4. g[j] = IF j = 1 THEN t[j] ELSE g[j - 1] \o t[j]
        BY <4>1, <4>2, FlatteningAt
      <4> QED BY <4>3, <4>4 DEF j
    <3>2. t[k + 1] = s[k + 1] /\ k + 1 - 1 = k
      BY <1>0
    <3>3. k + 1 # 1 => g[k] = f[k]
      BY <1>0, <2>2
    <3> QED BY <3>1, <3>2, <3>3
  <2> HIDE DEF S
  <2>3. \A k \in Nat : k \in S
    BY <2>1, <2>2, SetInduction
  <2> QED BY <2>3 DEF S
<1>4. CASE N = 0
  <2>1. g[1] = x /\ N + 1 = 1
    BY <1>0, <1>2, <1>4 DEF Flattening
  <2>2. FlattenSeq(s) = <<>> /\ <<>> \o x = x
    BY <1>0, <1>4, FlattenNone
  <2> QED BY <1>2, <2>1, <2>2 DEF t
<1>5. CASE N # 0
  <2> DEFINE M == N + 1
  <2>1. M \in 1 .. M /\ M # 1 /\ M - 1 = N /\ N \in 1 .. N
    BY <1>0, <1>5
  <2>2. Flattening(t, M, g) /\ FlattenSeq(t) = g[M] /\ t[M] = x
    BY <1>0, <1>2
  <2> HIDE DEF M
  <2>3. g[M] = IF M = 1 THEN t[M] ELSE g[M - 1] \o t[M]
    <3>1. M \in 1 .. M /\ Flattening(t, M, g)
      BY <2>1, <2>2
    <3> QED BY <3>1, FlatteningAt
  <2>4. FlattenSeq(t) = g[N] \o x
    BY <2>1, <2>2, <2>3
  <2>5. g[N] = f[N]
    BY <1>0, <1>3, <2>1
  <2> QED BY <1>1, <1>5, <2>4, <2>5 DEF t
<1> QED BY <1>4, <1>5

\* A sequence that is not empty ends with its last element.
LEMMA FrontAndLast ==
    ASSUME NEW D, NEW s \in Seq(D), NEW n \in Nat, Len(s) = n + 1
    PROVE  /\ SubSeq(s, 1, n) \in Seq(D) /\ Len(SubSeq(s, 1, n)) = n
           /\ s[n + 1] \in D
           /\ s = Append(SubSeq(s, 1, n), s[n + 1])
<1> DEFINE r == SubSeq(s, 1, n)
           x == s[n + 1]
<1>1. r \in Seq(D) /\ x \in D /\ Len(r) = n /\ \A i \in 1 .. n : r[i] = s[i]
  OBVIOUS
<1> HIDE DEF r
<1>2. s = Append(r, x)
  <2>1. /\ Append(r, x) \in Seq(D) /\ Len(Append(r, x)) = n + 1
        /\ \A i \in 1 .. (n + 1) : Append(r, x)[i] = s[i]
    BY <1>1
  <2> QED BY <2>1
<1> QED BY <1>1, <1>2 DEF r

\* What FlattenSeq returns is a sequence.
LEMMA FlattenIsSeq ==
    ASSUME NEW D PROVE \A s \in Seq(Seq(D)) : FlattenSeq(s) \in Seq(D)
<1> DEFINE S == {n \in Nat : \A s \in Seq(Seq(D)) : Len(s) = n => FlattenSeq(s) \in Seq(D)}
<1>1. 0 \in S
  BY FlattenNone
<1>2. ASSUME NEW n \in Nat, n \in S PROVE n + 1 \in S
  <2> SUFFICES ASSUME NEW s \in Seq(Seq(D)), Len(s) = n + 1 PROVE FlattenSeq(s) \in Seq(D)
    OBVIOUS
  <2> DEFINE E == Seq(D)
             r == SubSeq(s, 1, n)
             x == s[n + 1]
  <2>1. r \in Seq(E) /\ Len(r) = n /\ x \in E /\ s = Append(r, x)
    <3>1. s \in Seq(E)
      OBVIOUS
    <3> HIDE DEF E
    <3> QED BY <3>1, FrontAndLast
  <2> HIDE DEF r, x
  <2>2. FlattenSeq(r) \in Seq(D)
    BY <1>2, <2>1
  <2>3. FlattenSeq(s) = FlattenSeq(r) \o x
    <3>1. r \in Seq(Seq(D)) /\ x \in Seq(D)
      BY <2>1
    <3>2. FlattenSeq(Append(r, x)) = FlattenSeq(r) \o x
      BY <3>1, FlattenAppend
    <3> QED BY <2>1, <3>2
  <2>4. x \in Seq(D)
    BY <2>1
  <2> HIDE DEF E, S
  <2> QED BY <2>2, <2>3, <2>4
<1> HIDE DEF S
<1>3. \A n \in Nat : n \in S
  BY <1>1, <1>2, SetInduction
<1> QED BY <1>3 DEF S
=============================================================================
