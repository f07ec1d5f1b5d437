------------------------------ MODULE ListProofs ------------------------------
(***************************************************************************)
(* What the proofs about texts and lists need: induction over a set of     *)
(* numbers, functions computed step by step, and the lists that the        *)
(* operators Those and FlattenSeq compute so.                              *)
(***************************************************************************)
EXTENDS Lists, SequencesExt, FiniteSetsExt, SequenceTheorems, FiniteSetTheorems, WellFoundedInduction, TLAPS

\* Induction over the numbers, for a set of them.
LEMMA Induction ==
  ASSUME NEW S, 0 \in S, \A n \in Nat : n \in S => n + 1 \in S
  PROVE  \A n \in Nat : n \in S
<1> SUFFICES ASSUME Nat \ S # {} PROVE FALSE
  OBVIOUS
<1>1. PICK m \in Nat \ S : \A y \in Nat \ S : ~(<<y, m>> \in OpToRel(<, Nat))
  BY WFMin, NatLessThanWellFounded
<1>2. m \in Nat /\ m \notin S /\ \A y \in Nat \ S : ~(y < m)
  BY <1>1 DEF OpToRel
<1>3. m # 0 /\ m - 1 \in Nat
  BY <1>2
<1>4. m - 1 \in S
  BY <1>2, <1>3
<1>5. (m - 1) + 1 \in S
  BY <1>3, <1>4
<1> QED
  BY <1>2, <1>5

\* The functions that take the value before place i of n to the value there, and what such
\* a function computes from a first value.
Steps(n, B) == [(1 .. n) \X B -> B]
Follows(f, n, B, b, step) ==
  f \in [0 .. n -> B] /\ f[0] = b /\ \A i \in 1 .. n : f[i] = step[<<i, f[i - 1]>>]

\* What is computed step by step exists.
LEMMA Recursion ==
  ASSUME NEW n \in Nat, NEW B, NEW b \in B, NEW step \in Steps(n, B)
  PROVE  \E f : Follows(f, n, B, b, step)
<1> USE DEF Steps, Follows
<1> DEFINE Upto(m) == \E f \in [0 .. m -> B] : f[0] = b /\ \A i \in 1 .. m : f[i] = step[<<i, f[i - 1]>>]
           S == {m \in Nat : m <= n => Upto(m)}
<1>1. 0 \in S
  <2> DEFINE f == [i \in 0 .. 0 |-> b]
  <2>1. f \in [0 .. 0 -> B] /\ f[0] = b /\ \A i \in 1 .. 0 : FALSE
    OBVIOUS
  <2> QED
    BY <2>1
<1>2. ASSUME NEW m \in Nat, m \in S PROVE m + 1 \in S
  <2>1. CASE m + 1 <= n
    <3>1. PICK f \in [0 .. m -> B] : f[0] = b /\ \A i \in 1 .. m : f[i] = step[<<i, f[i - 1]>>]
      BY <1>2, <2>1
    <3> DEFINE g == [i \in 0 .. m + 1 |-> IF i = m + 1 THEN step[<<m + 1, f[m]>>] ELSE f[i]]
    <3>2. f[m] \in B /\ m + 1 \in 1 .. n
      BY <2>1, <3>1
    <3>3. g \in [0 .. m + 1 -> B]
      BY <3>1, <3>2
    <3>4. g[0] = b
      BY <3>1
    <3>5. ASSUME NEW i \in 1 .. m + 1 PROVE g[i] = step[<<i, g[i - 1]>>]
      <4>1. CASE i = m + 1
        BY <4>1, SMTT(60)
      <4>2. CASE i \in 1 .. m
        BY <3>1, <4>2
      <4> QED
        BY <4>1, <4>2
    <3> HIDE DEF g
    <3> QED
      BY <3>3, <3>4, <3>5
  <2>2. CASE ~(m + 1 <= n)
    BY <2>2
  <2> QED
    BY <2>1, <2>2
<1>3. n \in S
  <2> HIDE DEF S
  <2> QED
    BY <1>1, <1>2, Induction
<1> QED
  BY <1>3

LEMMA InductionUpTo ==
  ASSUME NEW n \in Nat, NEW S, 0 \in S, \A i \in 1 .. n : i - 1 \in S => i \in S
  PROVE  \A i \in 0 .. n : i \in S
<1> DEFINE T == {m \in Nat : m <= n => m \in S}
<1>1. 0 \in T
  OBVIOUS
<1>2. ASSUME NEW m \in Nat, m \in T PROVE m + 1 \in T
  <2>1. CASE m + 1 <= n
    <3>1. m + 1 \in 1 .. n /\ m \in S /\ (m + 1) - 1 = m
      BY <1>2, <2>1
    <3> QED
      BY <3>1
  <2>2. CASE ~(m + 1 <= n)
    BY <2>2
  <2> QED
    BY <2>1, <2>2
<1>3. \A m \in Nat : m \in T
  <2> HIDE DEF T
  <2> QED
    BY <1>1, <1>2, Induction
<1> QED
  BY <1>3

\* The recursion of Those.
Chooses(u, S, s, P) ==
  /\ u \in [0 .. Len(s) -> Seq(S)]
  /\ u[0] = <<>>
  /\ \A n \in 1 .. Len(s) : u[n] = IF s[n] \in P THEN Append(u[n - 1], s[n]) ELSE u[n - 1]
  /\ Those(s, P) = u[Len(s)]

LEMMA ThoseUnfold == ASSUME NEW S, NEW s \in Seq(S), NEW P PROVE \E u : Chooses(u, S, s, P)
<1> DEFINE N == Len(s)
           B == Seq(S)
           step == [x \in (1 .. N) \X B |-> IF s[x[1]] \in P THEN Append(x[2], s[x[1]]) ELSE x[2]]
           Body(u) == [n \in 0 .. N |-> IF n = 0 THEN <<>>
                                        ELSE IF s[n] \in P THEN Append(u[n - 1], s[n]) ELSE u[n - 1]]
           F == CHOOSE u : u = Body(u)
<1>1. N \in Nat /\ <<>> \in B /\ \A n \in 1 .. N : s[n] \in S
  OBVIOUS
<1>2. step \in [(1 .. N) \X B -> B] /\ \A n \in 1 .. N, b \in B : step[<<n, b>>] = IF s[n] \in P THEN Append(b, s[n]) ELSE b
  OBVIOUS
<1>3. Those(s, P) = F[N]
  BY DEF Those
<1> HIDE DEF N, B, step
<1>4. PICK f : f \in [0 .. N -> B] /\ f[0] = <<>> /\ \A i \in 1 .. N : f[i] = step[<<i, f[i - 1]>>]
  <2>1. step \in Steps(N, B)
    BY <1>2 DEF Steps
  <2>2. \E f : Follows(f, N, B, <<>>, step)
    BY <1>1, <2>1, Recursion, Zenon
  <2> QED
    BY <2>2 DEF Follows
<1>5. ASSUME NEW n \in 0 .. N
      PROVE  f[n] = IF n = 0 THEN <<>> ELSE IF s[n] \in P THEN Append(f[n - 1], s[n]) ELSE f[n - 1]
  <2>1. CASE n = 0
    BY <1>4, <2>1
  <2>2. CASE n # 0
    <3>1. n \in 1 .. N /\ n - 1 \in 0 .. N
      BY <1>1, <2>2
    <3>2. f[n] = step[<<n, f[n - 1]>>] /\ f[n - 1] \in B
      BY <1>4, <3>1
    <3> QED
      BY <1>2, <2>2, <3>1, <3>2
  <2> QED
    BY <2>1, <2>2
<1>6. f = Body(f)
  <2>1. DOMAIN f = 0 .. N /\ f = [n \in 0 .. N |-> f[n]]
    BY <1>4
  <2> QED
    BY <1>5, <2>1
<1>7. F = Body(F)
  BY <1>6
<1> HIDE DEF F
<1>8. /\ DOMAIN F = 0 .. N /\ F = [n \in 0 .. N |-> F[n]] /\ F[0] = <<>>
      /\ \A n \in 1 .. N : F[n] = IF s[n] \in P THEN Append(F[n - 1], s[n]) ELSE F[n - 1]
  <2>1. 0 \in 0 .. N /\ \A n \in 1 .. N : n \in 0 .. N /\ n # 0
    BY <1>1
  <2>2. \A n \in 0 .. N : F[n] = IF n = 0 THEN <<>>
                                ELSE IF s[n] \in P THEN Append(F[n - 1], s[n]) ELSE F[n - 1]
    BY <1>7
  <2> HIDE DEF Body
  <2>3. DOMAIN F = 0 .. N /\ F = [n \in 0 .. N |-> F[n]]
    BY <1>7 DEF Body
  <2> QED
    BY <2>1, <2>2, <2>3
<1>9. \A n \in 0 .. N : F[n] \in B
  <2> DEFINE T == {n \in Nat : F[n] \in B}
  <2>1. ASSUME NEW n \in 1 .. N, n - 1 \in T PROVE n \in T
    <3>1. s[n] \in S
      BY <1>1, <2>1
    <3>2. Append(F[n - 1], s[n]) \in B
      BY <2>1, <3>1 DEF B
    <3>3. n \in Nat /\ F[n - 1] \in B
      BY <1>1, <2>1
    <3>4. F[n] \in B
      BY <1>8, <3>2, <3>3
    <3> QED
      BY <3>3, <3>4
  <2>2. 0 \in T
    BY <1>1, <1>8
  <2>3. \A n \in 0 .. N : n \in T
    <3> HIDE DEF T
    <3> QED
      BY <1>1, <2>1, <2>2, InductionUpTo
  <2> QED
    BY <2>3
<1>10. F \in [0 .. N -> B]
  BY <1>8, <1>9
<1> QED
  BY <1>3, <1>8, <1>10 DEF N, B, Chooses

LEMMA RangeOfAppend ==
  ASSUME NEW S, NEW s \in Seq(S), NEW e \in S
  PROVE  Range(Append(s, e)) = Range(s) \cup {e}
<1>1. Append(s, e) \in Seq(S) /\ Len(Append(s, e)) = Len(s) + 1
  OBVIOUS
<1>2. Range(Append(s, e)) = {Append(s, e)[i] : i \in 1 .. Len(s) + 1} /\ Range(s) = {s[i] : i \in 1 .. Len(s)}
  BY <1>1, RangeEquality
<1>3. Append(s, e)[Len(s) + 1] = e /\ \A i \in 1 .. Len(s) : Append(s, e)[i] = s[i]
  OBVIOUS
<1>4. \A i \in 1 .. Len(s) + 1 : i \in 1 .. Len(s) \/ i = Len(s) + 1
  OBVIOUS
<1>5. Len(s) + 1 \in 1 .. Len(s) + 1 /\ \A i \in 1 .. Len(s) : i \in 1 .. Len(s) + 1
  OBVIOUS
<1> HIDE DEF Range
<1> QED
  BY <1>2, <1>3, <1>4, <1>5


\* The members that are kept are those of the list that the set holds.
LEMMA ThoseAre ==
  ASSUME NEW S, NEW s \in Seq(S), NEW P
  PROVE  /\ Those(s, P) \in Seq(S)
         /\ Range(Those(s, P)) = Range(s) \cap P
<1>1. PICK u : Chooses(u, S, s, P)
  BY ThoseUnfold
<1> USE DEF Chooses
<1> DEFINE N == Len(s)
           IsKept(n) == Range(u[n]) = {s[i] : i \in 1 .. n} \cap P
           T == {n \in Nat : IsKept(n)}
<1>2. N \in Nat /\ Range(s) = {s[i] : i \in 1 .. N} /\ \A i \in 1 .. N : s[i] \in S
  BY RangeEquality
<1>3. IsKept(0)
  BY <1>1 DEF Range
<1>4. ASSUME NEW n \in 1 .. N, IsKept(n - 1) PROVE IsKept(n)
  <2>1. n - 1 \in 0 .. N /\ {s[i] : i \in 1 .. n} = {s[i] : i \in 1 .. n - 1} \cup {s[n]}
    <3>1. n - 1 \in 0 .. N /\ \A i \in 1 .. n : i \in 1 .. n - 1 \/ i = n
      BY <1>2
    <3>2. \A i \in 1 .. n - 1 : i \in 1 .. n
      OBVIOUS
    <3> QED
      BY <3>1, <3>2
  <2>2. u[n - 1] \in Seq(S) /\ s[n] \in S
    BY <1>1, <1>2, <2>1
  <2>3. CASE s[n] \in P
    <3>1. u[n] = Append(u[n - 1], s[n])
      BY <1>1, <2>3
    <3>2. Range(u[n]) = Range(u[n - 1]) \cup {s[n]}
      BY <2>2, <3>1, RangeOfAppend
    <3> QED
      BY <1>4, <2>1, <2>3, <3>2
  <2>4. CASE s[n] \notin P
    <3>1. u[n] = u[n - 1]
      BY <1>1, <2>4
    <3> QED
      BY <1>4, <2>1, <2>4, <3>1
  <2> QED
    BY <2>3, <2>4
<1>5. \A n \in 0 .. N : n \in T
  <2>1. 0 \in T
    BY <1>3
  <2>2. ASSUME NEW n \in 1 .. N, n - 1 \in T PROVE n \in T
    <3>1. n \in Nat
      BY <1>2
    <3> HIDE DEF IsKept
    <3>2. IsKept(n)
      BY <1>4, <2>2
    <3> QED
      BY <3>1, <3>2
  <2> HIDE DEF T
  <2> QED
    BY <1>2, <2>1, <2>2, InductionUpTo
<1>6. IsKept(N)
  BY <1>2, <1>5
<1> QED
  BY <1>1, <1>2, <1>6

\* The recursion of FlattenSeq.
Joins(u, S, s) ==
  /\ u \in [0 .. Len(s) -> Seq(S)]
  /\ u[0] = <<>>
  /\ \A n \in 1 .. Len(s) : u[n] = u[n - 1] \o s[n]
  /\ FlattenSeq(s) = u[Len(s)]

LEMMA FlattenUnfold == ASSUME NEW S, NEW s \in Seq(Seq(S)) PROVE \E u : Joins(u, S, s)
<1> DEFINE N == Len(s)
           B == Seq(S)
           step == [x \in (1 .. N) \X B |-> x[2] \o s[x[1]]]
           Body(u) == [i \in 1 .. N |-> IF i = 1 THEN s[i] ELSE u[i - 1] \o s[i]]
           F == CHOOSE u : u = Body(u)
<1>1. N \in Nat /\ <<>> \in B /\ \A n \in 1 .. N : s[n] \in B
  OBVIOUS
<1>2. CASE N = 0
  <2> DEFINE u == [n \in 0 .. 0 |-> <<>>]
  <2>1. Len(s) = 0 /\ s = <<>> /\ FlattenSeq(s) = <<>>
    BY <1>2 DEF FlattenSeq
  <2>2. u \in [0 .. 0 -> Seq(S)] /\ u[0] = <<>> /\ \A n \in 1 .. 0 : FALSE
    OBVIOUS
  <2> HIDE DEF u
  <2>3. Joins(u, S, s)
    BY <2>1, <2>2 DEF Joins
  <2> QED
    BY <2>3
<1>3. CASE N # 0
  <2>1. FlattenSeq(s) = F[N]
    BY <1>3 DEF FlattenSeq
  <2>2. \A b, c \in B : b \o c \in B
    BY ConcatProperties
  <2>3. \A b \in B : <<>> \o b = b
    BY ConcatEmptySeq
  <2> HIDE DEF N, B
  <2>4. step \in Steps(N, B) /\ \A n \in 1 .. N, b \in B : step[<<n, b>>] = b \o s[n]
    BY <1>1, <2>2 DEF Steps
  <2> HIDE DEF step
  <2>5. PICK f : f \in [0 .. N -> B] /\ f[0] = <<>> /\ \A i \in 1 .. N : f[i] = step[<<i, f[i - 1]>>]
    <3>1. \E f : Follows(f, N, B, <<>>, step)
      BY <1>1, <2>4, Recursion, Zenon
    <3> QED
      BY <3>1 DEF Follows
  <2> DEFINE h == [i \in 1 .. N |-> f[i]]
  <2>6. ASSUME NEW n \in 1 .. N PROVE h[n] = IF n = 1 THEN s[n] ELSE h[n - 1] \o s[n]
    <3>1. n - 1 \in 0 .. N
      BY <1>1
    <3>2. f[n] = f[n - 1] \o s[n]
      BY <2>4, <2>5, <3>1
    <3>3. CASE n = 1
      <4>1. f[n - 1] = <<>> /\ s[n] \in B
        BY <1>1, <2>5, <3>3
      <4> QED
        BY <2>3, <3>2, <3>3, <4>1
    <3>4. CASE n # 1
      <4>1. n - 1 \in 1 .. N
        BY <1>1, <3>4
      <4> QED
        BY <3>2, <3>4, <4>1
    <3> QED
      BY <3>3, <3>4
  <2>7. h = Body(h)
    BY <2>6
  <2>8. F = Body(F)
    <3> HIDE DEF h
    <3> QED
      BY <2>7
  <2> HIDE DEF F
  <2>9. \A n \in 1 .. N : F[n] = IF n = 1 THEN s[n] ELSE F[n - 1] \o s[n]
    BY <2>8
  <2>10. \A n \in 0 .. N : n \in {m \in Nat : m # 0 => F[m] \in B}
    <3> DEFINE T == {m \in Nat : m # 0 => F[m] \in B}
    <3>1. 0 \in T
      OBVIOUS
    <3>2. ASSUME NEW n \in 1 .. N, n - 1 \in T PROVE n \in T
      <4>1. n \in Nat /\ s[n] \in B
        BY <1>1
      <4>2. CASE n = 1
        BY <2>9, <4>1, <4>2
      <4>3. CASE n # 1
        <5>1. n - 1 # 0 /\ n - 1 \in Nat
          BY <1>1, <4>3
        <5>2. F[n - 1] \in B
          BY <3>2, <5>1
        <5>3. F[n] = F[n - 1] \o s[n]
          BY <2>9, <4>3
        <5>4. F[n] \in B
          BY <2>2, <4>1, <5>2, <5>3
        <5> QED
          BY <4>1, <5>4
      <4> QED
        BY <4>2, <4>3
    <3> HIDE DEF T
    <3>3. \A n \in 0 .. N : n \in T
      BY <1>1, <3>1, <3>2, InductionUpTo
    <3> QED
      BY <3>3 DEF T
  <2> DEFINE u == [n \in 0 .. N |-> IF n = 0 THEN <<>> ELSE F[n]]
  <2>11. ASSUME NEW n \in 1 .. N PROVE u[n] = u[n - 1] \o s[n]
    <3>1. n \in 0 .. N /\ n # 0 /\ n - 1 \in 0 .. N /\ (n # 1 => n - 1 # 0)
      BY <1>1
    <3>2. u[n] = F[n]
      BY <3>1
    <3>3. CASE n = 1
      <4>1. u[n - 1] = <<>> /\ s[n] \in B
        BY <1>1, <3>1, <3>3
      <4> QED
        BY <2>3, <2>9, <3>2, <3>3, <4>1
    <3>4. CASE n # 1
      <4>1. u[n - 1] = F[n - 1]
        BY <3>1, <3>4
      <4> QED
        BY <2>9, <3>2, <3>4, <4>1
    <3> QED
      BY <3>3, <3>4
  <2>12. u \in [0 .. N -> B] /\ u[0] = <<>> /\ u[N] = F[N]
    <3>1. 0 \in 0 .. N /\ N \in 0 .. N
      BY <1>1
    <3>2. \A n \in 0 .. N : (IF n = 0 THEN <<>> ELSE F[n]) \in B
      BY <1>1, <2>10
    <3> QED
      BY <1>3, <3>1, <3>2
  <2> HIDE DEF u
  <2>13. Joins(u, S, s)
    BY <2>1, <2>11, <2>12 DEF Joins, N, B
  <2> QED
    BY <2>13
<1> QED
  BY <1>2, <1>3

\* Lists of lists make one list.
LEMMA FlattenType == ASSUME NEW S, NEW s \in Seq(Seq(S)) PROVE FlattenSeq(s) \in Seq(S)
<1>1. PICK u : Joins(u, S, s)
  BY FlattenUnfold
<1>2. Len(s) \in 0 .. Len(s)
  OBVIOUS
<1> QED
  BY <1>1, <1>2 DEF Joins

LEMMA MaxIs == ASSUME NEW S, S \subseteq Nat, NEW m \in S, \A x \in S : x <= m PROVE Max(S) = m
<1>1. \A x \in S : m >= x
  OBVIOUS
<1>2. Max(S) \in S /\ \A y \in S : Max(S) >= y
  BY <1>1 DEF Max
<1> DEFINE k == Max(S)
<1>3. k \in Nat /\ m \in Nat /\ k >= m /\ k <= m
  BY <1>2
<1> HIDE DEF k
<1>4. k = m
  BY <1>3
<1> QED
  BY <1>4 DEF k

-----------------------------------------------------------------------------
(* Least and greatest numbers, and lists of numbers that rise                *)

LEMMA LeastOf == ASSUME NEW S \in SUBSET Nat, S # {} PROVE \E m \in S : \A x \in S : m <= x
<1>1. PICK m \in S : \A y \in S : ~(<<y, m>> \in OpToRel(<, Nat))
  BY WFMin, NatLessThanWellFounded
<1>2. m \in Nat /\ \A y \in S : y \in Nat /\ ~(y < m)
  BY <1>1 DEF OpToRel
<1> QED
  BY <1>2

LEMMA GreatestOf ==
  ASSUME NEW S \in SUBSET Nat, S # {}, NEW n \in Nat, \A x \in S : x <= n
  PROVE  \E m \in S : \A x \in S : x <= m
<1> DEFINE T == {n - x : x \in S}
<1>1. T \in SUBSET Nat /\ T # {}
  <2>1. ASSUME NEW x \in S PROVE n - x \in Nat
    <3>1. x \in Nat /\ x <= n
      OBVIOUS
    <3> QED
      BY <3>1
  <2> QED
    BY <2>1
<1>2. PICK d \in T : \A y \in T : d <= y
  <2> HIDE DEF T
  <2> QED
    BY <1>1, LeastOf
<1>3. PICK m \in S : d = n - m
  BY <1>2
<1>4. ASSUME NEW x \in S PROVE x <= m
  <2>1. n - m <= n - x
    BY <1>2, <1>3
  <2> QED
    BY <2>1
<1> QED
  BY <1>4

Rising(s) == \A i, j \in DOMAIN s : i < j => s[i] < s[j]

\* A rising list is known by its members.
LEMMA RisingAlike ==
  ASSUME NEW s \in Seq(Nat), NEW t \in Seq(Nat), Rising(s), Rising(t), Range(s) = Range(t)
  PROVE  Len(s) <= Len(t) /\ \A i \in 1 .. Len(s) : s[i] = t[i]
<1> DEFINE Good(i) == i <= Len(t) /\ s[i] = t[i]
           Bad == {i \in 1 .. Len(s) : ~Good(i)}
<1>1. /\ Len(s) \in Nat /\ DOMAIN s = 1 .. Len(s) /\ \A i \in 1 .. Len(s) : s[i] \in Nat
      /\ Len(t) \in Nat /\ DOMAIN t = 1 .. Len(t) /\ \A i \in 1 .. Len(t) : t[i] \in Nat
  BY LenProperties
<1>2. Bad = {}
  <2> SUFFICES ASSUME Bad # {} PROVE FALSE
    OBVIOUS
  <2>1. Bad \in SUBSET Nat
    BY <1>1
  <2>2. PICK j \in Bad : \A i \in Bad : j <= i
    <3> HIDE DEF Bad
    <3> QED
      BY <2>1, LeastOf
  <2>3. j \in 1 .. Len(s) /\ ~Good(j) /\ \A i \in 1 .. Len(s) : i < j => Good(i)
    BY <1>1, <2>2
  <2>4. PICK x \in 1 .. Len(t) : t[x] = s[j]
    <3>1. s[j] \in Range(t)
      BY <1>1, <2>3 DEF Range
    <3> QED
      BY <1>1, <3>1 DEF Range
  <2>5. x >= j
    <3> SUFFICES ASSUME x < j PROVE FALSE
      BY <1>1, <2>3
    <3>1. x \in 1 .. Len(s) /\ s[x] = t[x]
      BY <1>1, <2>3
    <3>2. s[x] < s[j]
      BY <1>1, <2>3, <3>1 DEF Rising
    <3> QED
      BY <1>1, <2>3, <2>4, <3>1, <3>2
  <2>6. j \in 1 .. Len(t) /\ t[j] <= s[j]
    <3>1. j \in 1 .. Len(t)
      BY <1>1, <2>3, <2>5
    <3>2. j # x => j < x
      BY <1>1, <2>5, <3>1
    <3>3. j # x => t[j] < t[x]
      BY <1>1, <3>1, <3>2 DEF Rising
    <3> QED
      BY <1>1, <2>4, <3>1, <3>3
  <2>7. PICK y \in 1 .. Len(s) : s[y] = t[j]
    <3>1. t[j] \in Range(s)
      BY <1>1, <2>6 DEF Range
    <3> QED
      BY <1>1, <3>1 DEF Range
  <2>8. y >= j
    <3> SUFFICES ASSUME y < j PROVE FALSE
      BY <1>1, <2>3
    <3>1. y \in 1 .. Len(t) /\ s[y] = t[y]
      BY <1>1, <2>3
    <3>2. t[y] < t[j]
      BY <1>1, <2>6, <3>1 DEF Rising
    <3> QED
      BY <1>1, <2>6, <2>7, <3>1, <3>2
  <2>9. j # y => s[j] < s[y]
    <3>1. j # y => j < y
      BY <1>1, <2>3, <2>8
    <3> QED
      BY <1>1, <2>3, <3>1 DEF Rising
  <2>10. s[j] = t[j]
    BY <1>1, <2>3, <2>6, <2>7, <2>9
  <2> QED
    BY <2>3, <2>6, <2>10
<1>3. \A i \in 1 .. Len(s) : Good(i)
  BY <1>2
<1>4. Len(s) <= Len(t)
  BY <1>1, <1>3
<1> QED
  BY <1>3, <1>4

LEMMA RisingIsOne ==
  ASSUME NEW s \in Seq(Nat), NEW t \in Seq(Nat), Rising(s), Rising(t), Range(s) = Range(t)
  PROVE  s = t
<1>1. /\ Len(s) <= Len(t) /\ \A i \in 1 .. Len(s) : s[i] = t[i]
      /\ Len(t) <= Len(s)
  BY RisingAlike
<1>2. Len(s) \in Nat /\ Len(t) \in Nat
  OBVIOUS
<1>3. Len(s) = Len(t)
  BY <1>1, <1>2
<1> QED
  BY <1>1, <1>3, SeqEqual

\* The places that a set holds, in order.
LEMMA PlacesAre ==
  ASSUME NEW n \in Nat, NEW P
  PROVE  /\ Places(n, P) \in Seq(1 .. n)
         /\ Range(Places(n, P)) = (1 .. n) \cap P
         /\ Rising(Places(n, P))
<1> DEFINE s == [i \in 1 .. n |-> i]
<1>1. s \in Seq(1 .. n) /\ Len(s) = n /\ Range(s) = 1 .. n /\ \A i \in 1 .. n : s[i] = i
  BY DEF Range
<1>2. Places(n, P) = Those(s, P)
  BY DEF Places
<1> HIDE DEF s
<1>3. PICK u : Chooses(u, 1 .. n, s, P)
  BY <1>1, ThoseUnfold
<1> DEFINE Good(m) == u[m] \in Seq(1 .. m) /\ Rising(u[m])
           T == {m \in Nat : Good(m)}
<1>4. Good(0)
  BY <1>3 DEF Chooses, Rising
<1>5. ASSUME NEW m \in 1 .. n, Good(m - 1) PROVE Good(m)
  <2>1. u[m] = IF m \in P THEN Append(u[m - 1], m) ELSE u[m - 1]
    BY <1>1, <1>3 DEF Chooses
  <2> DEFINE v == u[m - 1]
  <2>2. m \in Nat /\ m - 1 \in Nat /\ 1 .. m - 1 \subseteq 1 .. m /\ m \in 1 .. m
    OBVIOUS
  <2>3. v \in Seq(1 .. m - 1) /\ Rising(v)
    BY <1>5
  <2>4. v \in Seq(1 .. m) /\ Len(v) \in Nat /\ DOMAIN v = 1 .. Len(v) /\ \A i \in 1 .. Len(v) : v[i] \in 1 .. m - 1
    BY <2>2, <2>3, SeqMonotonic, LenProperties
  <2> HIDE DEF v
  <2>5. Append(v, m) \in Seq(1 .. m)
    BY <2>2, <2>4, AppendProperties
  <2>6. Rising(Append(v, m))
    <3>1. Len(Append(v, m)) = Len(v) + 1 /\ DOMAIN Append(v, m) = 1 .. Len(v) + 1
      BY <2>2, <2>4, <2>5, AppendProperties, LenProperties
    <3>2. Append(v, m)[Len(v) + 1] = m /\ \A i \in 1 .. Len(v) : Append(v, m)[i] = v[i]
      BY <2>2, <2>4, AppendProperties
    <3> SUFFICES ASSUME NEW i \in 1 .. Len(v) + 1, NEW j \in 1 .. Len(v) + 1, i < j
                 PROVE  Append(v, m)[i] < Append(v, m)[j]
      BY <3>1 DEF Rising
    <3>3. i \in 1 .. Len(v) /\ v[i] \in 1 .. m - 1
      BY <2>4
    <3>4. CASE j = Len(v) + 1
      BY <2>2, <3>2, <3>3, <3>4
    <3>5. CASE j # Len(v) + 1
      <4>1. j \in 1 .. Len(v)
        BY <2>4, <3>5
      <4>2. v[i] < v[j]
        BY <2>3, <2>4, <3>3, <4>1 DEF Rising
      <4> QED
        BY <3>2, <3>3, <4>1, <4>2
    <3> QED
      BY <3>4, <3>5
  <2>7. u[m] \in {v, Append(v, m)}
    BY <2>1 DEF v
  <2> QED
    BY <2>3, <2>4, <2>5, <2>6, <2>7
<1>6. \A m \in 0 .. n : m \in T
  <2>1. 0 \in T
    BY <1>4
  <2>2. ASSUME NEW m \in 1 .. n, m - 1 \in T PROVE m \in T
    <3> HIDE DEF Good
    <3> QED
      BY <1>5, <2>2
  <2> HIDE DEF T
  <2> QED
    BY <2>1, <2>2, InductionUpTo
<1>7. Good(n)
  BY <1>6
<1>8. Those(s, P) = u[n]
  BY <1>1, <1>3 DEF Chooses
<1>9. Range(Those(s, P)) = Range(s) \cap P
  BY <1>1, ThoseAre
<1> QED
  BY <1>1, <1>2, <1>7, <1>8, <1>9

-----------------------------------------------------------------------------
(* Lists of any members, numbers and orders                                  *)

LEMMA EmptyList == IsList(<<>>) /\ DOMAIN <<>> = {} /\ Range(<<>>) = {}
<1>1. DOMAIN <<>> = {}
  OBVIOUS
<1>2. Range(<<>>) = {}
  BY <1>1 DEF Range
<1>3. IsList(<<>>)
  BY DEF IsList
<1> QED
  BY <1>1, <1>2, <1>3

LEMMA ListIs ==
  ASSUME NEW s, IsList(s)
  PROVE  /\ Len(s) \in Nat /\ DOMAIN s = 1 .. Len(s) /\ IsFiniteSet(DOMAIN s)
         /\ Range(s) = {s[i] : i \in 1 .. Len(s)}
<1>1. s \in Seq(Range(s))
  BY DEF IsList
<1>2. Len(s) \in Nat /\ DOMAIN s = 1 .. Len(s)
  BY <1>1, LenProperties
<1>3. IsFiniteSet(1 .. Len(s))
  BY <1>2, FS_Interval
<1> QED
  BY <1>2, <1>3 DEF Range

LEMMA ListOf ==
  ASSUME NEW S, NEW s \in Seq(S)
  PROVE  IsList(s) /\ Range(s) \subseteq S
<1>1. Len(s) \in Nat /\ DOMAIN s = 1 .. Len(s) /\ \A i \in 1 .. Len(s) : s[i] \in S
  BY LenProperties
<1>2. \A i \in 1 .. Len(s) : s[i] \in Range(s)
  BY <1>1 DEF Range
<1>3. s = [i \in 1 .. Len(s) |-> s[i]]
  BY <1>1
<1>4. s \in Seq(Range(s))
  BY <1>1, <1>2, <1>3
<1> QED
  BY <1>1, <1>4 DEF IsList, Range

LEMMA Listed ==
  ASSUME NEW f, NEW n \in Nat, f = [i \in 1 .. n |-> f[i]]
  PROVE  IsList(f) /\ Len(f) = n
<1> DEFINE S == {f[i] : i \in 1 .. n}
<1>1. f \in Seq(S) /\ Len(f) = n
  OBVIOUS
<1> HIDE DEF S
<1> QED
  BY <1>1, ListOf

LEMMA LongerList ==
  ASSUME NEW s, IsList(s), NEW e
  PROVE  /\ IsList(Append(s, e)) /\ Range(Append(s, e)) = Range(s) \cup {e}
         /\ Len(Append(s, e)) = Len(s) + 1 /\ Append(s, e)[Len(s) + 1] = e
         /\ \A i \in 1 .. Len(s) : Append(s, e)[i] = s[i]
<1> DEFINE S == Range(s) \cup {e}
<1>1. s \in Seq(Range(s)) /\ Range(s) \subseteq S /\ e \in S
  BY DEF IsList
<1> HIDE DEF S
<1>2. s \in Seq(S)
  BY <1>1, SeqMonotonic
<1>3. Append(s, e) \in Seq(S)
  BY <1>1, <1>2, AppendProperties
<1>4. /\ Len(Append(s, e)) = Len(s) + 1 /\ Append(s, e)[Len(s) + 1] = e
      /\ \A i \in 1 .. Len(s) : Append(s, e)[i] = s[i]
  BY <1>1, <1>2, AppendProperties
<1>5. Range(Append(s, e)) = Range(s) \cup {e}
  BY <1>1, <1>2, RangeOfAppend
<1> QED
  BY <1>3, <1>4, <1>5, ListOf

\* Two lists make one, whose members are theirs in their order.
LEMMA JoinedLists ==
  ASSUME NEW s, IsList(s), NEW t, IsList(t)
  PROVE  /\ IsList(s \o t) /\ Len(s \o t) = Len(s) + Len(t) /\ Range(s \o t) = Range(s) \cup Range(t)
         /\ \A i \in 1 .. Len(s) : (s \o t)[i] = s[i]
         /\ \A i \in 1 .. Len(t) : (s \o t)[Len(s) + i] = t[i]
<1> DEFINE S == Range(s) \cup Range(t)
           m == Len(s)
           n == Len(t)
           b == s \o t
<1>1. s \in Seq(Range(s)) /\ t \in Seq(Range(t)) /\ Range(s) \subseteq S /\ Range(t) \subseteq S
  BY DEF IsList
<1>2. /\ m \in Nat /\ n \in Nat /\ DOMAIN s = 1 .. m /\ DOMAIN t = 1 .. n
      /\ Range(s) = {s[i] : i \in 1 .. m} /\ Range(t) = {t[i] : i \in 1 .. n}
  BY ListIs
<1> HIDE DEF S
<1>3. s \in Seq(S) /\ t \in Seq(S)
  BY <1>1, SeqMonotonic
<1>4. /\ b \in Seq(S) /\ Len(b) = m + n
      /\ \A i \in 1 .. m + n : b[i] = IF i <= m THEN s[i] ELSE t[i - m]
  BY <1>3, ConcatProperties
<1>5. IsList(b)
  BY <1>4, ListOf
<1>6. Range(b) = {b[i] : i \in 1 .. m + n}
  BY <1>4, <1>5, ListIs
<1> HIDE DEF m, n, b
<1>7. \A i \in 1 .. m : i \in 1 .. m + n /\ b[i] = s[i]
  BY <1>2, <1>4
<1>8. \A i \in 1 .. n : m + i \in 1 .. m + n /\ b[m + i] = t[i]
  <2> SUFFICES ASSUME NEW i \in 1 .. n PROVE m + i \in 1 .. m + n /\ b[m + i] = t[i]
    OBVIOUS
  <2>1. m + i \in 1 .. m + n /\ ~(m + i <= m) /\ (m + i) - m = i
    BY <1>2
  <2> QED
    BY <1>4, <2>1
<1>9. \A i \in 1 .. m + n : i \in 1 .. m \/ (i - m \in 1 .. n /\ i = m + (i - m))
  BY <1>2
<1>10. Range(b) = Range(s) \cup Range(t)
  BY <1>2, <1>6, <1>7, <1>8, <1>9, SMTT(60)
<1> QED
  BY <1>4, <1>5, <1>7, <1>8, <1>10 DEF m, n, b

LEMMA FirstOf ==
  ASSUME NEW s, IsList(s), NEW n \in 0 .. Len(s)
  PROVE  /\ IsList(SubSeq(s, 1, n)) /\ Len(SubSeq(s, 1, n)) = n
         /\ \A i \in 1 .. n : i \in DOMAIN s /\ SubSeq(s, 1, n)[i] = s[i]
         /\ Range(SubSeq(s, 1, n)) \subseteq Range(s)
<1>1. s \in Seq(Range(s)) /\ Len(s) \in Nat /\ n \in Nat /\ DOMAIN s = 1 .. Len(s)
  BY ListIs DEF IsList
<1>2. \A i \in 1 .. n : i \in 1 .. Len(s)
  BY <1>1
<1>3. SubSeq(s, 1, n) \in Seq(Range(s)) /\ Len(SubSeq(s, 1, n)) = n /\ \A i \in 1 .. n : SubSeq(s, 1, n)[i] = s[i]
  <2> DEFINE R == Range(s)
  <2> HIDE DEF R
  <2>1. SubSeq(s, 1, n) = [i \in 1 .. n |-> s[i]]
    BY <1>1
  <2>2. \A i \in 1 .. n : s[i] \in R
    BY <1>1, <1>2, SMTT(60) DEF R, Range
  <2> QED
    BY <1>1, <2>1, <2>2 DEF R
<1> QED
  BY <1>1, <1>2, <1>3, ListOf

LEMMA RestIs ==
  ASSUME NEW s, IsList(s)
  PROVE  /\ SubSeq(s, 1, Len(s)) = s
         /\ \A k \in 0 .. Len(s) : SubSeq(s, k + 1, Len(s)) = <<>> <=> k = Len(s)
         /\ \A k \in 0 .. Len(s) - 1 : /\ Head(SubSeq(s, k + 1, Len(s))) = s[k + 1]
                                     /\ Tail(SubSeq(s, k + 1, Len(s))) = SubSeq(s, k + 2, Len(s))
<1> DEFINE S == Range(s)
           n == Len(s)
           rest(k) == [i \in 1 .. n - k |-> s[k + i]]
<1>1. s \in Seq(S) /\ n \in Nat /\ \A i \in 1 .. n : s[i] \in S
  BY DEF IsList, Range
<1> HIDE DEF S
<1>2. ASSUME NEW k \in 0 .. n
      PROVE  SubSeq(s, k + 1, n) = rest(k) /\ rest(k) \in Seq(S) /\ Len(rest(k)) = n - k
  <2>1. n - k \in Nat /\ \A i \in 1 .. n - k : k + i \in 1 .. n
    BY <1>1
  <2>2. SubSeq(s, k + 1, n) = [i \in 1 .. n - (k + 1) + 1 |-> s[(k + 1) + i - 1]]
    BY <1>1
  <2>3. 1 .. n - (k + 1) + 1 = 1 .. n - k /\ \A i \in 1 .. n - k : (k + 1) + i - 1 = k + i
    BY <1>1
  <2> QED
    BY <1>1, <2>1, <2>2, <2>3
<1>3. SubSeq(s, 1, n) = s
  <2>1. SubSeq(s, 0 + 1, n) = rest(0) /\ rest(0) = [i \in 1 .. n |-> s[i]]
    BY <1>1, <1>2
  <2> QED
    BY <1>1, <2>1
<1>4. ASSUME NEW k \in 0 .. n PROVE SubSeq(s, k + 1, n) = <<>> <=> k = n
  <2>1. SubSeq(s, k + 1, n) = rest(k) /\ Len(rest(k)) = n - k
    BY <1>2
  <2>2. CASE k = n
    <3>1. rest(k) \in Seq(S) /\ Len(rest(k)) = 0
      BY <1>1, <1>2, <2>2
    <3> HIDE DEF rest
    <3>2. \A t \in Seq(S) : Len(t) = 0 => t = <<>>
      BY EmptySeq
    <3> QED
      BY <2>1, <2>2, <3>1, <3>2
  <2>3. ASSUME rest(k) = <<>> PROVE k = n
    <3>1. Len(rest(k)) = 0
      BY <2>3
    <3> HIDE DEF rest
    <3> QED
      BY <1>1, <2>1, <3>1
  <2> HIDE DEF rest
  <2> QED
    BY <2>1, <2>2, <2>3
<1>5. ASSUME NEW k \in 0 .. n - 1
      PROVE  Head(SubSeq(s, k + 1, n)) = s[k + 1] /\ Tail(SubSeq(s, k + 1, n)) = SubSeq(s, k + 2, n)
  <2>1. k \in 0 .. n /\ k + 1 \in 0 .. n /\ (k + 1) + 1 = k + 2 /\ 1 \in 1 .. n - k
    BY <1>1
  <2>2. SubSeq(s, k + 1, n) = rest(k) /\ rest(k) \in Seq(S) /\ Len(rest(k)) = n - k
    BY <1>2, <2>1
  <2>3. SubSeq(s, k + 2, n) = rest(k + 1) /\ rest(k + 1) \in Seq(S) /\ Len(rest(k + 1)) = n - (k + 1)
    BY <1>2, <2>1
  <2>4. rest(k)[1] = s[k + 1]
    BY <2>1
  <2>5. Tail(rest(k)) = [i \in 1 .. Len(rest(k)) - 1 |-> rest(k)[i + 1]]
    BY <2>2
  <2>6. 1 .. Len(rest(k)) - 1 = 1 .. n - (k + 1)
    BY <1>1, <2>2
  <2>7. \A i \in 1 .. n - (k + 1) : i + 1 \in 1 .. n - k /\ k + (i + 1) = (k + 1) + i
    BY <1>1
  <2>8. Tail(rest(k)) = rest(k + 1)
    BY <2>5, <2>6, <2>7
  <2>9. Head(rest(k)) = rest(k)[1]
    OBVIOUS
  <2> QED
    BY <2>2, <2>3, <2>4, <2>8, <2>9
<1> QED
  BY <1>3, <1>4, <1>5

LEMMA ThoseShorter ==
  ASSUME NEW S, NEW s \in Seq(S), NEW P
  PROVE  Len(Those(s, P)) <= Len(s)
<1>1. PICK u : Chooses(u, S, s, P)
  BY ThoseUnfold
<1> DEFINE T == {n \in Nat : Len(u[n]) <= n}
<1>2. Len(s) \in Nat /\ \A n \in 0 .. Len(s) : u[n] \in Seq(S) /\ Len(u[n]) \in Nat
  BY <1>1 DEF Chooses
<1>3. 0 \in T
  BY <1>1 DEF Chooses
<1>4. ASSUME NEW n \in 1 .. Len(s), n - 1 \in T PROVE n \in T
  <2>1. n - 1 \in 0 .. Len(s) /\ n \in Nat /\ s[n] \in S
    BY <1>2
  <2>2. u[n - 1] \in Seq(S) /\ Len(u[n - 1]) \in Nat /\ Len(u[n - 1]) <= n - 1
    BY <1>2, <1>4, <2>1
  <2>3. Len(Append(u[n - 1], s[n])) = Len(u[n - 1]) + 1
    BY <2>1, <2>2, AppendProperties
  <2>4. u[n] = IF s[n] \in P THEN Append(u[n - 1], s[n]) ELSE u[n - 1]
    BY <1>1 DEF Chooses
  <2>5. Len(u[n]) <= n
    BY <2>1, <2>2, <2>3, <2>4
  <2> QED
    BY <2>1, <2>5
<1>5. \A n \in 0 .. Len(s) : n \in T
  <2> HIDE DEF T
  <2> QED
    BY <1>2, <1>3, <1>4, InductionUpTo
<1>6. Len(u[Len(s)]) <= Len(s)
  BY <1>2, <1>5
<1> QED
  BY <1>1, <1>6 DEF Chooses

Distinct(s) == \A i, j \in DOMAIN s : s[i] = s[j] => i = j

\* A list without repetitions stays one when some of its members are taken.
LEMMA ThoseDistinct ==
  ASSUME NEW S, NEW s \in Seq(S), Distinct(s), NEW P
  PROVE  Distinct(Those(s, P))
<1>1. PICK u : Chooses(u, S, s, P)
  BY ThoseUnfold
<1> DEFINE N == Len(s)
           Good(n) == Distinct(u[n]) /\ Range(u[n]) \subseteq {s[i] : i \in 1 .. n}
           T == {n \in Nat : Good(n)}
<1>2. N \in Nat /\ DOMAIN s = 1 .. N /\ (\A n \in 1 .. N : s[n] \in S) /\ \A n \in 0 .. N : u[n] \in Seq(S)
  <2>1. N \in Nat /\ DOMAIN s = 1 .. N /\ \A n \in 1 .. N : s[n] \in S
    OBVIOUS
  <2>2. \A n \in 0 .. N : u[n] \in Seq(S)
    BY <1>1 DEF Chooses
  <2> QED
    BY <2>1, <2>2
<1>3. 0 \in T
  <2>1. u[0] = <<>>
    BY <1>1 DEF Chooses
  <2> QED
    BY <2>1, EmptyList DEF Distinct
<1>4. ASSUME NEW n \in 1 .. N, n - 1 \in T PROVE n \in T
  <2> DEFINE d == u[n - 1]
             t == s[n]
             e == Append(d, t)
             m == Len(d)
  <2>1. n \in Nat /\ n - 1 \in 0 .. N /\ Distinct(d) /\ Range(d) \subseteq {s[i] : i \in 1 .. n - 1} /\ t \in S
    BY <1>2, <1>4
  <2>2. u[n] = d \/ u[n] = e
    BY <1>1 DEF Chooses
  <2>3. IsList(d)
    BY <1>2, <2>1, ListOf
  <2>4. t \notin Range(d)
    <3> SUFFICES ASSUME NEW i \in 1 .. n - 1 PROVE s[i] # t
      BY <2>1
    <3>1. i \in 1 .. N /\ n \in 1 .. N /\ i # n
      BY <1>2
    <3> QED
      BY <1>2, <3>1 DEF Distinct
  <2> HIDE DEF d, t
  <2>5. /\ IsList(e) /\ Range(e) = Range(d) \cup {t} /\ Len(e) = m + 1 /\ e[m + 1] = t
        /\ \A j \in 1 .. m : e[j] = d[j]
    BY <2>3, LongerList
  <2>6. m \in Nat /\ DOMAIN d = 1 .. m /\ \A j \in 1 .. m : d[j] \in Range(d)
    BY <2>3, ListIs
  <2> HIDE DEF e
  <2>7. DOMAIN e = 1 .. m + 1
    BY <2>5, ListIs
  <2> HIDE DEF m
  <2>8. ASSUME NEW j \in 1 .. m + 1, NEW k \in 1 .. m + 1, e[j] = e[k] PROVE j = k
    <3>1. /\ j = m + 1 \/ (j \in 1 .. m /\ e[j] = d[j] /\ d[j] # t)
          /\ k = m + 1 \/ (k \in 1 .. m /\ e[k] = d[k] /\ d[k] # t)
      BY <2>4, <2>5, <2>6
    <3>2. j \in 1 .. m /\ k \in 1 .. m => (d[j] = d[k] => j = k)
      BY <2>1, <2>6 DEF Distinct
    <3> QED
      BY <2>5, <2>8, <3>1, <3>2
  <2>9. Distinct(e)
    BY <2>7, <2>8 DEF Distinct
  <2>10. /\ \A i \in 1 .. n - 1 : i \in 1 .. n
         /\ n \in 1 .. n
    BY <2>1
  <2>11. Range(d) \subseteq {s[i] : i \in 1 .. n} /\ Range(e) \subseteq {s[i] : i \in 1 .. n}
    BY <2>1, <2>5, <2>10 DEF t
  <2> QED
    BY <2>1, <2>2, <2>9, <2>11
<1>5. \A n \in 0 .. N : n \in T
  <2> HIDE DEF T
  <2> QED
    BY <1>2, <1>3, <1>4, InductionUpTo
<1>6. N \in 0 .. N
  BY <1>2
<1>7. Distinct(u[N])
  BY <1>5, <1>6
<1> QED
  BY <1>1, <1>7 DEF Chooses

\* A list without repetitions is as long as it has members.
LEMMA DistinctLength ==
  ASSUME NEW s, IsList(s), Distinct(s)
  PROVE  Cardinality(Range(s)) = Len(s)
<1> DEFINE n == Len(s)
           R == Range(s)
<1>1. n \in Nat /\ DOMAIN s = 1 .. n /\ R = {s[i] : i \in 1 .. n}
  BY ListIs
<1>2. IsFiniteSet(1 .. n) /\ Cardinality(1 .. n) = n
  <2>1. 1 \in Int /\ n \in Int
    BY <1>1
  <2>2. IsFiniteSet(1 .. n) /\ Cardinality(1 .. n) = IF 1 > n THEN 0 ELSE n - 1 + 1
    BY <2>1, FS_Interval
  <2> QED
    BY <1>1, <2>2
<1> DEFINE f == [i \in 1 .. n |-> s[i]]
<1>3. f \in Surjection(1 .. n, R) /\ f \in Injection(1 .. n, R)
  BY <1>1 DEF Surjection, Injection, IsInjective, Distinct
<1> HIDE DEF f, R, n
<1>4. Cardinality(R) = Cardinality(1 .. n)
  BY <1>2, <1>3, FS_Surjection
<1> QED
  BY <1>2, <1>4 DEF R, n

LEMMA FlattenLength ==
  ASSUME NEW S, NEW s \in Seq(Seq(S)), NEW m \in Nat, \A i \in 1 .. Len(s) : Len(s[i]) <= m
  PROVE  Len(FlattenSeq(s)) <= Len(s) * m
<1>1. PICK u : Joins(u, S, s)
  BY FlattenUnfold
<1> DEFINE N == Len(s)
           T == {i \in Nat : Len(u[i]) <= i * m}
<1>2. N \in Nat /\ (\A i \in 1 .. N : s[i] \in Seq(S)) /\ \A i \in 0 .. N : u[i] \in Seq(S)
  BY <1>1 DEF Joins
<1>3. 0 \in T
  BY <1>1 DEF Joins
<1>4. ASSUME NEW i \in 1 .. N, i - 1 \in T PROVE i \in T
  <2> DEFINE b == u[i - 1]
             c == s[i]
             x == Len(b)
             y == Len(c)
             z == (i - 1) * m
  <2>1. i \in Nat /\ i - 1 \in 0 .. N /\ x <= z
    BY <1>2, <1>4
  <2>2. b \in Seq(S) /\ c \in Seq(S) /\ y <= m
    BY <1>2, <2>1
  <2>3. u[i] = b \o c
    BY <1>1 DEF Joins
  <2> HIDE DEF b, c
  <2>4. x \in Nat /\ y \in Nat /\ Len(b \o c) = x + y
    BY <2>2, ConcatProperties
  <2>5. z \in Int /\ i * m = z + m
    BY <2>1
  <2> HIDE DEF x, y, z
  <2>6. x + y <= i * m
    BY <2>1, <2>2, <2>4, <2>5
  <2> QED
    BY <2>1, <2>3, <2>4, <2>6
<1>5. \A i \in 0 .. N : i \in T
  <2> HIDE DEF T
  <2> QED
    BY <1>2, <1>3, <1>4, InductionUpTo
<1>6. Len(u[N]) <= N * m
  BY <1>2, <1>5
<1> QED
  BY <1>1, <1>6 DEF Joins

LEMMA IntList ==
  ASSUME NEW n \in Nat, NEW f, f = [i \in 1 .. n |-> f[i]], \A i \in 1 .. n : f[i] \in Int
  PROVE  f \in Seq(Int) /\ Len(f) = n
OBVIOUS

LEMMA MinOfTwo ==
  ASSUME NEW a \in Nat, NEW b \in Nat
  PROVE  Min({a, b}) \in Nat /\ Min({a, b}) <= a /\ Min({a, b}) <= b /\ Min({a, b}) \in {a, b}
<1>1. \E x \in {a, b} : \A y \in {a, b} : x <= y
  OBVIOUS
<1>2. Min({a, b}) \in {a, b} /\ \A y \in {a, b} : Min({a, b}) <= y
  BY <1>1 DEF Min
<1> QED
  BY <1>2

LEMMA FiniteImage ==
  ASSUME NEW S, IsFiniteSet(S), NEW f, DOMAIN f = S
  PROVE  IsFiniteSet({f[x] : x \in S})
<1> DEFINE T == {f[x] : x \in S}
           g == [x \in S |-> f[x]]
<1>1. g \in Surjection(S, T)
  BY DEF Surjection
<1> QED
  BY <1>1, FS_Surjection

LEMMA FiniteMax ==
  ASSUME NEW S \in SUBSET Int, IsFiniteSet(S), S # {}
  PROVE  \E x \in S : \A y \in S : y <= x
<1> DEFINE Good(T) == T # {} => \E x \in T : \A y \in T : y <= x
           N == {n \in Nat : \A T \in SUBSET Int : IsFiniteSet(T) /\ Cardinality(T) = n => Good(T)}
<1>1. 0 \in N
  BY FS_EmptySet
<1>2. ASSUME NEW n \in Nat, n \in N PROVE n + 1 \in N
  <2> SUFFICES ASSUME NEW T \in SUBSET Int, IsFiniteSet(T), Cardinality(T) = n + 1 PROVE Good(T)
    OBVIOUS
  <2>1. PICK z \in T : TRUE
    <3>1. n + 1 # 0
      OBVIOUS
    <3>2. T # {}
      BY <3>1, FS_EmptySet
    <3> QED
      BY <3>2
  <2> DEFINE U == T \ {z}
  <2>2. IsFiniteSet(U) /\ Cardinality(U) = n
    BY <2>1, FS_RemoveElement, SMTT(60)
  <2>3. Good(U)
    BY <1>2, <2>2
  <2>4. CASE U = {}
    <3>1. \A y \in T : y = z
      BY <2>1, <2>4
    <3> QED
      BY <2>1, <3>1
  <2>5. CASE U # {}
    <3>1. PICK x \in U : \A y \in U : y <= x
      BY <2>3, <2>5
    <3>2. \A y \in T : y \in U \/ y = z
      OBVIOUS
    <3>3. x \in Int /\ z \in Int /\ x \in T /\ z \in T
      BY <2>1, <3>1
    <3>4. CASE x <= z
      <4>1. ASSUME NEW y \in T PROVE y <= z
        <5>1. y \in Int
          OBVIOUS
        <5> QED
          BY <3>1, <3>2, <3>3, <3>4, <5>1
      <4> QED
        BY <3>3, <4>1
    <3>5. CASE ~(x <= z)
      <4>1. ASSUME NEW y \in T PROVE y <= x
        BY <3>1, <3>2, <3>3, <3>5
      <4> QED
        BY <3>3, <4>1
    <3> QED
      BY <3>4, <3>5
  <2> QED
    BY <2>4, <2>5
<1>3. \A n \in Nat : n \in N
  <2> HIDE DEF N
  <2> QED
    BY <1>1, <1>2, Induction
<1>4. Cardinality(S) \in Nat
  BY FS_CardinalityType
<1>5. Good(S)
  BY <1>3, <1>4
<1> QED
  BY <1>5

\* The greatest of finitely many numbers.
LEMMA GreatestIs ==
  ASSUME NEW S, S \subseteq Int, IsFiniteSet(S), S # {}
  PROVE  Max(S) \in S /\ Max(S) \in Int /\ \A x \in S : x <= Max(S)
<1>1. S \in SUBSET Int
  OBVIOUS
<1>2. PICK m \in S : \A x \in S : x <= m
  BY <1>1, FiniteMax
<1>3. \A x \in S : m >= x
  BY <1>2
<1>4. Max(S) \in S /\ \A x \in S : Max(S) >= x
  BY <1>3 DEF Max
<1> QED
  BY <1>4

\* Counting who comes before each place puts every place of a strict order into one rank.
StrictOrder(n, before) ==
  /\ before \in [1 .. n -> SUBSET (1 .. n)]
  /\ \A i \in 1 .. n : i \notin before[i]
  /\ \A i, j \in 1 .. n : i = j \/ i \in before[j] \/ j \in before[i]
  /\ \A i, j \in 1 .. n : i \in before[j] => before[i] \subseteq before[j]

Ranks(rank, n, before) ==
  /\ rank \in [1 .. n -> 1 .. n]
  /\ \A i \in 1 .. n : Cardinality(before[i]) = rank[i] - 1
  /\ \A i, j \in 1 .. n : rank[i] = rank[j] => i = j
  /\ \A r \in 1 .. n : \E i \in 1 .. n : rank[i] = r

LEMMA OrderedPlaces ==
  ASSUME NEW n \in Nat, NEW before, StrictOrder(n, before)
  PROVE  \E rank : Ranks(rank, n, before)
<1>0. /\ before \in [1 .. n -> SUBSET (1 .. n)]
      /\ \A i \in 1 .. n : i \notin before[i]
      /\ \A i, j \in 1 .. n : i = j \/ i \in before[j] \/ j \in before[i]
      /\ \A i, j \in 1 .. n : i \in before[j] => before[i] \subseteq before[j]
  BY DEF StrictOrder
<1> DEFINE rank == [i \in 1 .. n |-> Cardinality(before[i]) + 1]
<1>1. IsFiniteSet(1 .. n) /\ Cardinality(1 .. n) = n
  <2>1. 1 \in Int /\ n \in Int
    OBVIOUS
  <2>2. IsFiniteSet(1 .. n) /\ Cardinality(1 .. n) = IF 1 > n THEN 0 ELSE n - 1 + 1
    BY <2>1, FS_Interval
  <2> QED
    BY <2>2
<1>2. ASSUME NEW i \in 1 .. n PROVE IsFiniteSet(before[i]) /\ Cardinality(before[i]) \in 0 .. n - 1
  <2>1. before[i] \in SUBSET (1 .. n)
    BY <1>0
  <2>2. IsFiniteSet(before[i]) /\ Cardinality(before[i]) <= n /\ (n = Cardinality(before[i]) => 1 .. n = before[i])
    BY <1>1, <2>1, FS_Subset
  <2>3. Cardinality(before[i]) \in Nat
    BY <2>2, FS_CardinalityType
  <2>4. 1 .. n # before[i]
    BY <1>0
  <2> QED
    BY <2>2, <2>3, <2>4
<1>3. ASSUME NEW i \in 1 .. n, NEW j \in 1 .. n, i \in before[j] PROVE Cardinality(before[i]) # Cardinality(before[j])
  <2>1. before[i] \in SUBSET before[j] /\ before[i] # before[j]
    BY <1>0, <1>3
  <2>2. IsFiniteSet(before[j])
    BY <1>2
  <2>3. Cardinality(before[j]) = Cardinality(before[i]) => before[j] = before[i]
    BY <2>1, <2>2, FS_Subset
  <2> QED
    BY <2>1, <2>3
<1>4. rank \in [1 .. n -> 1 .. n] /\ \A i \in 1 .. n : Cardinality(before[i]) = rank[i] - 1
  BY <1>2
<1>5. \A i, j \in 1 .. n : rank[i] = rank[j] => i = j
  <2> SUFFICES ASSUME NEW i \in 1 .. n, NEW j \in 1 .. n, rank[i] = rank[j] PROVE i = j
    OBVIOUS
  <2> HIDE DEF rank
  <2>1. Cardinality(before[i]) = Cardinality(before[j])
    BY <1>4
  <2> QED
    BY <1>0, <1>3, <2>1
<1> HIDE DEF rank
<1>6. rank \in Injection(1 .. n, 1 .. n)
  BY <1>4, <1>5 DEF Injection, IsInjective
<1>7. rank \in Surjection(1 .. n, 1 .. n)
  BY <1>1, <1>6, FS_Injection
<1>8. \A r \in 1 .. n : \E i \in 1 .. n : rank[i] = r
  BY <1>7 DEF Surjection
<1> QED
  BY <1>4, <1>5, <1>8, Zenon DEF Ranks
=============================================================================
