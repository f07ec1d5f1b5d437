---------------------------- MODULE RecheckProofs ----------------------------
(***************************************************************************)
(* Theorems about Recheck, for any uploads, any encoder and any lengths:   *)
(* which copies the greedy search reports, that the counts of the overview *)
(* add up, that a long copy that is neither cited nor quoted is acted on,  *)
(* and that a flag is resolved for a cause.                                *)
(***************************************************************************)
EXTENDS Recheck, ListProofs

-----------------------------------------------------------------------------
(* The words of a text                                                       *)

LEMMA TokensAre ==
  ASSUME NEW S, NEW t \in Seq(S)
  PROVE  /\ Tokens(t) \in Seq(1 .. Len(t)) /\ Tokens(t) \in Seq(Nat)
         /\ Rising(Tokens(t))
         /\ Range(Tokens(t)) = {i \in 1 .. Len(t) : IsWord(t[i])}
<1>1. Len(t) \in Nat /\ DOMAIN t = 1 .. Len(t)
  BY LenProperties
<1> DEFINE P == {i \in 1 .. Len(t) : IsWord(t[i])}
<1>2. Tokens(t) = Places(Len(t), P) /\ (1 .. Len(t)) \cap P = P
  BY <1>1 DEF Tokens
<1> HIDE DEF P
<1>3. Tokens(t) \in Seq(1 .. Len(t)) /\ Range(Tokens(t)) = P /\ Rising(Tokens(t))
  BY <1>1, <1>2, PlacesAre
<1>4. 1 .. Len(t) \subseteq Nat
  BY <1>1
<1>5. Tokens(t) \in Seq(Nat)
  BY <1>3, <1>4, SeqMonotonic
<1> QED
  BY <1>3, <1>5 DEF P

LEMMA NormsAre ==
  ASSUME NEW S, NEW t \in Seq(S)
  PROVE  /\ Norms(t) \in Seq({x.norm : x \in S})
         /\ Len(Norms(t)) = Len(Tokens(t)) /\ Len(Norms(t)) \in Nat /\ DOMAIN Norms(t) = 1 .. Len(Norms(t))
         /\ \A i \in 1 .. Len(Tokens(t)) : Norms(t)[i] = t[Tokens(t)[i]].norm
<1> DEFINE k == Tokens(t)
<1>1. Len(k) \in Nat /\ DOMAIN k = 1 .. Len(k) /\ \A i \in 1 .. Len(k) : k[i] \in 1 .. Len(t)
  BY TokensAre, LenProperties
<1>2. Norms(t) = [i \in 1 .. Len(k) |-> t[k[i]].norm]
  BY <1>1 DEF Norms
<1> HIDE DEF k
<1>3. \A i \in 1 .. Len(k) : t[k[i]] \in S
  BY <1>1, ElementOfSeq
<1>4. Norms(t) \in Seq({x.norm : x \in S})
  BY <1>1, <1>2, <1>3
<1>5. Len(Norms(t)) = Len(k) /\ DOMAIN Norms(t) = 1 .. Len(k)
  BY <1>1, <1>2
<1> QED
  BY <1>1, <1>2, <1>4, <1>5 DEF k

\* The words of a slice from one word of a text to another.
LEMMA NormsOfSlice ==
  ASSUME NEW S, NEW t \in Seq(S), NEW a \in 1 .. Len(Tokens(t)), NEW b \in a .. Len(Tokens(t))
  PROVE  Norms(Slice(t, <<Tokens(t)[a], Tokens(t)[b]>>)) = SubSeq(Norms(t), a, b)
<1> DEFINE k == Tokens(t)
           u == SubSeq(t, k[a], k[b])
           g == [j \in 1 .. b - a + 1 |-> k[a + j - 1] - k[a] + 1]
<1>1. /\ Len(k) \in Nat /\ DOMAIN k = 1 .. Len(k) /\ \A i \in 1 .. Len(k) : k[i] \in 1 .. Len(t)
      /\ Rising(k) /\ Range(k) = {i \in 1 .. Len(t) : IsWord(t[i])} /\ Len(t) \in Nat
  BY TokensAre, LenProperties
<1>2. Slice(t, <<k[a], k[b]>>) = u
  BY DEF Slice
<1> HIDE DEF k
<1>3. a \in Nat /\ b \in Nat /\ 1 <= a /\ a <= b /\ b <= Len(k)
  BY <1>1 DEF k
<1>4. a \in 1 .. Len(k) /\ b \in 1 .. Len(k) /\ k[a] \in 1 .. Len(t) /\ k[b] \in 1 .. Len(t) /\ k[a] <= k[b]
  <2>1. a \in 1 .. Len(k) /\ b \in 1 .. Len(k)
    BY <1>1, <1>3
  <2>2. a < b => k[a] < k[b]
    BY <1>1, <2>1 DEF Rising
  <2> QED
    BY <1>1, <1>3, <2>1, <2>2
<1>5. /\ u \in Seq(S) /\ Len(u) = k[b] - k[a] + 1
      /\ \A i \in 1 .. k[b] - k[a] + 1 : u[i] = t[k[a] + i - 1]
  <2>1. k[a] \in Int /\ k[b] \in Int /\ \A i \in k[a] .. k[b] : t[i] \in S
    BY <1>1, <1>4, ElementOfSeq
  <2> QED
    BY <1>4, <2>1, SubSeqProperties
<1> HIDE DEF u
<1>6. ASSUME NEW j \in 1 .. b - a + 1
      PROVE  /\ a + j - 1 \in a .. b /\ a + j - 1 \in 1 .. Len(k) /\ k[a + j - 1] \in Nat
             /\ g[j] \in 1 .. Len(u) /\ g[j] = k[a + j - 1] - k[a] + 1 /\ k[a] + g[j] - 1 = k[a + j - 1]
  <2>1. a + j - 1 \in a .. b /\ a + j - 1 \in 1 .. Len(k)
    BY <1>1, <1>3
  <2>2. a < a + j - 1 => k[a] < k[a + j - 1]
    BY <1>1, <1>4, <2>1 DEF Rising
  <2>3. a + j - 1 < b => k[a + j - 1] < k[b]
    BY <1>1, <1>4, <2>1 DEF Rising
  <2>4. k[a + j - 1] \in Nat /\ k[a] <= k[a + j - 1] /\ k[a + j - 1] <= k[b]
    <3>1. a + j - 1 = a \/ a < a + j - 1
      BY <1>3, <2>1
    <3>2. a + j - 1 = b \/ a + j - 1 < b
      BY <1>3, <2>1
    <3>3. k[a + j - 1] \in Nat
      BY <1>1, <2>1
    <3> QED
      BY <1>4, <2>2, <2>3, <3>1, <3>2, <3>3
  <2> QED
    BY <1>4, <1>5, <2>1, <2>4, SMTT(60)
<1>7. g \in Seq(Nat) /\ Len(g) = b - a + 1 /\ DOMAIN g = 1 .. b - a + 1
  <2>1. b - a + 1 \in Nat
    BY <1>3
  <2>2. \A j \in 1 .. b - a + 1 : k[a + j - 1] - k[a] + 1 \in Nat
    <3> SUFFICES ASSUME NEW j \in 1 .. b - a + 1 PROVE k[a + j - 1] - k[a] + 1 \in Nat
      OBVIOUS
    <3>1. g[j] \in 1 .. Len(u) /\ g[j] = k[a + j - 1] - k[a] + 1
      BY <1>6
    <3> HIDE DEF g
    <3> QED
      BY <3>1
  <2> QED
    BY <2>1, <2>2
<1>8. Rising(g)
  <2> SUFFICES ASSUME NEW i \in 1 .. b - a + 1, NEW j \in 1 .. b - a + 1, i < j PROVE g[i] < g[j]
    BY <1>7 DEF Rising
  <2>1. k[a + i - 1] < k[a + j - 1]
    <3>1. a + i - 1 < a + j - 1 /\ a + i - 1 \in DOMAIN k /\ a + j - 1 \in DOMAIN k
      BY <1>1, <1>3, <1>6
    <3> QED
      BY <1>1, <3>1 DEF Rising
  <2>2. g[i] = k[a + i - 1] - k[a] + 1 /\ g[j] = k[a + j - 1] - k[a] + 1
    BY <1>6
  <2>3. k[a + i - 1] \in Nat /\ k[a + j - 1] \in Nat /\ k[a] \in Nat
    BY <1>1, <1>4, <1>6
  <2> HIDE DEF g
  <2> QED
    BY <2>1, <2>2, <2>3
<1> HIDE DEF g
<1>9. Range(g) = Range(Tokens(u))
  <2>1. Range(Tokens(u)) = {i \in 1 .. Len(u) : IsWord(u[i])}
    BY <1>5, TokensAre
  <2>2. ASSUME NEW j \in 1 .. b - a + 1 PROVE g[j] \in 1 .. Len(u) /\ u[g[j]] = t[k[a + j - 1]] /\ IsWord(u[g[j]])
    <3>1. u[g[j]] = t[k[a] + g[j] - 1]
      BY <1>5, <1>6
    <3>2. k[a] + g[j] - 1 = k[a + j - 1]
      BY <1>6
    <3>3. k[a + j - 1] \in Range(k)
      BY <1>1, <1>6 DEF Range
    <3> QED
      BY <1>1, <1>6, <3>1, <3>2, <3>3
  <2>3. ASSUME NEW i \in 1 .. Len(u), IsWord(u[i]) PROVE \E j \in 1 .. b - a + 1 : g[j] = i
    <3>0. i \in 1 .. k[b] - k[a] + 1 /\ k[a] \in Nat /\ k[b] \in Nat /\ 1 <= k[a] /\ k[b] <= Len(t)
      BY <1>1, <1>4, <1>5
    <3>1. u[i] = t[k[a] + i - 1] /\ k[a] + i - 1 \in 1 .. Len(t) /\ k[a] + i - 1 <= k[b] /\ k[a] <= k[a] + i - 1
      <4>1. k[a] + i - 1 \in 1 .. Len(t) /\ k[a] + i - 1 <= k[b] /\ k[a] <= k[a] + i - 1
        BY <1>1, <3>0, SMTT(60)
      <4> QED
        BY <1>5, <3>0, <4>1
    <3>2. PICK x \in 1 .. Len(k) : k[x] = k[a] + i - 1
      <4>1. k[a] + i - 1 \in Range(k)
        BY <1>1, <2>3, <3>1
      <4> QED
        BY <1>1, <4>1 DEF Range
    <3>3. ~(x < a) /\ ~(b < x)
      <4>1. x < a => k[x] < k[a]
        BY <1>1, <1>4 DEF Rising
      <4>2. b < x => k[b] < k[x]
        BY <1>1, <1>4 DEF Rising
      <4> QED
        BY <1>4, <3>1, <3>2, <4>1, <4>2
    <3>4. x - a + 1 \in 1 .. b - a + 1 /\ a + (x - a + 1) - 1 = x
      BY <1>1, <1>3, <3>3
    <3>5. g[x - a + 1] = k[x] - k[a] + 1
      BY <1>6, <3>4
    <3>6. g[x - a + 1] = i
      BY <1>4, <3>2, <3>5
    <3> QED
      BY <3>4, <3>6
  <2>4. Range(g) = {g[j] : j \in 1 .. b - a + 1}
    BY <1>7 DEF Range
  <2> QED
    BY <2>1, <2>2, <2>3, <2>4
<1>10. Tokens(u) = g
  <2>1. Tokens(u) \in Seq(Nat) /\ Rising(Tokens(u))
    BY <1>5, TokensAre
  <2> QED
    BY <1>7, <1>8, <1>9, <2>1, RisingIsOne
<1>11. /\ Len(Norms(u)) = b - a + 1 /\ Norms(u) \in Seq({x.norm : x \in S})
       /\ \A j \in 1 .. b - a + 1 : Norms(u)[j] = u[g[j]].norm
  BY <1>5, <1>7, <1>10, NormsAre
<1>12. /\ Norms(t) \in Seq({x.norm : x \in S})
       /\ \A i \in 1 .. Len(k) : Norms(t)[i] = t[k[i]].norm
       /\ Len(Norms(t)) = Len(k)
  BY NormsAre DEF k
<1>13. /\ SubSeq(Norms(t), a, b) \in Seq({x.norm : x \in S})
       /\ Len(SubSeq(Norms(t), a, b)) = b - a + 1
       /\ \A j \in 1 .. b - a + 1 : SubSeq(Norms(t), a, b)[j] = Norms(t)[a + j - 1]
  <2>1. a \in Int /\ b \in Int /\ a <= b /\ \A i \in a .. b : Norms(t)[i] \in {x.norm : x \in S}
    BY <1>3, <1>12, ElementOfSeq
  <2> QED
    BY <2>1, SubSeqProperties
<1>14. ASSUME NEW j \in 1 .. b - a + 1 PROVE Norms(u)[j] = SubSeq(Norms(t), a, b)[j]
  <2>1. u[g[j]] = t[k[a + j - 1]]
    <3>1. k[a] + g[j] - 1 = k[a + j - 1]
      BY <1>6
    <3> QED
      BY <1>5, <1>6, <3>1
  <2>2. Norms(t)[a + j - 1] = t[k[a + j - 1]].norm
    BY <1>6, <1>12
  <2> QED
    BY <1>11, <1>13, <2>1, <2>2
<1>15. Norms(u) = SubSeq(Norms(t), a, b)
  BY <1>11, <1>13, <1>14, SeqEqual
<1> QED
  BY <1>2, <1>15 DEF k

-----------------------------------------------------------------------------
(* The longest copy that begins at a word                                    *)

\* From there on, n words of the one text are those of the other.
Agree(text, norm, x, i, n) ==
  x + n - 1 <= Len(text) /\ i + n - 1 <= Len(norm) /\ \A k \in 0 .. n - 1 : text[x + k] = norm[i + k]

LEMMA RunLengthIs ==
  ASSUME NEW A, NEW text \in Seq(A), NEW norm \in Seq(A), NEW x \in 1 .. Len(text), NEW i \in 1 .. Len(norm)
  PROVE  /\ RunLength(text, norm, x, i) \in Nat
         /\ Agree(text, norm, x, i, RunLength(text, norm, x, i))
         /\ \A n \in Nat : Agree(text, norm, x, i, n) => n <= RunLength(text, norm, x, i)
<1> DEFINE least == Min({Len(text) - x, Len(norm) - i})
           most == least + 1
           Fits(n) == /\ \A k \in 0 .. n - 1 : text[x + k] = norm[i + k]
                      /\ n = most \/ text[x + n] # norm[i + n]
           r == CHOOSE n \in 0 .. most : Fits(n)
<1>1. Len(text) \in Nat /\ Len(norm) \in Nat /\ x \in Nat /\ i \in Nat
  OBVIOUS
<1>2. RunLength(text, norm, x, i) = r
  BY DEF RunLength
<1>3. /\ least \in Nat /\ least <= Len(text) - x /\ least <= Len(norm) - i
      /\ least = Len(text) - x \/ least = Len(norm) - i
  <2> DEFINE p == Len(text) - x
             q == Len(norm) - i
  <2>1. p \in Nat /\ q \in Nat
    OBVIOUS
  <2>2. least = Min({p, q})
    OBVIOUS
  <2> HIDE DEF p, q, least
  <2>3. \E m \in {p, q} : \A y \in {p, q} : m <= y
    BY <2>1
  <2>4. least \in {p, q} /\ \A y \in {p, q} : least <= y
    BY <2>2, <2>3 DEF Min
  <2>5. least \in Nat /\ least <= p /\ least <= q /\ (least = p \/ least = q)
    BY <2>1, <2>4
  <2> QED
    BY <2>5 DEF p, q
<1> HIDE DEF least
<1>4. \E n \in 0 .. most : Fits(n)
  <2> DEFINE S == {n \in 0 .. most : n = most \/ text[x + n] # norm[i + n]}
  <2>1. S \in SUBSET Nat /\ S # {}
    <3>1. most \in 0 .. most /\ 0 .. most \subseteq Nat
      BY <1>3
    <3> QED
      BY <3>1
  <2>2. PICK n \in S : \A y \in S : n <= y
    <3> HIDE DEF S
    <3> QED
      BY <2>1, LeastOf
  <2>3. ASSUME NEW k \in 0 .. n - 1 PROVE text[x + k] = norm[i + k]
    <3>1. k \in 0 .. most /\ k # most /\ ~(n <= k)
      BY <1>3, <2>2
    <3> QED
      BY <2>2, <3>1
  <2> QED
    BY <2>2, <2>3
<1> HIDE DEF Fits
<1>5. r \in 0 .. most /\ Fits(r)
  BY <1>4
<1> HIDE DEF r
<1>6. r \in Nat /\ x + r - 1 <= Len(text) /\ i + r - 1 <= Len(norm)
  BY <1>1, <1>3, <1>5
<1>7. Agree(text, norm, x, i, r)
  BY <1>5, <1>6 DEF Fits, Agree
<1>8. ASSUME NEW n \in Nat, Agree(text, norm, x, i, n) PROVE n <= r
  <2> SUFFICES ASSUME r < n PROVE FALSE
    BY <1>6
  <2>1. r \in 0 .. n - 1 /\ n <= most
    BY <1>1, <1>3, <1>6, <1>8 DEF Agree
  <2>2. r # most
    BY <1>3, <1>6, <2>1
  <2>3. text[x + r] = norm[i + r]
    BY <1>8, <2>1 DEF Agree
  <2> QED
    BY <1>5, <2>2, <2>3 DEF Fits
<1> QED
  BY <1>2, <1>6, <1>7, <1>8

\* Words agree where the parts of the texts are the same.
LEMMA AgreeIsSame ==
  ASSUME NEW A, NEW text \in Seq(A), NEW norm \in Seq(A), NEW x \in 1 .. Len(text), NEW i \in 1 .. Len(norm),
         NEW n \in Nat, x + n - 1 <= Len(text), i + n - 1 <= Len(norm)
  PROVE  /\ Agree(text, norm, x, i, n) <=> SubSeq(norm, i, i + n - 1) = SubSeq(text, x, x + n - 1)
         /\ SubSeq(text, x, x + n - 1) \in Seq(A) /\ Len(SubSeq(text, x, x + n - 1)) = n
<1> DEFINE u == SubSeq(text, x, x + n - 1)
           v == SubSeq(norm, i, i + n - 1)
<1>1. u \in Seq(A) /\ Len(u) = n /\ \A k \in 1 .. n : u[k] = text[x + k - 1]
  <2>1. \A j \in x .. x + n - 1 : text[j] \in A
    BY ElementOfSeq
  <2>2. /\ u \in Seq(A) /\ Len(u) = IF x <= x + n - 1 THEN (x + n - 1) - x + 1 ELSE 0
        /\ \A k \in 1 .. (x + n - 1) - x + 1 : u[k] = text[x + k - 1]
    BY <2>1, SubSeqProperties
  <2>3. (x + n - 1) - x + 1 = n /\ (IF x <= x + n - 1 THEN (x + n - 1) - x + 1 ELSE 0) = n
    OBVIOUS
  <2> HIDE DEF u
  <2> QED
    BY <2>2, <2>3
<1>2. v \in Seq(A) /\ Len(v) = n /\ \A k \in 1 .. n : v[k] = norm[i + k - 1]
  <2>1. \A j \in i .. i + n - 1 : norm[j] \in A
    BY ElementOfSeq
  <2>2. /\ v \in Seq(A) /\ Len(v) = IF i <= i + n - 1 THEN (i + n - 1) - i + 1 ELSE 0
        /\ \A k \in 1 .. (i + n - 1) - i + 1 : v[k] = norm[i + k - 1]
    BY <2>1, SubSeqProperties
  <2>3. (i + n - 1) - i + 1 = n /\ (IF i <= i + n - 1 THEN (i + n - 1) - i + 1 ELSE 0) = n
    OBVIOUS
  <2> HIDE DEF v
  <2> QED
    BY <2>2, <2>3
<1> HIDE DEF u, v
<1>3. ASSUME Agree(text, norm, x, i, n) PROVE v = u
  <2>1. ASSUME NEW k \in 1 .. n PROVE v[k] = u[k]
    <3>1. k - 1 \in 0 .. n - 1 /\ x + (k - 1) = x + k - 1 /\ i + (k - 1) = i + k - 1
      OBVIOUS
    <3>2. text[x + (k - 1)] = norm[i + (k - 1)]
      BY <1>3, <3>1 DEF Agree
    <3> QED
      BY <1>1, <1>2, <3>1, <3>2
  <2> QED
    BY <1>1, <1>2, <2>1, SeqEqual
<1>4. ASSUME v = u PROVE Agree(text, norm, x, i, n)
  <2> SUFFICES ASSUME NEW k \in 0 .. n - 1 PROVE text[x + k] = norm[i + k]
    BY DEF Agree
  <2>1. k + 1 \in 1 .. n /\ x + (k + 1) - 1 = x + k /\ i + (k + 1) - 1 = i + k
    OBVIOUS
  <2>2. u[k + 1] = text[x + (k + 1) - 1] /\ v[k + 1] = norm[i + (k + 1) - 1]
    BY <1>1, <1>2, <2>1
  <2> QED
    BY <1>4, <2>1, <2>2
<1> QED
  BY <1>1, <1>3, <1>4 DEF u, v

LEMMA SameWords ==
  ASSUME NEW A, NEW text \in Seq(A), NEW norm \in Seq(A), NEW x \in 1 .. Len(text), NEW i \in 1 .. Len(norm),
         NEW n \in Nat, Agree(text, norm, x, i, n)
  PROVE  SubSeq(norm, i, i + n - 1) = SubSeq(text, x, x + n - 1)
<1>1. x + n - 1 <= Len(text) /\ i + n - 1 <= Len(norm)
  BY DEF Agree
<1> QED
  BY <1>1, AgreeIsSame

\* The sources as the search sees them: lists of words.
AreNorms(norms, A) == DOMAIN norms \subseteq Nat /\ \A s \in DOMAIN norms : norms[s] \in Seq(A)

LEMMA SeedsAre ==
  ASSUME NEW A, NEW text \in Seq(A), NEW norms, AreNorms(norms, A), NEW x \in Nat \ {0}, x + NGram - 1 <= Len(text)
  PROVE  \A c \in Seeds(text, norms, x) :
           /\ c[1] \in DOMAIN norms /\ c[2] \in 1 .. Len(norms[c[1]]) /\ c[1] \in Nat /\ c[2] \in Nat
           /\ c = <<c[1], c[2]>>
           /\ RunLength(text, norms[c[1]], x, c[2]) \in 0 .. Len(text)
           /\ Agree(text, norms[c[1]], x, c[2], RunLength(text, norms[c[1]], x, c[2]))
<1> SUFFICES ASSUME NEW c \in Seeds(text, norms, x)
             PROVE  /\ c[1] \in DOMAIN norms /\ c[2] \in 1 .. Len(norms[c[1]]) /\ c[1] \in Nat /\ c[2] \in Nat
                    /\ c = <<c[1], c[2]>>
                    /\ RunLength(text, norms[c[1]], x, c[2]) \in 0 .. Len(text)
                    /\ Agree(text, norms[c[1]], x, c[2], RunLength(text, norms[c[1]], x, c[2]))
  OBVIOUS
<1>1. PICK s \in DOMAIN norms : c \in {s} \X DOMAIN norms[s]
  BY DEF Seeds
<1>2. c = <<c[1], c[2]>> /\ c[1] = s /\ c[2] \in DOMAIN norms[s]
  BY <1>1
<1>3. s \in Nat /\ norms[s] \in Seq(A) /\ c[2] \in 1 .. Len(norms[s]) /\ c[2] \in Nat
  BY <1>2, LenProperties DEF AreNorms
<1>4. x \in 1 .. Len(text) /\ Len(text) \in Nat
  BY MatcherAssumption
<1>5. RunLength(text, norms[s], x, c[2]) \in Nat /\ Agree(text, norms[s], x, c[2], RunLength(text, norms[s], x, c[2]))
  BY <1>3, <1>4, RunLengthIs
<1>6. RunLength(text, norms[s], x, c[2]) <= Len(text)
  BY <1>4, <1>5 DEF Agree
<1> QED
  BY <1>2, <1>3, <1>4, <1>5, <1>6

LEMMA LongestIs ==
  ASSUME NEW A, NEW text \in Seq(A), NEW norms, AreNorms(norms, A), NEW x \in Nat \ {0}, x + NGram - 1 <= Len(text),
         Seeds(text, norms, x) # {}
  PROVE  LET c == Longest(text, norms, x) IN
           /\ c \in Seeds(text, norms, x)
           /\ \A d \in Seeds(text, norms, x) :
                RunLength(text, norms[d[1]], x, d[2]) <= RunLength(text, norms[c[1]], x, c[2])
           /\ \A d \in Seeds(text, norms, x) :
                d[1] = c[1] /\ RunLength(text, norms[d[1]], x, d[2]) = RunLength(text, norms[c[1]], x, c[2])
                  => c[2] <= d[2]
<1> DEFINE D == Seeds(text, norms, x)
           length(c) == RunLength(text, norms[c[1]], x, c[2])
           first(c, d) == c[1] < d[1] \/ (c[1] = d[1] /\ c[2] <= d[2])
           Best(c) == \A d \in D : length(c) > length(d) \/ (length(c) = length(d) /\ first(c, d))
<1>1. \A c \in D : c[1] \in Nat /\ c[2] \in Nat /\ length(c) \in 0 .. Len(text) /\ c = <<c[1], c[2]>>
  BY SeedsAre
<1>2. Longest(text, norms, x) = CHOOSE c \in D : Best(c)
  BY DEF Longest
<1>3. D # {} /\ Len(text) \in Nat
  OBVIOUS
<1> HIDE DEF D, length
<1> DEFINE L == {length(c) : c \in D}
<1>4. PICK m \in L : \A n \in L : n <= m
  <2>1. L \in SUBSET Nat /\ L # {} /\ \A n \in L : n <= Len(text)
    BY <1>1, <1>3
  <2> HIDE DEF L
  <2> QED
    BY <1>3, <2>1, GreatestOf
<1> DEFINE E == {c \in D : length(c) = m}
           F == {c[1] : c \in E}
<1>5. PICK s \in F : \A n \in F : s <= n
  <2>1. F \in SUBSET Nat /\ F # {}
    BY <1>1, <1>4
  <2> HIDE DEF F
  <2> QED
    BY <2>1, LeastOf
<1> DEFINE G == {c[2] : c \in {d \in E : d[1] = s}}
<1>6. PICK i \in G : \A n \in G : i <= n
  <2>1. G \in SUBSET Nat /\ G # {}
    BY <1>1, <1>5
  <2> HIDE DEF G
  <2> QED
    BY <2>1, LeastOf
<1>7. PICK c \in D : length(c) = m /\ c[1] = s /\ c[2] = i
  BY <1>6
<1>8. Best(c)
  <2> SUFFICES ASSUME NEW d \in D PROVE length(c) > length(d) \/ (length(c) = length(d) /\ first(c, d))
    OBVIOUS
  <2>1. length(d) <= m /\ length(d) \in Nat /\ m \in Nat /\ d[1] \in Nat /\ d[2] \in Nat /\ s \in Nat /\ i \in Nat
    BY <1>1, <1>4, <1>7
  <2>2. CASE length(d) = m
    <3>1. s <= d[1]
      BY <1>5, <2>2
    <3>2. d[1] = s => i <= d[2]
      BY <1>6, <2>2
    <3> QED
      BY <1>7, <2>1, <2>2, <3>1, <3>2
  <2>3. CASE length(d) # m
    BY <1>7, <2>1, <2>3
  <2> QED
    BY <2>2, <2>3
<1> DEFINE z == Longest(text, norms, x)
<1>9. z \in D /\ Best(z)
  <2> HIDE DEF Best
  <2> QED
    BY <1>2, <1>8
<1>10. ASSUME NEW d \in D PROVE length(d) <= length(z)
  <2>1. length(z) > length(d) \/ length(z) = length(d)
    BY <1>9
  <2>2. length(z) \in Nat /\ length(d) \in Nat
    BY <1>1, <1>9
  <2> QED
    BY <2>1, <2>2
<1>11. ASSUME NEW d \in D, d[1] = z[1], length(d) = length(z) PROVE z[2] <= d[2]
  <2>1. length(z) > length(d) \/ first(z, d)
    BY <1>9
  <2>2. length(z) \in Nat /\ length(d) \in Nat /\ z[1] \in Nat /\ d[1] \in Nat
    BY <1>1, <1>9
  <2> QED
    BY <1>11, <2>1, <2>2
<1> QED
  BY <1>9, <1>10, <1>11 DEF D, length

-----------------------------------------------------------------------------
(* What the parser makes of an upload                                        *)

\* The places where the blocks end, each with its two line breaks.
EndsAt(e, blocks) ==
  /\ e \in [0 .. Len(blocks) -> Nat]
  /\ e[0] = 0
  /\ \A i \in 1 .. Len(blocks) : e[i] = e[i - 1] + Len(blocks[i].text) + 2

Block(I) == [page : Nat, text : Seq(I)]
Placed(e, blocks) == [i \in DOMAIN blocks |-> [page |-> blocks[i].page, start |-> e[i - 1] + 1, end |-> e[i] - 2]]

LEMMA EndsUnfold ==
  ASSUME NEW I, NEW blocks \in Seq(Block(I))
  PROVE  \E e : EndsAt(e, blocks) /\ Assemble(blocks).paragraphs = Placed(e, blocks)
<1> DEFINE N == Len(blocks)
           B == Nat
           more(i) == Len(blocks[i].text) + 2
           step == [x \in (1 .. N) \X B |-> x[2] + Len(blocks[x[1]].text) + 2]
           Body(u) == [i \in 0 .. N |-> IF i = 0 THEN 0 ELSE u[i - 1] + Len(blocks[i].text) + 2]
           F == CHOOSE u : u = Body(u)
<1>1. N \in Nat /\ 0 \in B /\ \A i \in 1 .. N : Len(blocks[i].text) \in Nat
  <2>1. \A i \in 1 .. N : blocks[i] \in Block(I)
    BY ElementOfSeq
  <2> QED
    BY <2>1, LenProperties DEF Block
<1>2. Assemble(blocks).paragraphs = Placed(F, blocks)
  BY DEF Assemble, Placed
<1>3. step \in Steps(N, B) /\ \A i \in 1 .. N, b \in B : step[<<i, b>>] = b + Len(blocks[i].text) + 2
  <2>1. \A x \in (1 .. N) \X B : x[2] + Len(blocks[x[1]].text) + 2 \in B
    BY <1>1
  <2> QED
    BY <2>1 DEF Steps
<1> HIDE DEF B, step
<1>4. PICK f : f \in [0 .. N -> B] /\ f[0] = 0 /\ \A i \in 1 .. N : f[i] = step[<<i, f[i - 1]>>]
  <2> HIDE DEF N
  <2>1. \E f : Follows(f, N, B, 0, step)
    BY <1>1, <1>3, Recursion, Zenon
  <2> QED
    BY <2>1 DEF Follows
<1> HIDE DEF N
<1>5. ASSUME NEW i \in 0 .. N PROVE f[i] = IF i = 0 THEN 0 ELSE f[i - 1] + Len(blocks[i].text) + 2
  <2>1. CASE i = 0
    BY <1>4, <2>1
  <2>2. CASE i # 0
    <3>1. i \in 1 .. N /\ i - 1 \in 0 .. N
      BY <1>1, <2>2
    <3>2. f[i] = step[<<i, f[i - 1]>>] /\ f[i - 1] \in B
      BY <1>4, <3>1
    <3> QED
      BY <1>3, <2>2, <3>1, <3>2
  <2> QED
    BY <2>1, <2>2
<1>6. f = Body(f)
  <2>1. DOMAIN f = 0 .. N /\ f = [i \in 0 .. N |-> f[i]]
    BY <1>4
  <2> QED
    BY <1>5, <2>1
<1>7. F = Body(F)
  BY <1>6
<1> HIDE DEF F
<1>8. DOMAIN F = 0 .. N /\ F = [i \in 0 .. N |-> F[i]]
  BY <1>7
<1>9. \A i \in 0 .. N : F[i] = IF i = 0 THEN 0 ELSE F[i - 1] + Len(blocks[i].text) + 2
  BY <1>7
<1> HIDE DEF Body
<1>10. F[0] = 0 /\ \A i \in 1 .. N : F[i] = F[i - 1] + Len(blocks[i].text) + 2
  <2>1. 0 \in 0 .. N /\ \A i \in 1 .. N : i \in 0 .. N /\ i # 0
    BY <1>1
  <2> QED
    BY <1>9, <2>1
<1>11. \A i \in 0 .. N : F[i] \in Nat
  <2> DEFINE T == {i \in Nat : F[i] \in Nat}
  <2>1. 0 \in T
    BY <1>10
  <2>2. ASSUME NEW i \in 1 .. N, i - 1 \in T PROVE i \in T
    <3>1. F[i - 1] \in Nat /\ Len(blocks[i].text) \in Nat /\ F[i] = F[i - 1] + Len(blocks[i].text) + 2 /\ i \in Nat
      BY <1>1, <1>10, <2>2
    <3> QED
      BY <3>1, SMTT(60)
  <2>3. \A i \in 0 .. N : i \in T
    <3> HIDE DEF T
    <3> QED
      BY <1>1, <2>1, <2>2, InductionUpTo
  <2> QED
    BY <2>3
<1>12. F \in [0 .. N -> Nat]
  BY <1>8, <1>11
<1>13. EndsAt(F, blocks)
  BY <1>10, <1>12 DEF EndsAt, N
<1> QED
  BY <1>2, <1>13

\* A text whose paragraphs lie in it, the first at its beginning.
IsParsed(d) ==
  /\ IsList(d.text)
  /\ \E n \in Nat :
       /\ DOMAIN d.paragraphs = 1 .. n
       /\ \A i \in 1 .. n : /\ d.paragraphs[i].start \in Nat /\ d.paragraphs[i].start >= 1
                          /\ d.paragraphs[i].end \in Int /\ d.paragraphs[i].end <= Len(d.text)
       /\ d.text # <<>> => n >= 1 /\ d.paragraphs[1].start = 1

LEMMA AssembleIs ==
  ASSUME NEW I, Line \in I, NEW blocks \in Seq(Block(I))
  PROVE  IsParsed(Assemble(blocks))
<1> DEFINE N == Len(blocks)
           s == [i \in DOMAIN blocks |-> blocks[i].text \o <<Line, Line>>]
           d == Assemble(blocks)
<1>1. N \in Nat /\ DOMAIN blocks = 1 .. N /\ \A i \in 1 .. N : blocks[i].text \in Seq(I) /\ Len(blocks[i].text) \in Nat
  <2>1. \A i \in 1 .. N : blocks[i] \in Block(I)
    BY ElementOfSeq
  <2> QED
    BY <2>1, LenProperties DEF Block
<1>2. PICK e : EndsAt(e, blocks) /\ d.paragraphs = Placed(e, blocks)
  BY EndsUnfold
<1>3. d.text = FlattenSeq(s)
  BY DEF Assemble
<1> HIDE DEF d
<1>4. \A i \in 1 .. N : s[i] \in Seq(I) /\ Len(s[i]) = Len(blocks[i].text) + 2
  <2> SUFFICES ASSUME NEW i \in 1 .. N
               PROVE  s[i] \in Seq(I) /\ Len(s[i]) = Len(blocks[i].text) + 2
    OBVIOUS
  <2>1. <<Line, Line>> \in Seq(I) /\ Len(<<Line, Line>>) = 2
    OBVIOUS
  <2>2. s[i] = blocks[i].text \o <<Line, Line>>
    BY <1>1
  <2> QED
    BY <1>1, <2>1, <2>2, ConcatProperties
<1>5. s \in Seq(Seq(I)) /\ Len(s) = N
  BY <1>1, <1>4
<1> HIDE DEF s
<1>6. PICK u : Joins(u, I, s)
  BY <1>5, FlattenUnfold
<1>7. /\ e[0] = 0 /\ \A i \in 0 .. N : e[i] \in Nat
      /\ \A i \in 1 .. N : e[i] = e[i - 1] + Len(blocks[i].text) + 2
  BY <1>2 DEF EndsAt
<1>8. /\ u[0] = <<>> /\ \A i \in 0 .. N : u[i] \in Seq(I)
      /\ \A i \in 1 .. N : u[i] = u[i - 1] \o s[i]
      /\ d.text = u[N]
  BY <1>3, <1>5, <1>6 DEF Joins
<1> DEFINE T == {i \in Nat : e[i] = Len(u[i]) /\ \A j \in 0 .. i : e[j] <= e[i]}
<1>9. 0 \in T
  BY <1>1, <1>7, <1>8
<1>10. ASSUME NEW i \in 1 .. N, i - 1 \in T PROVE i \in T
  <2>1. i \in Nat /\ i - 1 \in 0 .. N /\ \A j \in 0 .. i : j = i \/ j \in 0 .. i - 1
    BY <1>1
  <2>2. Len(u[i]) = Len(u[i - 1]) + Len(s[i])
    <3>1. u[i - 1] \in Seq(I) /\ s[i] \in Seq(I) /\ u[i] = u[i - 1] \o s[i]
      BY <1>4, <1>8, <2>1
    <3> QED
      BY <3>1, ConcatProperties
  <2>3. e[i] = Len(u[i])
    <3>1. e[i - 1] = Len(u[i - 1]) /\ Len(s[i]) = Len(blocks[i].text) + 2
      BY <1>4, <1>10
    <3>2. e[i] = e[i - 1] + Len(blocks[i].text) + 2 /\ e[i - 1] \in Nat /\ Len(blocks[i].text) \in Nat
      BY <1>1, <1>7, <2>1
    <3>3. Len(u[i]) = e[i - 1] + (Len(blocks[i].text) + 2)
      BY <2>2, <3>1
    <3>4. e[i - 1] + (Len(blocks[i].text) + 2) = e[i - 1] + Len(blocks[i].text) + 2
      BY <3>2
    <3> QED
      BY <3>2, <3>3, <3>4
  <2>4. e[i - 1] \in Nat /\ Len(blocks[i].text) \in Nat /\ e[i] = e[i - 1] + Len(blocks[i].text) + 2
    BY <1>1, <1>7, <2>1
  <2>5. ASSUME NEW j \in 0 .. i PROVE e[j] <= e[i]
    <3>1. CASE j = i
      BY <2>4, <3>1
    <3>2. CASE j \in 0 .. i - 1
      <4>1. e[j] <= e[i - 1]
        BY <1>10, <3>2
      <4>2. e[j] \in Nat
        BY <1>1, <1>7, <2>1, <3>2
      <4> QED
        BY <2>4, <4>1, <4>2
    <3> QED
      BY <2>1, <3>1, <3>2
  <2> QED
    BY <2>1, <2>3, <2>5
<1>11. \A i \in 0 .. N : i \in T
  <2> HIDE DEF T
  <2> QED
    BY <1>1, <1>9, <1>10, InductionUpTo
<1>12. N \in 0 .. N /\ Len(d.text) = e[N] /\ \A i \in 0 .. N : e[i] <= e[N]
  BY <1>1, <1>8, <1>11
<1>13. DOMAIN d.paragraphs = 1 .. N
  BY <1>1, <1>2 DEF Placed
<1>14. ASSUME NEW i \in 1 .. N
       PROVE  /\ d.paragraphs[i].start \in Nat /\ d.paragraphs[i].start >= 1
              /\ d.paragraphs[i].end \in Int /\ d.paragraphs[i].end <= Len(d.text)
  <2>1. d.paragraphs[i].start = e[i - 1] + 1 /\ d.paragraphs[i].end = e[i] - 2
    BY <1>1, <1>2 DEF Placed
  <2>2. i - 1 \in 0 .. N /\ i \in 0 .. N
    BY <1>1
  <2>3. e[i - 1] \in Nat /\ e[i] \in Nat /\ e[i] <= e[N] /\ e[N] \in Nat
    BY <1>7, <1>12, <2>2
  <2> QED
    BY <1>12, <2>1, <2>3
<1>15. d.text # <<>> => N >= 1 /\ d.paragraphs[1].start = 1
  <2>1. N = 0 => d.text = <<>>
    BY <1>8
  <2>2. N # 0 => 1 \in 1 .. N
    BY <1>1
  <2>3. N # 0 => d.paragraphs[1].start = e[1 - 1] + 1
    BY <1>1, <1>2, <2>2 DEF Placed
  <2> QED
    BY <1>1, <1>7, <2>1, <2>2, <2>3
<1>16. IsList(d.text)
  BY <1>8, <1>12, ListOf
<1> QED
  BY <1>1, <1>13, <1>14, <1>15, <1>16 DEF IsParsed, d

LEMMA CleanIs == ASSUME NEW I, NEW b \in Seq(I) PROVE Clean(b) \in Seq(I)
  BY ThoseAre DEF Clean

LEMMA UnwrapIs == ASSUME NEW I, NEW b \in Seq(I) PROVE Unwrap(b) \in Seq(I)
<1> DEFINE wraps == {i \in DOMAIN b : /\ b[i].kind = "line"
                                      /\ KindAt(b, i - 1) \notin Ends
                                      /\ KindAt(b, i + 1) \in {"word", "abbreviation", "digits", "heading"}}
           kept == Places(Len(b), DOMAIN b \ wraps)
<1>1. Unwrap(b) = [i \in DOMAIN kept |-> b[kept[i]]]
  BY DEF Unwrap
<1>2. Len(b) \in Nat
  BY LenProperties
<1>3. kept \in Seq(1 .. Len(b))
  BY <1>2, PlacesAre
<1> HIDE DEF kept
<1>4. Len(kept) \in Nat /\ DOMAIN kept = 1 .. Len(kept) /\ \A i \in 1 .. Len(kept) : b[kept[i]] \in I
  <2>1. \A i \in 1 .. Len(kept) : kept[i] \in 1 .. Len(b)
    BY <1>3, ElementOfSeq
  <2> QED
    BY <1>3, <2>1, LenProperties, ElementOfSeq
<1> QED
  BY <1>1, <1>4

LEMMA ReadableIs == ASSUME NEW I, NEW page \in Seq(Seq(I)) PROVE Readable(page) \in Seq(Seq(I))
<1> DEFINE cleaned == [i \in DOMAIN page |-> Clean(page[i])]
           good == {b \in Range(cleaned) : b # <<>> /\ (Len(Tokens(b)) >= MinBlockWords \/ IsHeading(b))}
<1>1. Readable(page) = Those(cleaned, good)
  BY DEF Readable
<1>2. Len(page) \in Nat /\ DOMAIN page = 1 .. Len(page)
  BY LenProperties
<1>3. \A i \in 1 .. Len(page) : Clean(page[i]) \in Seq(I)
  <2>1. \A i \in 1 .. Len(page) : page[i] \in Seq(I)
    BY ElementOfSeq
  <2> QED
    BY <2>1, CleanIs
<1>4. cleaned \in Seq(Seq(I))
  BY <1>2, <1>3
<1> HIDE DEF cleaned, good
<1> QED
  BY <1>1, <1>4, ThoseAre

LEMMA BlocksAre ==
  ASSUME NEW I, NEW u, u.pages \in Seq(Seq(Seq(I))), u.kind = "text" => u.pages # <<>>
  PROVE  Blocks(u) \in Seq(Block(I))
<1> DEFINE pages == u.pages
<1>1. Len(pages) \in Nat /\ DOMAIN pages = 1 .. Len(pages) /\ \A p \in 1 .. Len(pages) : pages[p] \in Seq(Seq(I))
  BY LenProperties, ElementOfSeq
<1>2. ASSUME u.kind = "pdf" PROVE PdfBlocks(pages) \in Seq(Block(I))
  <2> DEFINE read == [p \in DOMAIN pages |-> Readable(pages[p])]
             headers == RunningHeaders(read)
             good(p) == {b \in Range(read[p]) : HeaderKey(b) \notin headers /\ ~IsPageNumber(b)}
             prose(p) == Those(read[p], good(p))
             on(p) == [i \in DOMAIN prose(p) |-> [page |-> p, text |-> prose(p)[i]]]
  <2>1. PdfBlocks(pages) = FlattenSeq([p \in DOMAIN read |-> on(p)])
    BY DEF PdfBlocks
  <2>2. DOMAIN read = 1 .. Len(pages) /\ \A p \in 1 .. Len(pages) : read[p] \in Seq(Seq(I))
    BY <1>1, ReadableIs
  <2> HIDE DEF read, good
  <2>3. ASSUME NEW p \in 1 .. Len(pages) PROVE on(p) \in Seq(Block(I))
    <3>1. prose(p) \in Seq(Seq(I))
      BY <2>2, ThoseAre
    <3> HIDE DEF prose
    <3>2. Len(prose(p)) \in Nat /\ DOMAIN prose(p) = 1 .. Len(prose(p)) /\ \A i \in 1 .. Len(prose(p)) : prose(p)[i] \in Seq(I)
      BY <3>1, LenProperties, ElementOfSeq
    <3>3. p \in Nat
      BY <1>1
    <3>4. \A i \in 1 .. Len(prose(p)) : [page |-> p, text |-> prose(p)[i]] \in Block(I)
      BY <3>2, <3>3 DEF Block
    <3>5. [i \in 1 .. Len(prose(p)) |-> [page |-> p, text |-> prose(p)[i]]] \in Seq(Block(I))
      BY <3>2, <3>4
    <3> QED
      BY <3>2, <3>5
  <2> HIDE DEF on
  <2>4. [p \in DOMAIN read |-> on(p)] \in Seq(Seq(Block(I)))
    BY <1>1, <2>2, <2>3
  <2> QED
    BY <2>1, <2>4, FlattenType
<1>3. ASSUME u.kind = "text" PROVE TextBlocks(pages) \in Seq(Block(I))
  <2>1. 1 \in 1 .. Len(pages)
    BY <1>1, <1>3
  <2>2. pages[1] \in Seq(Seq(I))
    BY <1>1, <2>1
  <2>3. Len(pages[1]) \in Nat /\ DOMAIN pages[1] = 1 .. Len(pages[1]) /\ \A i \in 1 .. Len(pages[1]) : pages[1][i] \in Seq(I)
    BY <2>2, LenProperties, ElementOfSeq
  <2>4. \A i \in 1 .. Len(pages[1]) : [page |-> 0, text |-> Unwrap(pages[1][i])] \in Block(I)
    BY <2>3, UnwrapIs DEF Block
  <2>5. [i \in 1 .. Len(pages[1]) |-> [page |-> 0, text |-> Unwrap(pages[1][i])]] \in Seq(Block(I))
    BY <2>3, <2>4
  <2> QED
    BY <2>3, <2>5 DEF TextBlocks
<1>4. <<>> \in Seq(Block(I))
  OBVIOUS
<1>5. CASE u.kind = "pdf"
  BY <1>2, <1>5 DEF Blocks
<1>6. CASE u.kind = "text"
  BY <1>3, <1>6 DEF Blocks
<1>7. CASE u.kind # "pdf" /\ u.kind # "text"
  BY <1>4, <1>7 DEF Blocks
<1> QED
  BY <1>5, <1>6, <1>7

LEMMA BodyLengthIs ==
  ASSUME NEW S, NEW blocks \in Seq(S)
  PROVE  BodyLength(blocks) \in 0 .. Len(blocks)
<1> DEFINE heads == {i \in DOMAIN blocks : IsHeading(blocks[i].text)}
           last == Max(heads)
<1>1. Len(blocks) \in Nat /\ DOMAIN blocks = 1 .. Len(blocks)
  BY LenProperties
<1>2. BodyLength(blocks) = IF Len(blocks) < 5 \/ heads = {} THEN Len(blocks)
                           ELSE IF 10 * (last - 1) < 6 * Len(blocks) THEN Len(blocks) ELSE last - 1
  BY DEF BodyLength
<1>3. heads \in SUBSET Nat /\ \A i \in heads : i \in 1 .. Len(blocks) /\ i <= Len(blocks)
  BY <1>1
<1> HIDE DEF heads
<1>4. ASSUME heads # {} PROVE last \in 1 .. Len(blocks)
  <2>1. PICK m \in heads : \A i \in heads : i <= m
    BY <1>1, <1>3, <1>4, GreatestOf
  <2>2. last = m
    BY <1>3, <2>1, MaxIs
  <2> QED
    BY <1>3, <2>1, <2>2
<1> HIDE DEF last
<1> QED
  BY <1>1, <1>2, <1>4

LEMMA ParsedIs == ASSUME NEW u, IsDocument(u) PROVE IsParsed(Parsed(u))
<1> DEFINE I == ItemsOf(u) \cup {Line}
           b == Blocks(u)
           n == BodyLength(b)
<1>1. u.pages \in Seq(Seq(Seq(ItemsOf(u)))) /\ (u.kind = "text" => u.pages # <<>>)
  BY DEF IsDocument
<1>2. u.pages \in Seq(Seq(Seq(I)))
  <2>1. ItemsOf(u) \subseteq I
    OBVIOUS
  <2> HIDE DEF I
  <2>2. Seq(ItemsOf(u)) \subseteq Seq(I)
    BY <2>1, SeqMonotonic
  <2>3. Seq(Seq(ItemsOf(u))) \subseteq Seq(Seq(I))
    BY <2>2, SeqMonotonic
  <2> QED
    BY <1>1, <2>3, SeqMonotonic
<1>3. Line \in I
  OBVIOUS
<1> HIDE DEF I
<1>4. b \in Seq(Block(I))
  BY <1>1, <1>2, BlocksAre
<1>5. Parsed(u) = Assemble(SubSeq(b, 1, n))
  BY DEF Parsed
<1> HIDE DEF b
<1>6. n \in 0 .. Len(b) /\ Len(b) \in Nat
  BY <1>4, BodyLengthIs, LenProperties
<1> HIDE DEF n
<1>7. SubSeq(b, 1, n) \in Seq(Block(I))
  <2>1. n \in Int /\ \A i \in 1 .. n : b[i] \in Block(I)
    BY <1>4, <1>6, ElementOfSeq
  <2> QED
    BY <2>1, SubSeqProperties
<1> QED
  BY <1>3, <1>5, <1>7, AssembleIs

-----------------------------------------------------------------------------
(* Runs of words that a source holds                                         *)

LEMMA HoldsIs ==
  ASSUME NEW A, NEW text \in Seq(A), NEW norm \in Seq(A), NEW x \in 1 .. Len(text),
         NEW n \in Nat \ {0}, x + n - 1 <= Len(text)
  PROVE  Holds(norm, SubSeq(text, x, x + n - 1)) <=> \E i \in 1 .. Len(norm) : Agree(text, norm, x, i, n)
<1> DEFINE words == SubSeq(text, x, x + n - 1)
<1>1. Len(norm) \in Nat /\ DOMAIN norm = 1 .. Len(norm) /\ n \in Nat
  BY LenProperties
<1>2. ASSUME NEW i \in 1 .. Len(norm), i + n - 1 <= Len(norm)
      PROVE  Agree(text, norm, x, i, n) <=> SubSeq(norm, i, i + n - 1) = words
  <2>1. n \in Nat /\ x + n - 1 <= Len(text) /\ i + n - 1 <= Len(norm)
    BY <1>1, <1>2
  <2>2. Agree(text, norm, x, i, n) <=> SubSeq(norm, i, i + n - 1) = SubSeq(text, x, x + n - 1)
    BY <2>1, AgreeIsSame
  <2> QED
    BY <2>2
<1>3. Len(words) = n
  <2>1. n \in Nat /\ x + n - 1 \in Int /\ \A j \in x .. x + n - 1 : text[j] \in A
    BY ElementOfSeq
  <2>2. Len(words) = IF x <= x + n - 1 THEN (x + n - 1) - x + 1 ELSE 0
    BY <2>1, SubSeqProperties
  <2>3. (x + n - 1) - x + 1 = n /\ x <= x + n - 1
    BY <2>1
  <2> HIDE DEF words
  <2> QED
    BY <2>2, <2>3
<1> HIDE DEF words
<1>4. ASSUME Holds(norm, words) PROVE \E i \in 1 .. Len(norm) : Agree(text, norm, x, i, n)
  <2>1. PICK i \in 1 .. Len(norm) : i + Len(words) - 1 <= Len(norm) /\ SubSeq(norm, i, i + Len(words) - 1) = words
    BY <1>1, <1>4 DEF Holds
  <2>2. i + n - 1 <= Len(norm) /\ SubSeq(norm, i, i + n - 1) = words
    BY <1>3, <2>1
  <2> QED
    BY <1>2, <2>2
<1>5. ASSUME NEW i \in 1 .. Len(norm), Agree(text, norm, x, i, n) PROVE Holds(norm, words)
  <2>1. i + n - 1 <= Len(norm)
    BY <1>5 DEF Agree
  <2>2. SubSeq(norm, i, i + n - 1) = words
    BY <1>2, <1>5, <2>1
  <2> QED
    BY <1>1, <1>3, <2>1, <2>2 DEF Holds
<1> QED
  BY <1>4, <1>5 DEF words

LEMMA AgreeWithin ==
  ASSUME NEW text, NEW norm, NEW x \in Nat, NEW i \in Nat, NEW n \in Nat, Agree(text, norm, x, i, n),
         Len(text) \in Nat, Len(norm) \in Nat,
         NEW y \in Nat, NEW m \in Nat, x <= y, y + m <= x + n
  PROVE  Agree(text, norm, y, i + (y - x), m)
<1>1. y + m - 1 <= Len(text) /\ (i + (y - x)) + m - 1 <= Len(norm)
  BY DEF Agree
<1>2. ASSUME NEW k \in 0 .. m - 1 PROVE text[y + k] = norm[(i + (y - x)) + k]
  <2>1. (y - x) + k \in 0 .. n - 1 /\ x + ((y - x) + k) = y + k /\ i + ((y - x) + k) = (i + (y - x)) + k
    OBVIOUS
  <2>2. text[x + ((y - x) + k)] = norm[i + ((y - x) + k)]
    BY <2>1 DEF Agree
  <2> QED
    BY <2>1, <2>2
<1> QED
  BY <1>1, <1>2 DEF Agree

\* A source that holds a run of words holds every part of it.
LEMMA HoldsWithin ==
  ASSUME NEW A, NEW text \in Seq(A), NEW norm \in Seq(A), NEW x \in 1 .. Len(text),
         NEW n \in Nat \ {0}, x + n - 1 <= Len(text), Holds(norm, SubSeq(text, x, x + n - 1)),
         NEW y \in Nat, NEW m \in Nat \ {0}, x <= y, y + m <= x + n
  PROVE  Holds(norm, SubSeq(text, y, y + m - 1))
<1>1. Len(text) \in Nat /\ Len(norm) \in Nat /\ x \in Nat /\ n \in Nat /\ m \in Nat
  BY LenProperties
<1>2. PICK i \in 1 .. Len(norm) : Agree(text, norm, x, i, n)
  BY HoldsIs
<1>3. i \in Nat /\ Agree(text, norm, y, i + (y - x), m)
  <2>1. i \in Nat
    BY <1>1
  <2> QED
    BY <1>1, <1>2, <2>1, AgreeWithin
<1>4. y \in 1 .. Len(text) /\ y + m - 1 <= Len(text) /\ i + (y - x) \in 1 .. Len(norm)
  BY <1>1, <1>3 DEF Agree
<1> QED
  BY <1>3, <1>4, HoldsIs

AreTexts(d, texts) ==
  IsList(d.text) /\ DOMAIN texts \subseteq Nat /\ \A s \in DOMAIN texts : IsList(texts[s])

WordSet(d, texts) == Range(Norms(d.text)) \cup UNION {Range(Norms(texts[s])) : s \in DOMAIN texts}

LEMMA NormsOfList ==
  ASSUME NEW t, IsList(t)
  PROVE  Norms(t) \in Seq(Range(Norms(t)))
<1>1. Norms(t) \in Seq({x.norm : x \in Range(t)})
  BY NormsAre DEF IsList
<1> QED
  BY <1>1, ListOf DEF IsList

LEMMA WordsAre ==
  ASSUME NEW d, NEW texts, AreTexts(d, texts)
  PROVE  /\ Norms(d.text) \in Seq(WordSet(d, texts))
         /\ AreNorms(Sources(texts), WordSet(d, texts))
         /\ DOMAIN Sources(texts) = DOMAIN texts
         /\ \A s \in DOMAIN texts : Sources(texts)[s] = Norms(texts[s]) /\ Norms(texts[s]) \in Seq(WordSet(d, texts))
<1> DEFINE A == WordSet(d, texts)
<1>1. Norms(d.text) \in Seq(A)
  <2>1. Range(Norms(d.text)) \subseteq A
    BY DEF WordSet
  <2> QED
    BY <2>1, NormsOfList, SeqMonotonic DEF AreTexts
<1>2. ASSUME NEW s \in DOMAIN texts PROVE Norms(texts[s]) \in Seq(A)
  <2>1. Range(Norms(texts[s])) \subseteq A
    BY DEF WordSet
  <2> QED
    BY <2>1, NormsOfList, SeqMonotonic DEF AreTexts
<1>3. DOMAIN Sources(texts) = DOMAIN texts /\ \A s \in DOMAIN texts : Sources(texts)[s] = Norms(texts[s])
  BY DEF Sources
<1> HIDE DEF A
<1>4. AreNorms(Sources(texts), A)
  BY <1>2, <1>3 DEF AreNorms, AreTexts
<1> QED
  BY <1>1, <1>2, <1>3, <1>4 DEF A

-----------------------------------------------------------------------------
(* What the search has found when it has come to a word                      *)

\* m reports the words from the a-th to the b-th.
CopyAt(m, a, b, d, texts) ==
  LET k == Tokens(d.text)
      words == SubSeq(Norms(d.text), a, b)
  IN  /\ a \in 1 .. Len(k) /\ b \in a .. Len(k) /\ b - a + 1 >= MinVerbatim
      /\ m.span = <<k[a], k[b]>> /\ m.source \in DOMAIN texts
      /\ Norms(Slice(d.text, m.span)) = words
      /\ Norms(Slice(texts[m.source], m.at)) = words
      /\ Holds(Norms(texts[m.source]), words)

\* Some source holds the words from the x-th on, enough of them to report.
Copied(x, d, texts) ==
  /\ x + MinVerbatim - 1 <= Len(Norms(d.text))
  /\ \E s \in DOMAIN texts : Holds(Norms(texts[s]), SubSeq(Norms(d.text), x, x + MinVerbatim - 1))

Apart(m, n) == (m.span[1] .. m.span[2]) \cap (n.span[1] .. n.span[2]) = {}

\* Before the limit: the copies are copies, apart from each other, and one of them holds
\* each word at which a source's words begin.
Found(d, texts, copies, limit) ==
  LET k == Tokens(d.text)
  IN  /\ \A m \in copies : \E a, b : CopyAt(m, a, b, d, texts) /\ b < limit
      /\ \A m, n \in copies : m # n => Apart(m, n)
      /\ \A x \in 1 .. Len(k) :
           x < limit /\ Copied(x, d, texts) => \E m \in copies : k[x] \in m.span[1] .. m.span[2]

LEMMA WordNumbers ==
  ASSUME NEW t, IsList(t)
  PROVE  /\ Len(Tokens(t)) \in Nat /\ Len(Norms(t)) = Len(Tokens(t))
         /\ DOMAIN Tokens(t) = 1 .. Len(Tokens(t)) /\ DOMAIN Norms(t) = 1 .. Len(Tokens(t))
         /\ \A i \in 1 .. Len(Tokens(t)) : Tokens(t)[i] \in Nat /\ Tokens(t)[i] >= 1
         /\ \A i, j \in 1 .. Len(Tokens(t)) : i < j => Tokens(t)[i] < Tokens(t)[j]
<1>1. Tokens(t) \in Seq(1 .. Len(t)) /\ Tokens(t) \in Seq(Nat) /\ Rising(Tokens(t))
  BY TokensAre DEF IsList
<1>2. Len(Tokens(t)) \in Nat /\ DOMAIN Tokens(t) = 1 .. Len(Tokens(t))
  BY <1>1, LenProperties
<1>3. \A i \in 1 .. Len(Tokens(t)) : Tokens(t)[i] \in Nat /\ Tokens(t)[i] \in 1 .. Len(t)
  BY <1>1, ElementOfSeq
<1>4. Len(Norms(t)) = Len(Tokens(t)) /\ DOMAIN Norms(t) = 1 .. Len(Tokens(t))
  BY NormsAre DEF IsList
<1>5. \A i, j \in 1 .. Len(Tokens(t)) : i < j => Tokens(t)[i] < Tokens(t)[j]
  BY <1>1, <1>2 DEF Rising
<1> QED
  BY <1>2, <1>3, <1>4, <1>5

\* The words that a copy holds, by their numbers.
LEMMA HeldWords ==
  ASSUME NEW d, IsList(d.text), NEW texts, NEW m, NEW a, NEW b, CopyAt(m, a, b, d, texts)
  PROVE  /\ a \in Nat /\ b \in Nat /\ 1 <= a /\ a <= b /\ b <= Len(Tokens(d.text))
         /\ \A x \in 1 .. Len(Tokens(d.text)) : Tokens(d.text)[x] \in m.span[1] .. m.span[2] <=> x \in a .. b
<1> DEFINE k == Tokens(d.text)
<1>1. /\ Len(k) \in Nat /\ \A i \in 1 .. Len(k) : k[i] \in Nat
      /\ \A i, j \in 1 .. Len(k) : i < j => k[i] < k[j]
  BY WordNumbers
<1>2. a \in 1 .. Len(k) /\ b \in a .. Len(k) /\ m.span[1] = k[a] /\ m.span[2] = k[b]
  BY DEF CopyAt
<1> HIDE DEF k
<1>3. a \in Nat /\ b \in Nat /\ 1 <= a /\ a <= b /\ b <= Len(k) /\ b \in 1 .. Len(k)
  BY <1>1, <1>2
<1>4. ASSUME NEW x \in 1 .. Len(k) PROVE k[x] \in k[a] .. k[b] <=> x \in a .. b
  <2>1. x \in Nat /\ k[x] \in Nat /\ k[a] \in Nat /\ k[b] \in Nat
    BY <1>1, <1>2, <1>3
  <2>2. /\ x < a => k[x] < k[a]
        /\ a < x => k[a] < k[x]
        /\ x < b => k[x] < k[b]
        /\ b < x => k[b] < k[x]
    BY <1>1, <1>2, <1>3
  <2>3. x = a => k[x] = k[a]
    OBVIOUS
  <2>4. x = b => k[x] = k[b]
    BY SMTT(60)
  <2> QED
    BY <1>3, <2>1, <2>2, <2>3, <2>4
<1> QED
  BY <1>2, <1>3, <1>4 DEF k

\* The copy the search reports at x, and what it has found behind that.
LEMMA ReportsCopy ==
  ASSUME NEW d, NEW texts, AreTexts(d, texts), NEW copies, NEW x \in Nat \ {0},
         x + NGram - 1 <= Len(Norms(d.text)), Seeds(Norms(d.text), Sources(texts), x) # {},
         NEW c, c = Longest(Norms(d.text), Sources(texts), x),
         NEW len, len = RunLength(Norms(d.text), Sources(texts)[c[1]], x, c[2]), len >= MinVerbatim,
         NEW m, m = Verbatim(c[1], <<Tokens(d.text)[x], Tokens(d.text)[x + len - 1]>>,
                             <<Tokens(texts[c[1]])[c[2]], Tokens(texts[c[1]])[c[2] + len - 1]>>)
  PROVE  len \in Nat /\ CopyAt(m, x, x + len - 1, d, texts)
<1> DEFINE w == Norms(d.text)
           k == Tokens(d.text)
           A == WordSet(d, texts)
           s == c[1]
           i == c[2]
           norm == Norms(texts[s])
           t == Tokens(texts[s])
<1>1. /\ w \in Seq(A) /\ AreNorms(Sources(texts), A) /\ DOMAIN Sources(texts) = DOMAIN texts
      /\ \A r \in DOMAIN texts : Sources(texts)[r] = Norms(texts[r]) /\ Norms(texts[r]) \in Seq(A)
  BY WordsAre
<1>2. c \in Seeds(w, Sources(texts), x)
  BY <1>1, LongestIs
<1>3. /\ s \in DOMAIN texts /\ i \in 1 .. Len(Sources(texts)[s])
      /\ len \in 0 .. Len(w) /\ Agree(w, Sources(texts)[s], x, i, len)
  BY <1>1, <1>2, SeedsAre
<1>4. /\ norm \in Seq(A) /\ i \in 1 .. Len(norm) /\ Agree(w, norm, x, i, len) /\ IsList(texts[s]) /\ IsList(d.text)
  BY <1>1, <1>3 DEF AreTexts
<1>5. Len(w) = Len(k) /\ Len(k) \in Nat /\ Len(norm) = Len(t) /\ Len(t) \in Nat
  BY <1>4, WordNumbers
<1>6. d.text \in Seq(Range(d.text)) /\ texts[s] \in Seq(Range(texts[s]))
  BY <1>4 DEF IsList
<1>7. m.source = s /\ m.span = <<k[x], k[x + len - 1]>> /\ m.at = <<t[i], t[i + len - 1]>>
  BY DEF Verbatim
<1> HIDE DEF w, A, s, i
<1>8. len \in Nat /\ len >= 1 /\ x + len - 1 <= Len(w) /\ i + len - 1 <= Len(norm)
  BY <1>3, <1>4, <1>5, MatcherAssumption DEF Agree
<1> HIDE DEF norm, k, t
<1>9. /\ x \in 1 .. Len(k) /\ x + len - 1 \in x .. Len(k) /\ x \in 1 .. Len(w)
      /\ i \in 1 .. Len(t) /\ i + len - 1 \in i .. Len(t)
  BY <1>4, <1>5, <1>8, SMTT(60)
<1>10. Norms(Slice(d.text, m.span)) = SubSeq(w, x, x + len - 1)
  <2>1. Norms(Slice(d.text, <<k[x], k[x + len - 1]>>)) = SubSeq(w, x, x + len - 1)
    BY <1>6, <1>9, NormsOfSlice, SMTT(60) DEF k, w
  <2> QED
    BY <1>7, <2>1
<1>11. Norms(Slice(texts[s], m.at)) = SubSeq(norm, i, i + len - 1)
  <2>1. Norms(Slice(texts[s], <<t[i], t[i + len - 1]>>)) = SubSeq(norm, i, i + len - 1)
    BY <1>6, <1>9, NormsOfSlice DEF t, norm
  <2> QED
    BY <1>7, <2>1
<1>12. SubSeq(norm, i, i + len - 1) = SubSeq(w, x, x + len - 1)
  <2>1. len \in Nat /\ x + len - 1 <= Len(w) /\ i + len - 1 <= Len(norm) /\ x \in 1 .. Len(w) /\ i \in 1 .. Len(norm)
    BY <1>4, <1>8, <1>9
  <2>2. w \in Seq(A) /\ norm \in Seq(A) /\ Agree(w, norm, x, i, len)
    BY <1>1, <1>4
  <2> QED
    BY <2>1, <2>2, SameWords, SMTT(60)
<1>13. Holds(norm, SubSeq(w, x, x + len - 1))
  <2>1. len \in Nat \ {0}
    BY <1>8
  <2> QED
    BY <1>1, <1>4, <1>8, <1>9, <2>1, HoldsIs
<1>14. (x + len - 1) - x + 1 >= MinVerbatim
  BY <1>8
<1> QED
  BY <1>3, <1>7, <1>8, <1>9, <1>10, <1>11, <1>12, <1>13, <1>14, ZenonT(60) DEF CopyAt, k, w, norm

LEMMA FoundMore ==
  ASSUME NEW d, IsList(d.text), NEW texts, NEW copies, NEW x \in Nat \ {0}, Found(d, texts, copies, x),
         NEW m, NEW len \in Nat, CopyAt(m, x, x + len - 1, d, texts)
  PROVE  Found(d, texts, copies \cup {m}, x + len)
<1> DEFINE k == Tokens(d.text)
<1>1. Len(k) \in Nat /\ \A i \in 1 .. Len(k) : k[i] \in Nat
  BY WordNumbers
<1>2. /\ x <= x + len - 1 /\ x + len - 1 <= Len(k)
      /\ \A y \in 1 .. Len(k) : k[y] \in m.span[1] .. m.span[2] <=> y \in x .. x + len - 1
      /\ m.span = <<k[x], k[x + len - 1]>>
  <2>1. m.span = <<k[x], k[x + len - 1]>>
    BY DEF CopyAt
  <2> QED
    BY <2>1, HeldWords
<1>3. /\ \A n \in copies : \E a, b : CopyAt(n, a, b, d, texts) /\ b < x
      /\ \A n, o \in copies : n # o => Apart(n, o)
      /\ \A y \in 1 .. Len(k) :
           y < x /\ Copied(y, d, texts) => \E n \in copies : k[y] \in n.span[1] .. n.span[2]
  BY DEF Found
<1>4. \A n \in copies \cup {m} : \E a, b : CopyAt(n, a, b, d, texts) /\ b < x + len
  <2>1. x + len - 1 < x + len /\ x <= x + len
    BY <1>1
  <2>2. CASE TRUE
    <3> SUFFICES ASSUME NEW n \in copies PROVE \E a, b : CopyAt(n, a, b, d, texts) /\ b < x + len
      BY <2>1
    <3>1. PICK a, b : CopyAt(n, a, b, d, texts) /\ b < x
      BY <1>3
    <3>2. b \in Nat
      BY <3>1, HeldWords
    <3>3. b < x + len
      BY <3>1, <3>2
    <3> QED
      BY <3>1, <3>3
  <2> QED
    BY <2>2
<1>5. ASSUME NEW n \in copies PROVE Apart(n, m) /\ Apart(m, n)
  <2>1. PICK a, b : CopyAt(n, a, b, d, texts) /\ b < x
    BY <1>3
  <2>2. b \in 1 .. Len(k) /\ n.span = <<k[a], k[b]>>
    <3>1. n.span = <<k[a], k[b]>>
      BY <2>1 DEF CopyAt
    <3>2. a \in Nat /\ b \in Nat /\ 1 <= a /\ a <= b /\ b <= Len(k)
      BY <2>1, HeldWords
    <3> QED
      BY <3>1, <3>2
  <2>3. x \in 1 .. Len(k)
    BY <1>1, <1>2
  <2>4. k[b] < k[x]
    <3>1. \A i, j \in 1 .. Len(k) : i < j => k[i] < k[j]
      BY WordNumbers
    <3> QED
      BY <2>1, <2>2, <2>3, <3>1
  <2>5. n.span[2] = k[b] /\ m.span[1] = k[x] /\ k[b] \in Nat /\ k[x] \in Nat
    BY <1>1, <1>2, <2>2, <2>3
  <2> HIDE DEF k
  <2>6. \A y : ~(y \in n.span[1] .. n.span[2] /\ y \in m.span[1] .. m.span[2])
    BY <2>4, <2>5
  <2> QED
    BY <2>6 DEF Apart
<1>6. \A n, o \in copies \cup {m} : n # o => Apart(n, o)
  BY <1>3, <1>5
<1>7. ASSUME NEW y \in 1 .. Len(k), y < x + len, Copied(y, d, texts)
      PROVE  \E n \in copies \cup {m} : k[y] \in n.span[1] .. n.span[2]
  <2>1. CASE y < x
    BY <1>3, <1>7, <2>1
  <2>2. CASE ~(y < x)
    <3>1. y \in x .. x + len - 1
      BY <1>7, <2>2
    <3> QED
      BY <1>2, <3>1
  <2> QED
    BY <2>1, <2>2
<1> QED
  BY <1>4, <1>6, <1>7 DEF Found

\* No run of the sources begins at a word from which the search goes on by one.
LEMMA FoundNone ==
  ASSUME NEW d, NEW texts, AreTexts(d, texts), NEW copies, NEW x \in Nat \ {0}, Found(d, texts, copies, x),
         x + NGram - 1 <= Len(Norms(d.text)),
         Seeds(Norms(d.text), Sources(texts), x) # {} =>
           LET c == Longest(Norms(d.text), Sources(texts), x)
           IN  ~(RunLength(Norms(d.text), Sources(texts)[c[1]], x, c[2]) >= MinVerbatim)
  PROVE  Found(d, texts, copies, x + 1)
<1> DEFINE w == Norms(d.text)
           A == WordSet(d, texts)
           c == Longest(w, Sources(texts), x)
<1>1. /\ w \in Seq(A) /\ AreNorms(Sources(texts), A) /\ DOMAIN Sources(texts) = DOMAIN texts
      /\ \A r \in DOMAIN texts : Sources(texts)[r] = Norms(texts[r]) /\ Norms(texts[r]) \in Seq(A)
  BY WordsAre
<1>2. Len(w) = Len(Tokens(d.text)) /\ Len(w) \in Nat
  BY WordNumbers DEF AreTexts
<1> HIDE DEF w, A
<1>3. ~Copied(x, d, texts)
  <2> SUFFICES ASSUME Copied(x, d, texts) PROVE FALSE
    OBVIOUS
  <2>1. PICK s \in DOMAIN texts : Holds(Norms(texts[s]), SubSeq(w, x, x + MinVerbatim - 1))
    BY DEF Copied, w
  <2>2. x + MinVerbatim - 1 <= Len(w) /\ MinVerbatim \in Nat \ {0} /\ x \in 1 .. Len(w)
    <3>1. x + MinVerbatim - 1 <= Len(w)
      BY DEF Copied, w
    <3>2. MinVerbatim \in Nat /\ MinVerbatim >= 1
      BY MatcherAssumption
    <3> QED
      BY <1>2, <3>1, <3>2
  <2>3. PICK i \in 1 .. Len(Norms(texts[s])) : Agree(w, Norms(texts[s]), x, i, MinVerbatim)
    BY <1>1, <2>1, <2>2, HoldsIs
  <2> DEFINE norm == Norms(texts[s])
             r == RunLength(w, norm, x, i)
  <2>4. norm \in Seq(A) /\ Sources(texts)[s] = norm /\ Len(norm) \in Nat /\ DOMAIN norm = 1 .. Len(norm)
    BY <1>1, LenProperties
  <2>5. r \in Nat /\ MinVerbatim <= r
    <3>1. MinVerbatim \in Nat
      BY <2>2
    <3> QED
      BY <1>1, <2>2, <2>3, <2>4, <3>1, RunLengthIs
  <2> HIDE DEF norm
  <2>6. <<s, i>> \in Seeds(w, Sources(texts), x)
    <3>1. NGram \in Nat /\ NGram >= 1 /\ NGram <= MinVerbatim /\ MinVerbatim \in Nat /\ i \in Nat
      BY MatcherAssumption, <2>4 DEF norm
    <3>2. Agree(w, norm, x, i + (x - x), NGram)
      <4>1. Agree(w, norm, x, i, MinVerbatim)
        BY <2>3 DEF norm
      <4>2. x <= x /\ x + NGram <= x + MinVerbatim /\ x \in Nat
        BY <3>1
      <4> QED
        BY <1>2, <2>4, <3>1, <4>1, <4>2, AgreeWithin
    <3>3. i + (x - x) = i
      BY <3>1
    <3>4. Agree(w, norm, x, i, NGram)
      BY <3>2, <3>3
    <3>5. i + NGram - 1 <= Len(norm) /\ x + NGram - 1 <= Len(w)
      BY <3>4 DEF Agree
    <3>6. SubSeq(norm, i, i + NGram - 1) = SubSeq(w, x, x + NGram - 1)
      <4>1. i \in 1 .. Len(norm)
        BY <2>3 DEF norm
      <4>2. NGram \in Nat /\ x \in 1 .. Len(w) /\ x + NGram - 1 <= Len(w) /\ i + NGram - 1 <= Len(norm)
        BY <2>2, <3>1, <3>5
      <4>3. w \in Seq(A) /\ norm \in Seq(A)
        BY <1>1, <2>4
      <4> QED
        BY <3>4, <4>1, <4>2, <4>3, SameWords
    <3>7. <<s, i>> \in {s} \X DOMAIN Sources(texts)[s]
      BY <2>3, <2>4 DEF norm
    <3>8. <<s, i>>[1] = s /\ <<s, i>>[2] = i
      OBVIOUS
    <3> QED
      BY <1>1, <2>4, <3>5, <3>6, <3>7, <3>8 DEF Seeds
  <2>7. Seeds(w, Sources(texts), x) # {} /\ x + NGram - 1 <= Len(w)
    BY <2>6 DEF w
  <2>8. RunLength(w, Sources(texts)[s], x, i) <= RunLength(w, Sources(texts)[c[1]], x, c[2]) /\ c \in Seeds(w, Sources(texts), x)
    <3>1. <<s, i>>[1] = s /\ <<s, i>>[2] = i
      OBVIOUS
    <3> QED
      BY <1>1, <2>6, <2>7, <3>1, LongestIs
  <2>9. RunLength(w, Sources(texts)[c[1]], x, c[2]) \in 0 .. Len(w)
    BY <1>1, <2>7, <2>8, SeedsAre
  <2>10. ~(RunLength(w, Sources(texts)[c[1]], x, c[2]) >= MinVerbatim)
    BY <2>7 DEF w
  <2> QED
    BY <1>2, <2>2, <2>4, <2>5, <2>8, <2>9, <2>10
<1>4. ASSUME NEW y \in 1 .. Len(Tokens(d.text)), y < x + 1, Copied(y, d, texts) PROVE y < x
  <2>1. y # x
    BY <1>3, <1>4
  <2> QED
    BY <1>2, <1>4, <2>1
<1>5. ASSUME NEW n \in copies PROVE \E a, b : CopyAt(n, a, b, d, texts) /\ b < x + 1
  <2>1. PICK a, b : CopyAt(n, a, b, d, texts) /\ b < x
    BY DEF Found
  <2>2. b \in Nat
    BY <2>1, HeldWords DEF AreTexts
  <2>3. b < x + 1
    BY <2>1, <2>2
  <2> QED
    BY <2>1, <2>3
<1> QED
  BY <1>4, <1>5 DEF Found

\* Behind the last word at which k words can begin there is nothing to find.
LEMMA FoundAll ==
  ASSUME NEW d, IsList(d.text), NEW texts, NEW copies, NEW x \in Nat \ {0}, Found(d, texts, copies, x),
         ~(x <= Len(Norms(d.text)) - NGram + 1)
  PROVE  Found(d, texts, copies, Len(Norms(d.text)) + 1)
<1>1. Len(Norms(d.text)) = Len(Tokens(d.text)) /\ Len(Tokens(d.text)) \in Nat
  BY WordNumbers
<1>2. ASSUME NEW y \in 1 .. Len(Tokens(d.text)), Copied(y, d, texts) PROVE y < x
  <2>1. y + MinVerbatim - 1 <= Len(Norms(d.text))
    BY <1>2 DEF Copied
  <2> QED
    BY <1>1, <2>1, MatcherAssumption
<1>3. ASSUME NEW n \in copies PROVE \E a, b : CopyAt(n, a, b, d, texts) /\ b < Len(Norms(d.text)) + 1
  <2>1. PICK a, b : CopyAt(n, a, b, d, texts) /\ b < x
    BY DEF Found
  <2>2. b \in Nat /\ b <= Len(Tokens(d.text))
    BY <2>1, HeldWords
  <2>3. b < Len(Norms(d.text)) + 1
    BY <1>1, <2>2
  <2> QED
    BY <2>1, <2>3
<1> QED
  BY <1>2, <1>3 DEF Found

-----------------------------------------------------------------------------
(* The sentences of a text                                                   *)

\* A run of places in G goes on to some place.
LEMMA RunGoesTo ==
  ASSUME NEW n \in Nat, NEW i \in Nat, i <= n, NEW G
  PROVE  \E j \in i .. n : (\A k \in i + 1 .. j : k \in G) /\ (j = n \/ j + 1 \notin G)
<1> DEFINE S == {j \in i .. n : j = n \/ j + 1 \notin G}
<1>1. S \in SUBSET Nat /\ S # {}
  <2>1. n \in i .. n /\ i .. n \subseteq Nat
    OBVIOUS
  <2> QED
    BY <2>1
<1>2. PICK j \in S : \A y \in S : j <= y
  <2> HIDE DEF S
  <2> QED
    BY <1>1, LeastOf
<1>3. ASSUME NEW k \in i + 1 .. j PROVE k \in G
  <2>1. k - 1 \in i .. n /\ ~(j <= k - 1) /\ k - 1 # n /\ (k - 1) + 1 = k
    BY <1>2
  <2>2. k - 1 \notin S
    BY <1>2, <2>1
  <2> QED
    BY <2>1, <2>2
<1> QED
  BY <1>2, <1>3

LEMMA RunEndIs ==
  ASSUME NEW S, NEW t \in Seq(S), NEW i \in Runs(t)
  PROVE  RunEnd(t, i) \in i .. Len(t)
<1> DEFINE more == IF KindAt(t, i) = "line" THEN {"line"} ELSE Ends
           n == Len(t)
           Ending(j) == /\ \A k \in i .. j : t[k].kind \in more
                        /\ j = n \/ t[j + 1].kind \notin more
           last == CHOOSE j \in i .. n : Ending(j)
           Closed(j) == /\ \A k \in last + 1 .. j : t[k].kind \in {"close", "quote"}
                        /\ j = n \/ t[j + 1].kind \notin {"close", "quote"}
<1>1. n \in Nat /\ DOMAIN t = 1 .. n
  BY LenProperties
<1>2. i \in 1 .. n /\ i \in Nat /\ (t[i].kind = "line" \/ t[i].kind \in Ends) /\ KindAt(t, i) = t[i].kind
  BY <1>1 DEF Runs, KindAt
<1>3. RunEnd(t, i) = IF more = Ends THEN CHOOSE j \in last .. n : Closed(j) ELSE last
  BY DEF RunEnd
<1>4. t[i].kind \in more
  BY <1>2
<1> HIDE DEF more, n
<1>5. \E j \in i .. n : Ending(j)
  <2> DEFINE G == {k \in 1 .. n : t[k].kind \in more}
  <2>1. PICK j \in i .. n : (\A k \in i + 1 .. j : k \in G) /\ (j = n \/ j + 1 \notin G)
    <3> HIDE DEF G
    <3>1. i <= n
      BY <1>1, <1>2
    <3> QED
      BY <1>1, <1>2, <3>1, RunGoesTo
  <2>2. ASSUME NEW k \in i .. j PROVE t[k].kind \in more
    <3>1. k = i \/ k \in i + 1 .. j
      BY <1>1, <1>2
    <3> QED
      BY <1>4, <2>1, <3>1
  <2>3. j = n \/ j + 1 \in 1 .. n
    BY <1>1, <1>2
  <2> QED
    BY <2>1, <2>2, <2>3
<1> HIDE DEF Ending
<1>6. last \in i .. n
  BY <1>5
<1> HIDE DEF last
<1>7. last \in Nat /\ last \in 1 .. n /\ last <= n
  BY <1>1, <1>2, <1>6
<1>8. \E j \in last .. n : Closed(j)
  <2> DEFINE G == {k \in 1 .. n : t[k].kind \in {"close", "quote"}}
  <2>1. PICK j \in last .. n : (\A k \in last + 1 .. j : k \in G) /\ (j = n \/ j + 1 \notin G)
    <3> HIDE DEF G
    <3> QED
      BY <1>1, <1>7, RunGoesTo
  <2>2. j = n \/ j + 1 \in 1 .. n
    BY <1>1, <1>7
  <2> QED
    BY <2>1, <2>2
<1> HIDE DEF Closed
<1>9. (CHOOSE j \in last .. n : Closed(j)) \in last .. n
  BY <1>8
<1>10. RunEnd(t, i) \in i .. n
  BY <1>1, <1>2, <1>3, <1>6, <1>9
<1> QED
  BY <1>10 DEF n

LEMMA BreaksAre == ASSUME NEW S, NEW t \in Seq(S) PROVE Breaks(t) \subseteq 0 .. Len(t)
<1>1. Len(t) \in Nat
  BY LenProperties
<1>2. ASSUME NEW i \in Runs(t) PROVE RunEnd(t, i) \in 0 .. Len(t)
  <2>1. i \in Nat
    <3>1. DOMAIN t = 1 .. Len(t)
      BY LenProperties
    <3> QED
      BY <1>1, <3>1 DEF Runs
  <2>2. RunEnd(t, i) \in i .. Len(t)
    BY RunEndIs
  <2> QED
    BY <1>1, <2>1, <2>2
<1> QED
  BY <1>1, <1>2 DEF Breaks

LEMMA BeforeIs ==
  ASSUME NEW S, NEW t \in Seq(S), NEW e \in 1 .. Len(t)
  PROVE  Before(t, e) \in Int \X Int
<1> DEFINE behind == {0} \cup {d \in Breaks(t) : d < e}
           from == 1 + Max(behind)
           ink == {i \in from .. e : t[i].kind # "line"}
<1>1. Len(t) \in Nat /\ e \in Nat
  BY LenProperties
<1>2. Max(behind) \in Nat
  <2>1. behind \in SUBSET Nat /\ behind # {} /\ \A x \in behind : x <= Len(t)
    BY <1>1, BreaksAre
  <2> HIDE DEF behind
  <2>2. PICK m \in behind : \A x \in behind : x <= m
    BY <1>1, <2>1, GreatestOf
  <2> QED
    BY <2>1, <2>2, MaxIs
<1> HIDE DEF behind
<1>3. from \in Nat
  BY <1>2
<1>4. Before(t, e) = IF ink = {} THEN <<from, from - 1>> ELSE <<Min(ink), Max(ink)>>
  BY DEF Before, behind
<1> HIDE DEF from
<1>5. ink \in SUBSET Nat /\ \A x \in ink : x <= e
  BY <1>1, <1>3
<1> HIDE DEF ink
<1>6. CASE ink = {}
  BY <1>3, <1>4, <1>6
<1>7. CASE ink # {}
  <2>1. PICK m \in ink : \A x \in ink : x <= m
    BY <1>1, <1>5, <1>7, GreatestOf
  <2>2. Max(ink) \in Nat
    BY <1>5, <2>1, MaxIs
  <2>3. PICK l \in ink : \A x \in ink : l <= x
    BY <1>5, <1>7, LeastOf
  <2>4. Min(ink) \in ink
    BY <2>3 DEF Min
  <2>5. Min(ink) \in Int /\ Max(ink) \in Int
    <3>1. Min(ink) \in Nat
      BY <1>5, <2>4
    <3> QED
      BY <2>2, <3>1
  <2>6. Before(t, e) = <<Min(ink), Max(ink)>>
    BY <1>4, <1>7
  <2> QED
    BY <2>5, <2>6
<1> QED
  BY <1>6, <1>7

LEMMA SentencesAre ==
  ASSUME NEW t, IsList(t), NEW least
  PROVE  Sentences(t, least) \in Seq(Int \X Int)
<1> DEFINE long == Places(Len(t), {e \in Breaks(t) : Cardinality(WordsIn(t, Before(t, e))) >= least})
<1>1. Sentences(t, least) = [i \in DOMAIN long |-> Before(t, long[i])]
  BY DEF Sentences
<1>2. t \in Seq(Range(t)) /\ Len(t) \in Nat
  BY LenProperties DEF IsList
<1>3. long \in Seq(1 .. Len(t))
  BY <1>2, PlacesAre
<1> HIDE DEF long
<1>4. Len(long) \in Nat /\ DOMAIN long = 1 .. Len(long) /\ \A i \in 1 .. Len(long) : long[i] \in 1 .. Len(t)
  BY <1>3, LenProperties, ElementOfSeq
<1>5. \A i \in 1 .. Len(long) : Before(t, long[i]) \in Int \X Int
  BY <1>2, <1>4, BeforeIs
<1> QED
  BY <1>1, <1>4, <1>5

-----------------------------------------------------------------------------
(* The matches of the sentences                                              *)

Types == {"verbatim", "paraphrase", "translated"}
Confidences == {"confident", "review"}

IsMatch(m, texts) ==
  m.type \in Types /\ m.confidence \in Confidences /\ m.source \in DOMAIN texts /\ m.span \in Int \X Int

\* The encoder can say of each sentence how like one of the sources' it is.
Alike(d, texts) ==
  \A a \in SentencesOf(d.text) : \A s \in DOMAIN texts : \A b \in SentencesOf(texts[s]) :
    Similarity(a, b) \in -100 .. 100

Sourced(texts) ==
  UNION {{[source |-> s, span |-> p] : p \in Range(Sentences(texts[s], MinSentence))} : s \in DOMAIN texts}

LEMMA SourceSentencesAre ==
  ASSUME NEW texts, NEW n \in Nat, DOMAIN texts = 1 .. n, \A s \in DOMAIN texts : IsList(texts[s])
  PROVE  SourceSentences(texts) \in Seq(Sourced(texts))
<1> DEFINE of == [s \in DOMAIN texts |-> OfSource(s, Sentences(texts[s], MinSentence))]
<1>1. ASSUME NEW s \in 1 .. n PROVE OfSource(s, Sentences(texts[s], MinSentence)) \in Seq(Sourced(texts))
  <2> DEFINE spans == Sentences(texts[s], MinSentence)
  <2>1. spans \in Seq(Int \X Int)
    BY SentencesAre
  <2> HIDE DEF spans
  <2>2. Len(spans) \in Nat /\ DOMAIN spans = 1 .. Len(spans) /\ \A i \in 1 .. Len(spans) : spans[i] \in Range(spans)
    BY <2>1, LenProperties DEF Range
  <2>3. ASSUME NEW i \in 1 .. Len(spans) PROVE [source |-> s, span |-> spans[i]] \in Sourced(texts)
    <3>1. s \in DOMAIN texts /\ spans[i] \in Range(Sentences(texts[s], MinSentence))
      BY <2>2 DEF spans
    <3>2. [source |-> s, span |-> spans[i]] \in {[source |-> s, span |-> p] : p \in Range(Sentences(texts[s], MinSentence))}
      BY <3>1
    <3> QED
      BY <3>1, <3>2 DEF Sourced
  <2>4. OfSource(s, spans) = [i \in 1 .. Len(spans) |-> [source |-> s, span |-> spans[i]]]
    BY <2>2 DEF OfSource
  <2>5. OfSource(s, spans) \in Seq(Sourced(texts))
    BY <2>2, <2>3, <2>4
  <2> QED
    BY <2>5 DEF spans
<1>2. of = [s \in 1 .. n |-> OfSource(s, Sentences(texts[s], MinSentence))]
  OBVIOUS
<1>3. of \in Seq(Seq(Sourced(texts)))
  BY <1>1, <1>2
<1>4. SourceSentences(texts) = FlattenSeq(of)
  BY DEF SourceSentences
<1> HIDE DEF of
<1> QED
  BY <1>3, <1>4, FlattenType

LEMMA BudgetIs ==
  ASSUME NEW S, NEW all \in Seq(S), NEW d, NEW own, NEW texts, NEW ranked
  PROVE  Budget(d, own, texts, all, ranked) \in Seq(S)
<1> DEFINE best(i) == Max({Relevance(Slice(d, own[e]), Slice(texts[all[i].source], all[i].span)) : e \in DOMAIN own})
           ahead(i) == IF ranked THEN {j \in DOMAIN all : best(j) > best(i) \/ (best(j) = best(i) /\ j < i)}
                       ELSE 1 .. i - 1
           kept == Places(Len(all), {i \in DOMAIN all : Cardinality(ahead(i)) < MaxSentences})
<1>1. Budget(d, own, texts, all, ranked)
        = IF Len(all) <= MaxSentences \/ own = <<>> THEN all ELSE [i \in DOMAIN kept |-> all[kept[i]]]
  BY DEF Budget
<1>2. Len(all) \in Nat
  BY LenProperties
<1>3. kept \in Seq(1 .. Len(all))
  BY <1>2, PlacesAre
<1> HIDE DEF kept
<1>4. Len(kept) \in Nat /\ DOMAIN kept = 1 .. Len(kept) /\ \A i \in 1 .. Len(kept) : all[kept[i]] \in S
  <2>1. \A i \in 1 .. Len(kept) : kept[i] \in 1 .. Len(all)
    BY <1>3, ElementOfSeq
  <2> QED
    BY <1>3, <2>1, LenProperties, ElementOfSeq
<1>5. [i \in DOMAIN kept |-> all[kept[i]]] \in Seq(S)
  BY <1>4
<1> QED
  BY <1>1, <1>5

LEMMA NearestIs ==
  ASSUME NEW S, NEW corpus \in Seq(S), corpus # <<>>, NEW sentence, NEW texts,
         \A j \in DOMAIN corpus : Similarity(sentence, Slice(texts[corpus[j].source], corpus[j].span)) \in -100 .. 100
  PROVE  Nearest(sentence, texts, corpus) \in DOMAIN corpus
<1> DEFINE like(j) == Similarity(sentence, Slice(texts[corpus[j].source], corpus[j].span))
           D == DOMAIN corpus
           Best(j) == \A k \in D : like(j) > like(k) \/ (like(j) = like(k) /\ j <= k)
<1>1. Nearest(sentence, texts, corpus) = CHOOSE j \in D : Best(j)
  BY DEF Nearest
<1>2. ASSUME NEW j \in D PROVE like(j) \in Int /\ -100 <= like(j) /\ like(j) <= 100
  <2>1. Similarity(sentence, Slice(texts[corpus[j].source], corpus[j].span)) \in -100 .. 100
    BY SMTT(60)
  <2> DEFINE x == Similarity(sentence, Slice(texts[corpus[j].source], corpus[j].span))
  <2> HIDE DEF x
  <2>2. x \in -100 .. 100
    BY <2>1 DEF x
  <2>3. x \in Int /\ -100 <= x /\ x <= 100
    BY <2>2
  <2> QED
    BY <2>3 DEF x
<1>3. D \in SUBSET Nat /\ D # {}
  <2>1. Len(corpus) \in Nat /\ D = 1 .. Len(corpus)
    BY LenProperties
  <2>2. Len(corpus) # 0
    BY EmptySeq
  <2>3. 1 \in D
    BY <2>1, <2>2
  <2> QED
    BY <2>1, <2>3
<1> HIDE DEF like, D
<1> DEFINE L == {like(j) + 100 : j \in D}
<1>4. PICK m \in L : \A x \in L : x <= m
  <2>1. \A j \in D : like(j) + 100 \in Nat /\ like(j) + 100 <= 200
    BY <1>2
  <2>2. L \in SUBSET Nat /\ L # {} /\ \A x \in L : x <= 200
    BY <1>3, <2>1
  <2> HIDE DEF L
  <2> QED
    BY <2>2, GreatestOf, ZenonT(60)
<1> DEFINE E == {j \in D : like(j) + 100 = m}
<1>5. PICK j \in E : \A k \in E : j <= k
  <2>1. E \in SUBSET Nat /\ E # {}
    BY <1>3, <1>4
  <2> HIDE DEF E
  <2> QED
    BY <2>1, LeastOf
<1>6. ASSUME NEW k \in D PROVE like(j) > like(k) \/ (like(j) = like(k) /\ j <= k)
  <2>1. like(k) + 100 <= like(j) + 100 /\ like(k) \in Int /\ like(j) \in Int
    BY <1>2, <1>4, <1>5
  <2>2. like(k) = like(j) => k \in E
    BY <1>5
  <2> QED
    BY <1>5, <2>1, <2>2
<1>7. \E i \in D : Best(i)
  BY <1>5, <1>6
<1> HIDE DEF Best
<1>8. (CHOOSE i \in D : Best(i)) \in D
  BY <1>7
<1> QED
  BY <1>1, <1>8 DEF D

\* What a sentence of the document is reported as.
LEMMA SemanticIs ==
  ASSUME NEW d, NEW texts, NEW n \in Nat, DOMAIN texts = 1 .. n, Alike(d, texts),
         NEW corpus \in Seq(Sourced(texts)), corpus # <<>>,
         NEW span \in Int \X Int, span \in Range(Sentences(d.text, MinSentence))
  PROVE  LET m == Semantic(d.text, span, texts, corpus) IN IsMatch(m, texts) /\ m.type # "verbatim"
<1> DEFINE sentence == Slice(d.text, span)
           j == Nearest(sentence, texts, corpus)
           m == Semantic(d.text, span, texts, corpus)
<1>1. sentence \in SentencesOf(d.text)
  BY DEF SentencesOf
<1>2. ASSUME NEW i \in DOMAIN corpus
      PROVE  /\ corpus[i].source \in DOMAIN texts
             /\ Similarity(sentence, Slice(texts[corpus[i].source], corpus[i].span)) \in -100 .. 100
  <2>1. corpus[i] \in Sourced(texts)
    BY LenProperties, ElementOfSeq
  <2>2. PICK s \in DOMAIN texts : corpus[i] \in {[source |-> s, span |-> p] : p \in Range(Sentences(texts[s], MinSentence))}
    BY <2>1 DEF Sourced
  <2>3. PICK p \in Range(Sentences(texts[s], MinSentence)) : corpus[i] = [source |-> s, span |-> p]
    BY <2>2
  <2>4. corpus[i].source = s /\ corpus[i].span = p
    BY <2>3
  <2>5. Slice(texts[s], p) \in SentencesOf(texts[s])
    BY DEF SentencesOf
  <2>6. Similarity(sentence, Slice(texts[s], p)) \in -100 .. 100
    BY <1>1, <2>5 DEF Alike
  <2> QED
    BY <2>4, <2>6
<1> HIDE DEF sentence
<1>3. j \in DOMAIN corpus
  BY <1>2, NearestIs
<1>4. /\ m.source = corpus[j].source /\ m.span = span
      /\ m.type \in {"paraphrase", "translated"} /\ m.confidence \in Confidences
  BY DEF Semantic, sentence, Confidences
<1> HIDE DEF j, m
<1>5. corpus[j].source \in DOMAIN texts
  BY <1>2, <1>3
<1>6. IsMatch(m, texts) /\ m.type # "verbatim"
  BY <1>4, <1>5 DEF IsMatch, Types
<1> QED
  BY <1>6 DEF m

LEMMA ParaphrasesAre ==
  ASSUME NEW d, IsList(d.text), NEW texts, NEW n \in Nat, DOMAIN texts = 1 .. n, Alike(d, texts),
         NEW corpus \in Seq(Sourced(texts)), NEW copies
  PROVE  LET ms == Paraphrases(d.text, OwnSentences(d.text), texts, corpus, copies)
         IN  IsList(ms) /\ \A m \in Range(ms) : IsMatch(m, texts) /\ m.type # "verbatim"
<1> DEFINE own == OwnSentences(d.text)
           told == [i \in DOMAIN own |-> Semantic(d.text, own[i], texts, corpus)]
           shown == Places(Len(own), {i \in DOMAIN own : told[i].score >= Floor /\ ~AlreadyShown(own[i], copies)})
           ms == Paraphrases(d.text, own, texts, corpus, copies)
<1>1. own = Sentences(d.text, MinSentence) /\ own \in Seq(Int \X Int)
  BY SentencesAre DEF OwnSentences
<1>2. ms = IF own = <<>> \/ corpus = <<>> THEN <<>> ELSE [i \in DOMAIN shown |-> told[shown[i]]]
  BY DEF Paraphrases
<1> HIDE DEF own, ms
<1>3. /\ Len(own) \in Nat /\ DOMAIN own = 1 .. Len(own)
      /\ \A i \in 1 .. Len(own) : own[i] \in Int \X Int /\ own[i] \in Range(own)
  BY <1>1, LenProperties, ElementOfSeq DEF Range
<1>4. shown \in Seq(1 .. Len(own))
  BY <1>3, PlacesAre
<1>5. \A i \in 1 .. Len(own) : told[i] = Semantic(d.text, own[i], texts, corpus)
  BY <1>3
<1> HIDE DEF told, shown
<1>6. CASE own = <<>> \/ corpus = <<>>
  <2>1. ms = <<>> /\ <<>> \in Seq({}) /\ Range(<<>>) = {}
    BY <1>2, <1>6 DEF Range
  <2>2. IsList(ms) /\ Range(ms) = {}
    BY <2>1, ListOf
  <2> QED
    BY <2>2 DEF ms, own
<1>7. CASE own # <<>> /\ corpus # <<>>
  <2>1. /\ Len(shown) \in Nat /\ DOMAIN shown = 1 .. Len(shown)
        /\ \A i \in 1 .. Len(shown) : shown[i] \in 1 .. Len(own)
    BY <1>4, LenProperties, ElementOfSeq
  <2>2. ms = [i \in 1 .. Len(shown) |-> told[shown[i]]]
    BY <1>2, <1>7, <2>1
  <2>3. \A i \in 1 .. Len(own) : IsMatch(told[i], texts) /\ told[i].type # "verbatim"
    <3> SUFFICES ASSUME NEW i \in 1 .. Len(own) PROVE IsMatch(told[i], texts) /\ told[i].type # "verbatim"
      OBVIOUS
    <3>1. own[i] \in Int \X Int /\ own[i] \in Range(Sentences(d.text, MinSentence))
      BY <1>1, <1>3
    <3>2. LET m == Semantic(d.text, own[i], texts, corpus) IN IsMatch(m, texts) /\ m.type # "verbatim"
      BY <1>7, <3>1, SemanticIs
    <3> QED
      BY <1>5, <3>2
  <2>4. \A m \in Range(ms) : IsMatch(m, texts) /\ m.type # "verbatim"
    BY <2>1, <2>2, <2>3 DEF Range
  <2>5. ms \in Seq({told[i] : i \in 1 .. Len(own)})
    BY <2>1, <2>2
  <2>6. IsList(ms)
    BY <2>5, ListOf
  <2> QED
    BY <2>4, <2>6 DEF ms, own
<1> QED
  BY <1>6, <1>7

-----------------------------------------------------------------------------
(* The order of the document                                                 *)

LEMMA ComesIsOrder ==
  ASSUME NEW ms, NEW n \in Nat, DOMAIN ms = 1 .. n, \A i \in 1 .. n : ms[i].span \in Int \X Int
  PROVE  /\ \A i \in 1 .. n : ~Comes(ms, i, i)
         /\ \A i, j \in 1 .. n : i = j \/ Comes(ms, i, j) \/ Comes(ms, j, i)
         /\ \A i, j, k \in 1 .. n : Comes(ms, i, j) /\ Comes(ms, j, k) => Comes(ms, i, k)
<1> DEFINE p(i) == ms[i].span[1]
           q(i) == ms[i].span[2]
<1>1. \A i \in 1 .. n : p(i) \in Int /\ q(i) \in Int /\ i \in Int
  OBVIOUS
<1>2. \A i, j : Comes(ms, i, j) <=> (p(i) < p(j) \/ (p(i) = p(j) /\ (q(i) < q(j) \/ (q(i) = q(j) /\ i < j))))
  BY DEF Comes
<1> HIDE DEF p, q
<1>3. \A i \in 1 .. n : ~Comes(ms, i, i)
  BY <1>1, <1>2
<1>4. \A i, j \in 1 .. n : i = j \/ Comes(ms, i, j) \/ Comes(ms, j, i)
  BY <1>1, <1>2
<1>5. \A i, j, k \in 1 .. n : Comes(ms, i, j) /\ Comes(ms, j, k) => Comes(ms, i, k)
  <2> SUFFICES ASSUME NEW i \in 1 .. n, NEW j \in 1 .. n, NEW k \in 1 .. n, Comes(ms, i, j), Comes(ms, j, k)
               PROVE  Comes(ms, i, k)
    OBVIOUS
  <2>1. /\ p(i) \in Int /\ q(i) \in Int /\ i \in Int /\ p(j) \in Int /\ q(j) \in Int /\ j \in Int
        /\ p(k) \in Int /\ q(k) \in Int /\ k \in Int
    BY <1>1
  <2>2. p(i) < p(j) \/ (p(i) = p(j) /\ (q(i) < q(j) \/ (q(i) = q(j) /\ i < j)))
    BY <1>2
  <2>3. p(j) < p(k) \/ (p(j) = p(k) /\ (q(j) < q(k) \/ (q(j) = q(k) /\ j < k)))
    BY <1>2
  <2>4. p(i) < p(k) \/ (p(i) = p(k) /\ (q(i) < q(k) \/ (q(i) = q(k) /\ i < k)))
    BY <2>1, <2>2, <2>3
  <2> QED
    BY <1>2, <2>4
<1> QED
  BY <1>3, <1>4, <1>5

\* Every place of the order is the rank of one match.
LEMMA RanksAre ==
  ASSUME NEW ms, NEW n \in Nat, DOMAIN ms = 1 .. n, \A i \in 1 .. n : ms[i].span \in Int \X Int
  PROVE  /\ \A i \in 1 .. n : Rank(ms, i) \in 1 .. n
         /\ \A i, j \in 1 .. n : Rank(ms, i) = Rank(ms, j) => i = j
         /\ \A r \in 1 .. n : \E i \in 1 .. n : Rank(ms, i) = r
<1> DEFINE before == [i \in 1 .. n |-> {j \in 1 .. n : Comes(ms, j, i)}]
<1>1. /\ \A i \in 1 .. n : ~Comes(ms, i, i)
      /\ \A i, j \in 1 .. n : i = j \/ Comes(ms, i, j) \/ Comes(ms, j, i)
      /\ \A i, j, k \in 1 .. n : Comes(ms, i, j) /\ Comes(ms, j, k) => Comes(ms, i, k)
  BY ComesIsOrder
<1>2. \A i \in 1 .. n : Rank(ms, i) = Cardinality(before[i]) + 1
  BY DEF Rank
<1>3. StrictOrder(n, before)
  BY <1>1 DEF StrictOrder
<1> HIDE DEF before
<1>4. PICK rank : Ranks(rank, n, before)
  BY <1>3, OrderedPlaces
<1>5. \A i \in 1 .. n : rank[i] \in 1 .. n /\ Rank(ms, i) = rank[i]
  <2> SUFFICES ASSUME NEW i \in 1 .. n PROVE rank[i] \in 1 .. n /\ Rank(ms, i) = rank[i]
    OBVIOUS
  <2>1. rank[i] \in 1 .. n /\ Cardinality(before[i]) = rank[i] - 1
    BY <1>4 DEF Ranks
  <2>2. Rank(ms, i) = Cardinality(before[i]) + 1
    BY <1>2
  <2> QED
    BY <2>1, <2>2
<1>6. \A i, j \in 1 .. n : Rank(ms, i) = Rank(ms, j) => i = j
  <2>1. \A i, j \in 1 .. n : rank[i] = rank[j] => i = j
    BY <1>4 DEF Ranks
  <2>2. \A i \in 1 .. n : Rank(ms, i) = rank[i]
    BY <1>5
  <2> SUFFICES ASSUME NEW i \in 1 .. n, NEW j \in 1 .. n, Rank(ms, i) = Rank(ms, j) PROVE i = j
    OBVIOUS
  <2>3. Rank(ms, i) = rank[i] /\ Rank(ms, j) = rank[j]
    BY <2>2
  <2>4. rank[i] = rank[j]
    BY <2>3
  <2> QED
    BY <2>1, <2>4
<1>7. \A r \in 1 .. n : \E i \in 1 .. n : Rank(ms, i) = r
  BY <1>4, <1>5, ZenonT(60) DEF Ranks
<1>8. \A i \in 1 .. n : Rank(ms, i) \in 1 .. n
  <2> SUFFICES ASSUME NEW i \in 1 .. n PROVE Rank(ms, i) \in 1 .. n
    OBVIOUS
  <2>1. rank[i] \in 1 .. n /\ Rank(ms, i) = rank[i]
    BY <1>5
  <2> QED
    BY <2>1
<1> QED
  BY <1>6, <1>7, <1>8

\* Putting matches in order neither loses nor adds one.
LEMMA InOrderIs ==
  ASSUME NEW ms, IsList(ms), \A m \in Range(ms) : m.span \in Int \X Int
  PROVE  IsList(InOrder(ms)) /\ Range(InOrder(ms)) = Range(ms)
<1> DEFINE n == Len(ms)
           at_(r) == CHOOSE i \in DOMAIN ms : Rank(ms, i) = r
           sorted == InOrder(ms)
<1>1. n \in Nat /\ DOMAIN ms = 1 .. n
  BY LenProperties DEF IsList
<1>2. \A i \in 1 .. n : ms[i] \in Range(ms) /\ ms[i].span \in Int \X Int
  BY <1>1 DEF Range
<1>3. /\ \A i \in 1 .. n : Rank(ms, i) \in 1 .. n
      /\ \A i, j \in 1 .. n : Rank(ms, i) = Rank(ms, j) => i = j
      /\ \A r \in 1 .. n : \E i \in 1 .. n : Rank(ms, i) = r
  BY <1>1, <1>2, RanksAre
<1>4. sorted = [r \in 1 .. n |-> ms[at_(r)]]
  BY <1>1 DEF InOrder
<1>5. \A r \in 1 .. n : at_(r) \in 1 .. n /\ Rank(ms, at_(r)) = r
  BY <1>1, <1>3
<1> HIDE DEF n, at_, sorted
<1>6. \A i \in 1 .. n : at_(Rank(ms, i)) = i
  BY <1>3, <1>5
<1>7. sorted \in Seq(Range(ms))
  BY <1>1, <1>2, <1>4, <1>5
<1>8. IsList(sorted)
  BY <1>7, ListOf
<1>9. DOMAIN sorted = 1 .. n /\ \A r \in 1 .. n : sorted[r] = ms[at_(r)]
  BY <1>4
<1>10. Range(sorted) \subseteq Range(ms)
  BY <1>2, <1>5, <1>9 DEF Range
<1>11. ASSUME NEW m \in Range(ms) PROVE m \in Range(sorted)
  <2>1. PICK i \in 1 .. n : m = ms[i]
    BY <1>1 DEF Range
  <2>2. sorted[Rank(ms, i)] = ms[i] /\ Rank(ms, i) \in 1 .. n
    BY <1>3, <1>6, <1>9
  <2> QED
    BY <1>9, <2>1, <2>2 DEF Range
<1> QED
  BY <1>8, <1>10, <1>11 DEF sorted

-----------------------------------------------------------------------------
(* The inductive invariant                                                   *)

\* What the check works on is what the parser made of the uploads.
Loaded(d, texts, u) ==
  /\ d = Parsed(u.paper)
  /\ \E n \in Nat : DOMAIN texts = 1 .. n
  /\ \A s \in DOMAIN texts : \E r \in Range(u.references) : texts[s] = Parsed(r).text

AreMatches(ms, texts) == IsList(ms) /\ \A m \in Range(ms) : IsMatch(m, texts)

ParagraphIn(d, m) ==
  d.paragraphs[Max({i \in DOMAIN d.paragraphs : d.paragraphs[i].start <= m.span[1]})]

Classified(d, texts, ms) ==
  [i \in DOMAIN ms |-> Classify(ms[i], Signals(d.text, ParagraphIn(d, ms[i]), ms[i], texts))]

CopiesOf(ms) == {m \in Range(ms) : m.type = "verbatim"}
Running == pc \notin {"parse", "failed"}
Limit == IF pc = "search" THEN at ELSE Len(Words) + 1

Inv ==
  /\ given \in Uploads
  /\ pc = "parse" => matches = <<>> /\ at = 1
  /\ Running => /\ Loaded(doc, sources.texts, given)
                /\ at \in Nat \ {0}
                /\ AreMatches(matches, sources.texts)
                /\ Found(doc, sources.texts, CopiesOf(matches), Limit)
  /\ pc \in {"report", "done"} => types = None \/ types = Classified(doc, sources.texts, matches)
  /\ pc = "done" => band = BandFor(IF types = None THEN <<>> ELSE types, overall.reviews)

LEMMA LoadedIs ==
  ASSUME NEW u \in Uploads, NEW d, NEW texts, Loaded(d, texts, u)
  PROVE  IsParsed(d) /\ AreTexts(d, texts) /\ Alike(d, texts) /\ \E n \in Nat : DOMAIN texts = 1 .. n
<1>1. /\ IsDocument(u.paper) /\ \A r \in Range(u.references) : IsDocument(r)
  BY RecheckAssumption
<1>2. IsParsed(d)
  BY <1>1, ParsedIs DEF Loaded
<1>3. \A s \in DOMAIN texts : IsList(texts[s])
  <2> SUFFICES ASSUME NEW s \in DOMAIN texts PROVE IsList(texts[s])
    OBVIOUS
  <2>1. PICK r \in Range(u.references) : texts[s] = Parsed(r).text
    BY DEF Loaded
  <2>2. IsParsed(Parsed(r))
    BY <1>1, ParsedIs
  <2> QED
    BY <2>1, <2>2 DEF IsParsed
<1>4. PICK n \in Nat : DOMAIN texts = 1 .. n
  BY DEF Loaded
<1>5. AreTexts(d, texts)
  <2>1. IsList(d.text)
    BY <1>2 DEF IsParsed
  <2>2. DOMAIN texts \subseteq Nat
    BY <1>4
  <2> QED
    BY <1>3, <2>1, <2>2 DEF AreTexts
<1>6. ASSUME NEW a \in SentencesOf(d.text), NEW s \in DOMAIN texts, NEW b \in SentencesOf(texts[s])
      PROVE  Similarity(a, b) \in -100 .. 100
  <2>1. PICK r \in Range(u.references) : texts[s] = Parsed(r).text
    BY DEF Loaded
  <2>2. a \in SentencesOf(Parsed(u.paper).text) /\ b \in SentencesOf(Parsed(r).text)
    BY <2>1 DEF Loaded
  <2> QED
    BY <2>2, EncoderAssumption
<1> QED
  BY <1>2, <1>4, <1>5, <1>6 DEF Alike

LEMMA LoadedFirst ==
  ASSUME NEW u \in Uploads, NEW ids, ids = Places(Len(u.references), {i \in DOMAIN u.references : Usable(u.references[i])}),
         NEW texts, texts = [i \in DOMAIN ids |-> Parsed(u.references[ids[i]]).text]
  PROVE  Loaded(Parsed(u.paper), texts, u)
<1>1. IsList(u.references)
  BY RecheckAssumption
<1>2. Len(u.references) \in Nat /\ DOMAIN u.references = 1 .. Len(u.references)
  BY <1>1, LenProperties DEF IsList
<1>3. ids \in Seq(1 .. Len(u.references))
  BY <1>2, PlacesAre
<1>4. Len(ids) \in Nat /\ DOMAIN ids = 1 .. Len(ids) /\ \A i \in 1 .. Len(ids) : ids[i] \in 1 .. Len(u.references)
  BY <1>3, LenProperties, ElementOfSeq
<1>5. \A i \in 1 .. Len(ids) : u.references[ids[i]] \in Range(u.references)
  BY <1>2, <1>4 DEF Range
<1>6. DOMAIN texts = 1 .. Len(ids)
  BY <1>4
<1>7. ASSUME NEW i \in DOMAIN texts PROVE \E r \in Range(u.references) : texts[i] = Parsed(r).text
  <2>1. texts[i] = Parsed(u.references[ids[i]]).text
    BY <1>4, <1>6
  <2> QED
    BY <1>5, <1>6, <2>1
<1> QED
  BY <1>4, <1>6, <1>7 DEF Loaded

LEMMA InvInit == Init => Inv
  BY DEF Init, Inv, Running

LEMMA InvFresh == ASSUME given' \in Uploads, Fresh PROVE Inv'
  BY DEF Fresh, Inv, Running

LEMMA InvParse == ASSUME Inv, Parse PROVE Inv'
<1>1. /\ pc = "parse" /\ pc' = "search" /\ given' = given /\ at' = at /\ matches' = matches /\ given \in Uploads
      /\ matches = <<>> /\ at = 1
  BY DEF Inv, Parse, found
<1>2. Loaded(doc', sources'.texts, given')
  <2>1. /\ doc' = Parsed(given.paper)
        /\ sources'.texts = [i \in DOMAIN UsableIds |-> Parsed(given.references[UsableIds[i]]).text]
    BY DEF Parse
  <2> QED
    BY <1>1, <2>1, LoadedFirst DEF UsableIds
<1>3. Range(matches') = {} /\ IsList(matches')
  <2>1. <<>> \in Seq({}) /\ Range(<<>>) = {}
    BY DEF Range
  <2> QED
    BY <1>1, <2>1, ListOf
<1>4. Found(doc', sources'.texts, {}, 1)
  <2>1. \A x \in 1 .. Len(Tokens(doc'.text)) : ~(x < 1)
    OBVIOUS
  <2> QED
    BY <2>1 DEF Found
<1>5. CopiesOf(matches') = {} /\ Limit' = 1
  BY <1>1, <1>3 DEF CopiesOf, Limit
<1>6. AreMatches(matches', sources'.texts) /\ at' \in Nat \ {0}
  BY <1>1, <1>3 DEF AreMatches
<1>7. Found(doc', sources'.texts, CopiesOf(matches'), Limit')
  BY <1>4, <1>5
<1> QED
  BY <1>1, <1>2, <1>6, <1>7 DEF Inv, Running

LEMMA InvFoundCopy == ASSUME Inv, FoundCopy PROVE Inv'
<1> DEFINE c == Longest(Words, Sources(sources.texts), at)
           len == RunLength(Words, Sources(sources.texts)[c[1]], at, c[2])
           m == Verbatim(c[1], <<Tokens(doc.text)[at], Tokens(doc.text)[at + len - 1]>>,
                         <<Tokens(sources.texts[c[1]])[c[2]], Tokens(sources.texts[c[1]])[c[2] + len - 1]>>)
<1>1. /\ pc = "search" /\ pc' = pc /\ given' = given /\ doc' = doc /\ sources' = sources /\ types' = types
      /\ at <= Len(Words) - NGram + 1 /\ Seeds(Words, Sources(sources.texts), at) # {} /\ len >= MinVerbatim
      /\ matches' = Append(matches, m) /\ at' = at + len
  <2>1. BestRun.source = c[1] /\ BestRun.from = c[2] /\ BestRun.length = len
    BY DEF BestRun
  <2> QED
    BY <2>1 DEF FoundCopy, Searching, LongEnough, NextAfter
<1>2. /\ given \in Uploads /\ Loaded(doc, sources.texts, given) /\ at \in Nat \ {0}
      /\ AreMatches(matches, sources.texts) /\ Found(doc, sources.texts, CopiesOf(matches), at)
  BY <1>1 DEF Inv, Running, Limit
<1>3. AreTexts(doc, sources.texts) /\ IsList(doc.text)
  BY <1>2, LoadedIs DEF AreTexts
<1>4. Len(Words) \in Nat
  BY <1>3, WordNumbers DEF Words
<1>5. at + NGram - 1 <= Len(Words)
  BY <1>1, <1>2, <1>4, MatcherAssumption
<1> HIDE DEF c, len, m
<1>6. len \in Nat /\ CopyAt(m, at, at + len - 1, doc, sources.texts)
  BY <1>1, <1>2, <1>3, <1>5, ReportsCopy DEF Words, c, len, m
<1>7. Found(doc, sources.texts, CopiesOf(matches) \cup {m}, at + len)
  BY <1>2, <1>3, <1>6, FoundMore
<1>8. m.type = "verbatim" /\ m.confidence = "confident"
  BY DEF m, Verbatim
<1>9. IsMatch(m, sources.texts)
  <2> DEFINE k == Tokens(doc.text)
  <2>1. at \in 1 .. Len(k) /\ at + len - 1 \in 1 .. Len(k) /\ m.span = <<k[at], k[at + len - 1]>> /\ m.source \in DOMAIN sources.texts
    <3>1. m.span = <<k[at], k[at + len - 1]>> /\ m.source \in DOMAIN sources.texts
      BY <1>6 DEF CopyAt
    <3>2. Len(k) \in Nat
      BY <1>3, WordNumbers
    <3>3. 1 <= at /\ at <= at + len - 1 /\ at + len - 1 <= Len(k)
      BY <1>3, <1>6, HeldWords
    <3> QED
      BY <1>2, <1>6, <3>1, <3>2, <3>3
  <2>2. k[at] \in Nat /\ k[at + len - 1] \in Nat
    BY <1>3, <2>1, WordNumbers
  <2> HIDE DEF k
  <2> QED
    BY <1>8, <2>1, <2>2 DEF IsMatch, Types, Confidences
<1>10. Range(matches') = Range(matches) \cup {m} /\ IsList(matches')
  <2> DEFINE S == Range(matches) \cup {m}
  <2>1. matches \in Seq(S) /\ m \in S
    <3>1. matches \in Seq(Range(matches)) /\ Range(matches) \subseteq S
      BY <1>2 DEF AreMatches, IsList
    <3> HIDE DEF S
    <3>2. matches \in Seq(S)
      BY <3>1, SeqMonotonic
    <3> QED
      BY <3>2 DEF S
  <2> HIDE DEF S
  <2>2. Range(Append(matches, m)) = Range(matches) \cup {m} /\ Append(matches, m) \in Seq(S)
    BY <2>1, RangeOfAppend, AppendProperties
  <2> QED
    BY <1>1, <2>2, ListOf
<1>11. AreMatches(matches', sources'.texts)
  BY <1>1, <1>2, <1>9, <1>10 DEF AreMatches
<1>12. CopiesOf(matches') = CopiesOf(matches) \cup {m}
  BY <1>8, <1>10 DEF CopiesOf
<1>13. at' \in Nat \ {0}
  BY <1>1, <1>2, <1>6
<1>14. Limit' = at + len
  BY <1>1 DEF Limit
<1> QED
  BY <1>1, <1>2, <1>7, <1>11, <1>12, <1>13, <1>14 DEF Inv, Running

LEMMA InvNoCopyHere == ASSUME Inv, NoCopyHere PROVE Inv'
<1>1. /\ pc = "search" /\ pc' = pc /\ given' = given /\ doc' = doc /\ sources' = sources /\ matches' = matches
      /\ at <= Len(Words) - NGram + 1 /\ ~LongEnough /\ at' = at + 1
  BY DEF NoCopyHere, Searching, found
<1>2. /\ given \in Uploads /\ Loaded(doc, sources.texts, given) /\ at \in Nat \ {0}
      /\ AreMatches(matches, sources.texts) /\ Found(doc, sources.texts, CopiesOf(matches), at)
  BY <1>1 DEF Inv, Running, Limit
<1>3. AreTexts(doc, sources.texts) /\ IsList(doc.text)
  BY <1>2, LoadedIs DEF AreTexts
<1>4. Len(Words) \in Nat
  BY <1>3, WordNumbers DEF Words
<1>5. at + NGram - 1 <= Len(Words)
  BY <1>1, <1>2, <1>4, MatcherAssumption
<1>6. Seeds(Words, Sources(sources.texts), at) # {} =>
        LET c == Longest(Words, Sources(sources.texts), at)
        IN  ~(RunLength(Words, Sources(sources.texts)[c[1]], at, c[2]) >= MinVerbatim)
  BY <1>1 DEF LongEnough, BestRun
<1>7. Found(doc, sources.texts, CopiesOf(matches), at + 1)
  BY <1>2, <1>3, <1>5, <1>6, FoundNone DEF Words
<1>8. Limit' = at + 1 /\ at' \in Nat \ {0}
  BY <1>1, <1>2 DEF Limit
<1> QED
  BY <1>1, <1>2, <1>7, <1>8 DEF Inv, Running

\* Comparing the sentences adds to the copies, and adds no copy.
LEMMA CompareAdds ==
  ASSUME Inv, CompareSentences
  PROVE  /\ AreMatches(matches', sources.texts) /\ CopiesOf(matches') = CopiesOf(matches)
         /\ \E ranked : Range(matches') =
              Range(matches) \cup (IF semantic' THEN Range(Compared(OwnSentences(doc.text), SourceSentences(sources.texts), ranked))
                                  ELSE {})
<1>1. /\ given \in Uploads /\ Loaded(doc, sources.texts, given) /\ AreMatches(matches, sources.texts)
  BY DEF Inv, Running, CompareSentences
<1>2. AreTexts(doc, sources.texts) /\ IsList(doc.text) /\ Alike(doc, sources.texts)
  BY <1>1, LoadedIs DEF AreTexts
<1>3. PICK n \in Nat : DOMAIN sources.texts = 1 .. n
  BY <1>1, LoadedIs
<1>4. PICK ranked \in BOOLEAN, works \in Encodings :
        /\ semantic' = works
        /\ matches' = IF works THEN matches \o Compared(OwnSentences(doc.text), SourceSentences(sources.texts), ranked)
                      ELSE matches
  BY DEF CompareSentences
<1> DEFINE corpus == Budget(doc.text, OwnSentences(doc.text), sources.texts, SourceSentences(sources.texts), ranked)
           ms == Paraphrases(doc.text, OwnSentences(doc.text), sources.texts, corpus, Range(matches))
<1>5. ms = Compared(OwnSentences(doc.text), SourceSentences(sources.texts), ranked)
  BY DEF Compared
<1>6. SourceSentences(sources.texts) \in Seq(Sourced(sources.texts))
  BY <1>2, <1>3, SourceSentencesAre DEF AreTexts
<1>7. corpus \in Seq(Sourced(sources.texts))
  BY <1>6, BudgetIs
<1> HIDE DEF corpus
<1>8. IsList(ms) /\ \A m \in Range(ms) : IsMatch(m, sources.texts) /\ m.type # "verbatim"
  BY <1>2, <1>3, <1>7, ParaphrasesAre
<1> HIDE DEF ms
<1>9. CASE ~semantic'
  <2>1. matches' = matches
    BY <1>4, <1>9
  <2> QED
    BY <1>1, <1>9, <2>1
<1>10. CASE semantic'
  <2> DEFINE S == Range(matches) \cup Range(ms)
  <2>1. matches' = matches \o ms
    BY <1>4, <1>5, <1>10
  <2>2. matches \in Seq(S) /\ ms \in Seq(S)
    <3>1. /\ matches \in Seq(Range(matches)) /\ Range(matches) \subseteq S
          /\ ms \in Seq(Range(ms)) /\ Range(ms) \subseteq S
      BY <1>1, <1>8 DEF AreMatches, IsList
    <3> HIDE DEF S
    <3> QED
      BY <3>1, SeqMonotonic
  <2> HIDE DEF S
  <2>3. matches' \in Seq(S) /\ Range(matches') = Range(matches) \cup Range(ms)
    BY <2>1, <2>2, ConcatProperties, RangeConcatenation
  <2>4. IsList(matches')
    BY <2>3, ListOf
  <2>5. AreMatches(matches', sources.texts) /\ CopiesOf(matches') = CopiesOf(matches)
    BY <1>1, <1>8, <2>3, <2>4 DEF AreMatches, CopiesOf
  <2> QED
    BY <1>5, <1>10, <2>3, <2>5
<1> QED
  BY <1>9, <1>10

LEMMA InvCompareSentences == ASSUME Inv, CompareSentences PROVE Inv'
<1>1. /\ pc = "search" /\ pc' = "count" /\ given' = given /\ doc' = doc /\ sources' = sources /\ at' = at
      /\ ~(at <= Len(Words) - NGram + 1)
  BY DEF CompareSentences, Searching
<1>2. /\ given \in Uploads /\ Loaded(doc, sources.texts, given) /\ at \in Nat \ {0}
      /\ Found(doc, sources.texts, CopiesOf(matches), at)
  BY <1>1 DEF Inv, Running, Limit
<1>3. IsList(doc.text)
  BY <1>2, LoadedIs DEF AreTexts
<1>4. Found(doc, sources.texts, CopiesOf(matches), Len(Words) + 1)
  BY <1>1, <1>2, <1>3, FoundAll DEF Words
<1>5. AreMatches(matches', sources.texts) /\ CopiesOf(matches') = CopiesOf(matches)
  BY CompareAdds
<1>6. Limit' = Len(Words) + 1
  BY <1>1 DEF Limit, Words
<1> QED
  BY <1>1, <1>2, <1>4, <1>5, <1>6 DEF Inv, Running

LEMMA InvCount == ASSUME Inv, Count PROVE Inv'
<1>1. /\ pc = "count" /\ pc' = "triage" /\ given' = given /\ doc' = doc /\ sources' = sources /\ at' = at
      /\ matches' = InOrder(matches)
  BY DEF Count
<1>2. /\ given \in Uploads /\ Loaded(doc, sources.texts, given) /\ at \in Nat \ {0}
      /\ AreMatches(matches, sources.texts) /\ Found(doc, sources.texts, CopiesOf(matches), Limit)
  BY <1>1 DEF Inv, Running
<1>3. IsList(matches') /\ Range(matches') = Range(matches)
  BY <1>1, <1>2, InOrderIs DEF AreMatches, IsMatch
<1>4. AreMatches(matches', sources'.texts) /\ CopiesOf(matches') = CopiesOf(matches)
  BY <1>1, <1>2, <1>3 DEF AreMatches, CopiesOf
<1>5. Limit' = Limit
  BY <1>1 DEF Limit, Words
<1> QED
  BY <1>1, <1>2, <1>4, <1>5 DEF Inv, Running

\* The stages that only read what was found.
LEMMA InvReading ==
  ASSUME Inv, Running, pc # "search", pc' \in {"report", "done"},
         given' = given, doc' = doc, sources' = sources, at' = at, matches' = matches
  PROVE  /\ given' \in Uploads
         /\ Running' => /\ Loaded(doc', sources'.texts, given') /\ at' \in Nat \ {0}
                        /\ AreMatches(matches', sources'.texts)
                        /\ Found(doc', sources'.texts, CopiesOf(matches'), Limit')
<1>1. Limit' = Limit
  BY DEF Limit, Words
<1> QED
  BY <1>1 DEF Inv

LEMMA InvTriageMatches == ASSUME Inv, TriageMatches PROVE Inv'
<1>1. /\ pc = "triage" /\ pc' = "report" /\ given' = given /\ doc' = doc /\ sources' = sources /\ at' = at
      /\ matches' = matches
  BY DEF TriageMatches
<1>2. types' = None \/ types' = Classified(doc', sources'.texts, matches')
  BY <1>1 DEF TriageMatches, Classified, ParagraphIn, ParagraphOf
<1>3. Running
  BY <1>1 DEF Running
<1> QED
  BY <1>1, <1>2, <1>3, InvReading DEF Inv

LEMMA InvFinish == ASSUME Inv, Finish PROVE Inv'
<1>1. /\ pc = "report" /\ pc' = "done" /\ given' = given /\ doc' = doc /\ sources' = sources /\ at' = at
      /\ matches' = matches /\ types' = types /\ overall' = overall
      /\ band' = BandFor(IF types = None THEN <<>> ELSE types, overall.reviews)
  BY DEF Finish
<1>2. types' = None \/ types' = Classified(doc', sources'.texts, matches')
  BY <1>1 DEF Inv
<1>3. Running
  BY <1>1 DEF Running
<1> QED
  BY <1>1, <1>2, <1>3, InvReading DEF Inv

LEMMA InvNext == Inv /\ [Next]_vars => Inv'
<1> SUFFICES ASSUME Inv, [Next]_vars PROVE Inv'
  OBVIOUS
<1>1. CASE Parse
  BY <1>1, InvParse
<1>2. CASE Reject
  BY <1>2 DEF Reject, Inv, Running
<1>3. CASE FoundCopy
  BY <1>3, InvFoundCopy
<1>4. CASE NoCopyHere
  BY <1>4, InvNoCopyHere
<1>5. CASE CompareSentences
  BY <1>5, InvCompareSentences
<1>6. CASE Count
  BY <1>6, InvCount
<1>7. CASE TriageMatches
  BY <1>7, InvTriageMatches
<1>8. CASE Finish
  BY <1>8, InvFinish
<1>9. CASE Revise
  BY <1>9, InvFresh DEF Revise
<1>10. CASE UNCHANGED vars
  BY <1>10 DEF vars, Inv, Running, Limit, Words
<1> QED
  BY <1>1, <1>2, <1>3, <1>4, <1>5, <1>6, <1>7, <1>8, <1>9, <1>10 DEF Next

LEMMA InvHolds == Spec => []Inv
  BY InvInit, InvNext, PTL DEF Spec

-----------------------------------------------------------------------------
(* The copies                                                                *)

LEMMA Covers ==
  ASSUME NEW d, IsList(d.text), NEW texts, NEW copies, Found(d, texts, copies, Len(Norms(d.text)) + 1),
         NEW x \in 1 .. Len(Tokens(d.text)), Copied(x, d, texts)
  PROVE  \E m \in copies : \E a, b : CopyAt(m, a, b, d, texts) /\ x \in a .. b
<1>1. Len(Norms(d.text)) = Len(Tokens(d.text)) /\ Len(Tokens(d.text)) \in Nat
  BY WordNumbers
<1>2. x < Len(Norms(d.text)) + 1
  BY <1>1
<1>3. PICK m \in copies : Tokens(d.text)[x] \in m.span[1] .. m.span[2]
  BY <1>2 DEF Found
<1>4. PICK a, b : CopyAt(m, a, b, d, texts)
  BY DEF Found
<1>5. x \in a .. b
  BY <1>3, <1>4, HeldWords
<1> QED
  BY <1>4, <1>5

\* The search is over: what it has found, for every word.
LEMMA AllFound ==
  ASSUME Inv, Searched
  PROVE  /\ Found(doc, sources.texts, Copies, Len(Norms(doc.text)) + 1)
         /\ AreTexts(doc, sources.texts) /\ IsParsed(doc) /\ IsList(doc.text)
         /\ AreMatches(matches, sources.texts)
<1>1. Running /\ Limit = Len(Norms(doc.text)) + 1 /\ Copies = CopiesOf(matches)
  BY DEF Searched, Running, Limit, Words, Copies, CopiesOf
<1>2. /\ given \in Uploads /\ Loaded(doc, sources.texts, given) /\ AreMatches(matches, sources.texts)
      /\ Found(doc, sources.texts, CopiesOf(matches), Limit)
  BY <1>1 DEF Inv
<1> QED
  BY <1>1, <1>2, LoadedIs DEF AreTexts

\* Of the words from p to q, only the last few are in no copy.
OnlyLastLeft(p, q) == Unreported(p, q, Copies) \subseteq q - MinVerbatim + 2 .. q

\* So it is with a run of words that a source holds.
LEMMA LastAreLeft ==
  ASSUME Inv, Searched, NEW s \in DOMAIN sources.texts, NEW n \in Nat, n >= MinVerbatim,
         NEW p \in 1 .. Len(Words), NEW i \in 1 .. Len(Norms(sources.texts[s])),
         Agree(Words, Norms(sources.texts[s]), p, i, n)
  PROVE  OnlyLastLeft(p, p + n - 1)
<1> DEFINE texts == sources.texts
           norm == Norms(texts[s])
           k == Tokens(doc.text)
           A == WordSet(doc, texts)
<1>1. /\ Found(doc, texts, Copies, Len(Norms(doc.text)) + 1) /\ AreTexts(doc, texts) /\ IsList(doc.text)
  BY AllFound
<1>2. Words \in Seq(A) /\ norm \in Seq(A)
  BY <1>1, WordsAre DEF Words
<1>3. Len(Words) = Len(k) /\ Len(k) \in Nat
  BY <1>1, WordNumbers DEF Words
<1> HIDE DEF norm, A
<1>4. /\ MinVerbatim \in Nat /\ MinVerbatim >= 1 /\ p + n - 1 <= Len(Words) /\ p \in Nat
  <2>1. p + n - 1 <= Len(Words)
    BY DEF Agree
  <2> QED
    BY <1>3, <2>1, MatcherAssumption
<1> DEFINE q == p + n - 1
<1> SUFFICES Unreported(p, q, Copies) \subseteq q - MinVerbatim + 2 .. q
  BY DEF OnlyLastLeft
<1> SUFFICES ASSUME NEW x \in Unreported(p, q, Copies)
             PROVE  x \in q - MinVerbatim + 2 .. q
  OBVIOUS
<1>5. x \in p .. p + n - 1 /\ \A m \in Copies : k[x] \notin m.span[1] .. m.span[2]
  BY DEF Unreported
<1>6. ASSUME x <= p + n - 1 - MinVerbatim + 1 PROVE FALSE
  <2>1. x \in Nat /\ p <= x /\ x + MinVerbatim <= p + n /\ x \in 1 .. Len(k) /\ x + MinVerbatim - 1 <= Len(Words)
    BY <1>3, <1>4, <1>5, <1>6
  <2>2. Holds(norm, SubSeq(Words, x, x + MinVerbatim - 1))
    <3>1. n \in Nat \ {0} /\ MinVerbatim \in Nat \ {0} /\ p + n - 1 <= Len(Words)
      BY <1>4
    <3>2. Holds(norm, SubSeq(Words, p, p + n - 1))
      BY <1>2, <3>1, HoldsIs DEF norm
    <3>3. Words \in Seq(A)
      BY <1>2
    <3> QED
      BY <1>2, <2>1, <3>1, <3>2, <3>3, HoldsWithin
  <2>3. Copied(x, doc, texts)
    BY <2>1, <2>2 DEF Copied, Words, norm
  <2>4. PICK m \in Copies : k[x] \in m.span[1] .. m.span[2]
    <3>1. x < Len(Norms(doc.text)) + 1
      BY <1>3, <2>1 DEF Words
    <3> QED
      BY <1>1, <2>1, <2>3, <3>1 DEF Found
  <2> QED
    BY <1>5, <2>4
<1> QED
  BY <1>4, <1>5, <1>6

LEMMA CopiesAreFound == Inv => CopiesFound
<1> SUFFICES ASSUME Inv, Searched PROVE CopiesFound
  BY DEF CopiesFound
<1> DEFINE texts == sources.texts
           norms == Sources(texts)
           k == Tokens(doc.text)
           A == WordSet(doc, texts)
<1>1. /\ Found(doc, texts, Copies, Len(Norms(doc.text)) + 1) /\ AreTexts(doc, texts) /\ IsList(doc.text)
  BY AllFound
<1>2. /\ Words \in Seq(A) /\ DOMAIN norms = DOMAIN texts
      /\ \A s \in DOMAIN texts : norms[s] = Norms(texts[s]) /\ Norms(texts[s]) \in Seq(A)
  BY <1>1, WordsAre DEF Words
<1>3. Len(Words) = Len(k) /\ Len(k) \in Nat /\ DOMAIN k = 1 .. Len(k)
  BY <1>1, WordNumbers DEF Words
<1>4. ASSUME NEW m \in Copies PROVE Norms(Slice(doc.text, m.span)) = Norms(Slice(texts[m.source], m.at))
  <2>1. PICK a, b : CopyAt(m, a, b, doc, texts)
    BY <1>1 DEF Found
  <2> QED
    BY <2>1 DEF CopyAt
<1>5. \A m, n \in Copies : m # n => (m.span[1] .. m.span[2]) \cap (n.span[1] .. n.span[2]) = {}
  BY <1>1 DEF Found, Apart
<1>6. ASSUME NEW p \in DOMAIN k, NEW s \in DOMAIN norms, NEW i \in DOMAIN norms[s],
             NEW last, last = p + RunLength(Words, norms[s], p, i) - 1, last - p + 1 >= MinVerbatim
      PROVE  OnlyLastLeft(p, last)
  <2> DEFINE n == RunLength(Words, norms[s], p, i)
  <2>1. /\ s \in DOMAIN texts /\ norms[s] \in Seq(A) /\ norms[s] = Norms(texts[s])
        /\ i \in 1 .. Len(norms[s]) /\ p \in 1 .. Len(Words) /\ p \in Nat
    <3>1. s \in DOMAIN texts /\ norms[s] \in Seq(A) /\ norms[s] = Norms(texts[s])
      BY <1>2
    <3> QED
      BY <1>3, <3>1, LenProperties
  <2>2. n \in Nat /\ Agree(Words, norms[s], p, i, n)
    BY <1>2, <2>1, RunLengthIs
  <2>3. last = p + n - 1
    BY <1>6
  <2> HIDE DEF n, norms
  <2>4. n >= MinVerbatim
    BY <1>6, <2>1, <2>2, <2>3, MatcherAssumption
  <2>5. OnlyLastLeft(p, p + n - 1)
    BY <2>1, <2>2, <2>4, LastAreLeft
  <2> QED
    BY <2>3, <2>5
<1>7. \A p \in DOMAIN k : \A s \in DOMAIN norms : \A i \in DOMAIN norms[s] :
        LET last == p + RunLength(Words, norms[s], p, i) - 1
        IN  last - p + 1 >= MinVerbatim => OnlyLastLeft(p, last)
  BY <1>6
<1> QED
  BY <1>4, <1>5, <1>7 DEF CopiesFound, OnlyLastLeft

\* plagiarism_matcher.py:8-10: the copies that the greedy search reports are copies, no word
\* is in two of them, and of any run of words that some source holds it leaves out nothing
\* but the last few, for any documents and any two lengths of which the first is the less.
THEOREM CopiesAreReported == Spec => []CopiesFound
  BY InvHolds, CopiesAreFound, PTL

-----------------------------------------------------------------------------
(* The counts                                                                *)

AddsUp(o, d, sorted, texts) ==
  /\ o.matched = o.verbatim \cup o.paraphrase \cup o.translated
  /\ o.verbatim \cap o.paraphrase = {} /\ o.verbatim \cap o.translated = {}
  /\ o.paraphrase \cap o.translated = {}
  /\ o.matched = o.confident \cup o.review /\ o.confident \cap o.review = {}
  /\ o.matched = UNION Range(PerSource(d, sorted, texts))

LEMMA OverallAddsUp ==
  ASSUME NEW d, NEW texts, NEW ms, NEW sorted, Range(sorted) = Range(ms), \A m \in Range(ms) : IsMatch(m, texts)
  PROVE  AddsUp(Overall(d, ms), d, sorted, texts)
<1> DEFINE M == Range(ms)
           of(type) == WordsOf(d, {m \in M : m.type = type})
           by(c) == WordsOf(d, {m \in M : m.confidence = c})
           per(s) == WordsOf(d, {m \in M : m.source = s})
           o == Overall(d, ms)
           all == WordsOf(d, M)
<1>1. /\ o.matched = of("verbatim") \cup of("paraphrase") \cup of("translated")
      /\ o.verbatim = of("verbatim")
      /\ o.paraphrase = (of("paraphrase") \ of("verbatim")) \ of("translated")
      /\ o.translated = of("translated") \ of("verbatim")
      /\ o.confident = by("confident") /\ o.review = by("review") \ by("confident")
  BY DEF Overall
<1>2. PerSource(d, sorted, texts) = [s \in DOMAIN texts |-> per(s)]
  BY DEF PerSource
<1> HIDE DEF o, M
<1>3. \A m \in M : m.type \in Types /\ m.confidence \in Confidences /\ m.source \in DOMAIN texts
  BY DEF M, IsMatch
<1>4. of("verbatim") \cup of("paraphrase") \cup of("translated") = all
  BY <1>3 DEF WordsOf, Types
<1>5. by("confident") \cup by("review") = all
  BY <1>3 DEF WordsOf, Confidences
<1>6. UNION Range(PerSource(d, sorted, texts)) = all
  <2>1. Range(PerSource(d, sorted, texts)) = {per(s) : s \in DOMAIN texts}
    BY <1>2 DEF Range
  <2>2. UNION {per(s) : s \in DOMAIN texts} = all
    BY <1>3 DEF WordsOf
  <2> QED
    BY <2>1, <2>2
<1> HIDE DEF of, by, all
<1>7. /\ o.matched = o.verbatim \cup o.paraphrase \cup o.translated
      /\ o.verbatim \cap o.paraphrase = {} /\ o.verbatim \cap o.translated = {}
      /\ o.paraphrase \cap o.translated = {}
  BY <1>1
<1>8. o.matched = o.confident \cup o.review /\ o.confident \cap o.review = {}
  BY <1>1, <1>4, <1>5
<1>9. o.matched = UNION Range(PerSource(d, sorted, texts))
  BY <1>1, <1>4, <1>6
<1> QED
  BY <1>7, <1>8, <1>9 DEF o, AddsUp

LEMMA PartsNext == Inv /\ PartsAddUp /\ [Next]_vars => PartsAddUp'
<1> SUFFICES ASSUME Inv, PartsAddUp, [Next]_vars PROVE PartsAddUp'
  OBVIOUS
<1>1. CASE Parse
  BY <1>1 DEF Parse, PartsAddUp
<1>2. CASE Reject
  BY <1>2 DEF Reject, PartsAddUp
<1>3. CASE FoundCopy
  BY <1>3 DEF FoundCopy, Searching, PartsAddUp
<1>4. CASE NoCopyHere
  BY <1>4 DEF NoCopyHere, Searching, PartsAddUp
<1>5. CASE CompareSentences
  BY <1>5 DEF CompareSentences, PartsAddUp
<1>6. CASE Count
  <2>1. /\ pc = "count" /\ doc' = doc /\ sources' = sources /\ matches' = InOrder(matches)
        /\ overall' = Overall(doc.text, matches)
    BY <1>6 DEF Count
  <2>2. AreMatches(matches, sources.texts)
    BY <2>1 DEF Inv, Running
  <2>3. Range(matches') = Range(matches)
    BY <2>1, <2>2, InOrderIs DEF AreMatches, IsMatch
  <2>4. AddsUp(overall', doc'.text, matches', sources'.texts)
    BY <2>1, <2>2, <2>3, OverallAddsUp DEF AreMatches
  <2> QED
    BY <2>4 DEF PartsAddUp, AddsUp
<1>7. CASE TriageMatches
  BY <1>7 DEF TriageMatches, PartsAddUp
<1>8. CASE Finish
  BY <1>8 DEF Finish, PartsAddUp
<1>9. CASE Revise
  BY <1>9 DEF Revise, Fresh, PartsAddUp
<1>10. CASE UNCHANGED vars
  BY <1>10 DEF vars, PartsAddUp
<1> QED
  BY <1>1, <1>2, <1>3, <1>4, <1>5, <1>6, <1>7, <1>8, <1>9, <1>10 DEF Next

\* plagiarism_matcher.py, _aggregate() and confidence_breakdown(): the parts of the overview
\* make up the matched words and no word is counted twice, by kind, by confidence and by
\* source, whatever overlaps what.
THEOREM OverviewAddsUp == Spec => []PartsAddUp
<1>1. Init => PartsAddUp
  BY DEF Init, PartsAddUp
<1> QED
  BY <1>1, InvHolds, PartsNext, PTL DEF Spec

-----------------------------------------------------------------------------
(* The copy that is acted on                                                 *)

\* In a long copy of a source there are words enough to report, all of one reported copy.
LEMMA LongCopyHeld ==
  ASSUME NEW d, NEW texts, AreTexts(d, texts), NEW copies, Found(d, texts, copies, Len(Norms(d.text)) + 1),
         NEW p \in 1 .. Len(Norms(d.text)), NEW s \in DOMAIN texts,
         p + 2 * MinVerbatim - 2 <= Len(Norms(d.text)),
         Holds(Norms(texts[s]), SubSeq(Norms(d.text), p, p + 2 * MinVerbatim - 2))
  PROVE  \E m \in copies : \E a, b : \E x \in p .. p + MinVerbatim - 1 :
           CopyAt(m, a, b, d, texts) /\ a <= x /\ x + MinVerbatim - 1 <= b
<1> DEFINE w == Norms(d.text)
           k == Tokens(d.text)
           v == MinVerbatim
           A == WordSet(d, texts)
           n == 2 * v - 1
<1>1. v \in Nat /\ v >= 1 /\ n \in Nat \ {0} /\ p + 2 * v - 2 = p + n - 1
  BY MatcherAssumption
<1>2. w \in Seq(A) /\ Norms(texts[s]) \in Seq(A) /\ IsList(d.text) /\ Len(w) = Len(k) /\ Len(k) \in Nat
  BY WordsAre, WordNumbers DEF AreTexts
<1>3. p \in Nat /\ 1 <= p /\ p + n - 1 <= Len(w) /\ Holds(Norms(texts[s]), SubSeq(w, p, p + n - 1))
  BY <1>1, <1>2
<1> HIDE DEF w, k, v, A
<1>4. ASSUME NEW x \in p .. p + v - 1
      PROVE  \E m \in copies : \E a, b : CopyAt(m, a, b, d, texts) /\ x \in a .. b
  <2>1. x \in Nat /\ p <= x /\ x + v <= p + n /\ x \in 1 .. Len(k) /\ x + v - 1 <= Len(w)
    BY <1>1, <1>2, <1>3
  <2>2. Holds(Norms(texts[s]), SubSeq(w, x, x + v - 1))
    <3>1. v \in Nat \ {0} /\ p \in 1 .. Len(w)
      BY <1>1, <1>2, <1>3
    <3> HIDE DEF n
    <3> QED
      BY <1>1, <1>2, <1>3, <2>1, <3>1, HoldsWithin
  <2>3. Copied(x, d, texts)
    BY <2>1, <2>2 DEF Copied, w, v
  <2> QED
    BY <1>2, <2>1, <2>3, Covers DEF k
<1>5. p \in p .. p + v - 1
  BY <1>1, <1>3
<1>found. PICK m \in copies : \E a, b : CopyAt(m, a, b, d, texts) /\ p \in a .. b
  BY <1>4, <1>5
<1>6. PICK a, b : CopyAt(m, a, b, d, texts) /\ p \in a .. b
  BY <1>found
<1>7. a \in Nat /\ b \in Nat /\ a <= p /\ p <= b /\ b <= Len(k) /\ b - a + 1 >= v
  <2>1. a \in Nat /\ b \in Nat /\ 1 <= a /\ a <= b /\ b <= Len(Tokens(d.text))
    BY <1>2, <1>6, HeldWords
  <2>2. b - a + 1 >= v
    BY <1>6 DEF CopyAt, v
  <2> QED
    BY <1>3, <1>6, <2>1, <2>2 DEF k
<1>8. CASE p + v - 1 <= b
  BY <1>5, <1>6, <1>7, <1>8 DEF v
<1>9. CASE b < p + v - 1
  <2>1. b + 1 \in p .. p + v - 1
    BY <1>1, <1>3, <1>7, <1>9
  <2>next. PICK o \in copies : \E i, j : CopyAt(o, i, j, d, texts) /\ b + 1 \in i .. j
    BY <1>4, <2>1
  <2>2. PICK i, j : CopyAt(o, i, j, d, texts) /\ b + 1 \in i .. j
    BY <2>next
  <2>3. i \in Nat /\ j \in Nat /\ 1 <= i /\ i <= b + 1 /\ b + 1 <= j /\ j - i + 1 >= v
    <3>1. i \in Nat /\ j \in Nat /\ 1 <= i
      BY <1>2, <2>2, HeldWords
    <3>2. j - i + 1 >= v
      BY <2>2 DEF CopyAt, v
    <3> QED
      BY <1>7, <2>2, <3>1, <3>2
  <2>4. ~(i <= b)
    <3> SUFFICES ASSUME i <= b PROVE FALSE
      OBVIOUS
    <3>1. b \in 1 .. Len(k) /\ b + 1 \in 1 .. Len(k) /\ b \in a .. b /\ b \in i .. j /\ b + 1 \notin a .. b
      <4>1. b + 1 <= Len(w)
        BY <1>1, <1>3, <1>7, <1>9
      <4> QED
        BY <1>2, <1>3, <1>7, <2>3, <4>1
    <3>2. k[b] \in m.span[1] .. m.span[2] /\ k[b] \in o.span[1] .. o.span[2]
      BY <1>2, <1>6, <2>2, <3>1, HeldWords DEF k
    <3>3. k[b + 1] \in o.span[1] .. o.span[2] /\ k[b + 1] \notin m.span[1] .. m.span[2]
      BY <1>2, <1>6, <2>2, <3>1, HeldWords DEF k
    <3>4. m # o
      BY <3>3
    <3> QED
      BY <3>2, <3>4 DEF Found, Apart
  <2>5. i <= b + 1 /\ (b + 1) + v - 1 <= j
    BY <1>1, <1>7, <2>3, <2>4
  <2> QED
    BY <2>1, <2>2, <2>5 DEF v
<1> QED
  BY <1>1, <1>3, <1>7, <1>8, <1>9

\* Where nothing is cited or quoted, no such mark is near a match.
Plainly(d) == \A i \in DOMAIN d.text : d.text[i].kind \notin {"cite", "open", "close", "quote"}

LEMMA NotQuoted == ASSUME NEW d, Plainly(d), NEW span PROVE IsQuoted(d.text, span) = FALSE
<1>1. ASSUME NEW i PROVE KindAt(d.text, i) \notin {"open", "quote"}
  BY DEF KindAt, Plainly
<1> QED
  BY <1>1 DEF IsQuoted

LEMMA NotCited ==
  ASSUME NEW d, IsParsed(d), Plainly(d), d.text # <<>>, NEW m, m.span[1] \in Nat, m.span[1] >= 1
  PROVE  IsCited(d.text, ParagraphIn(d, m)) = FALSE
<1> DEFINE S == {i \in DOMAIN d.paragraphs : d.paragraphs[i].start <= m.span[1]}
           p == d.paragraphs[Max(S)]
<1>1. PICK n \in Nat :
        /\ DOMAIN d.paragraphs = 1 .. n
        /\ \A i \in 1 .. n : /\ d.paragraphs[i].start \in Nat /\ d.paragraphs[i].start >= 1
                             /\ d.paragraphs[i].end \in Int /\ d.paragraphs[i].end <= Len(d.text)
        /\ d.text # <<>> => n >= 1 /\ d.paragraphs[1].start = 1
  BY DEF IsParsed
<1>2. 1 \in S /\ S \in SUBSET Nat /\ \A i \in S : i <= n
  BY <1>1
<1>3. \A i \in S : i \in 1 .. n
  BY <1>1
<1> HIDE DEF S
<1>4. Max(S) \in 1 .. n
  <2>1. PICK i \in S : \A j \in S : j <= i
    BY <1>2, GreatestOf
  <2>2. Max(S) = i
    BY <1>2, <2>1, MaxIs
  <2> QED
    BY <1>3, <2>1, <2>2
<1>5. p.start \in Nat /\ p.start >= 1 /\ p.end \in Int /\ p.end <= Len(d.text)
  BY <1>1, <1>4
<1>6. ParagraphIn(d, m) = p
  BY DEF ParagraphIn, S
<1> HIDE DEF p
<1>7. Len(d.text) \in Nat /\ DOMAIN d.text = 1 .. Len(d.text)
  BY LenProperties DEF IsParsed, IsList
<1>8. \A i \in p.start .. p.end : i \in DOMAIN d.text
  BY <1>5, <1>7
<1>9. \A i \in p.start .. p.end : d.text[i].kind # "cite"
  BY <1>8 DEF Plainly
<1> QED
  BY <1>6, <1>9 DEF IsCited

\* A text that includes a run of words includes every part of it.
LEMMA IncludesWithin ==
  ASSUME NEW A, NEW text \in Seq(A), NEW norm \in Seq(A), NEW a \in Nat \ {0}, NEW b \in Nat, b <= Len(text),
         Includes(norm, SubSeq(text, a, b)),
         NEW x \in Nat, NEW v \in Nat \ {0}, a <= x, x + v - 1 <= b
  PROVE  Includes(norm, SubSeq(text, x, x + v - 1))
<1> DEFINE n == b - a + 1
           y == x + v - 1
           outer == SubSeq(text, a, b)
           inner == SubSeq(text, x, y)
<1>1. n \in Nat \ {0} /\ v <= n /\ y \in Nat /\ x <= y /\ Len(text) \in Nat
  BY LenProperties
<1>2. Len(outer) = n /\ \A k \in 1 .. n : outer[k] = text[a + k - 1]
  <2>1. \A k \in a .. b : text[k] \in A
    BY <1>1, ElementOfSeq
  <2>2. Len(outer) = (IF a <= b THEN b - a + 1 ELSE 0) /\ \A k \in 1 .. b - a + 1 : outer[k] = text[a + k - 1]
    BY <2>1, SubSeqProperties
  <2> QED
    BY <1>1, <2>2
<1>3. Len(inner) = v /\ \A k \in 1 .. v : inner[k] = text[x + k - 1]
  <2>1. \A k \in x .. y : text[k] \in A
    BY <1>1, ElementOfSeq
  <2>2. Len(inner) = (IF x <= y THEN y - x + 1 ELSE 0) /\ \A k \in 1 .. y - x + 1 : inner[k] = text[x + k - 1]
    BY <1>1, <2>1, SubSeqProperties
  <2> QED
    BY <1>1, <2>2
<1> HIDE DEF outer, inner
<1>4. PICK i \in DOMAIN norm :
        /\ i + n - 1 <= Len(norm)
        /\ \A k \in 1 .. n : outer[k] = norm[i + k - 1] \/ <<outer[k], norm[i + k - 1]>> \in Partly(k, n)
  BY <1>2 DEF Includes, outer
<1>5. DOMAIN norm = 1 .. Len(norm) /\ Len(norm) \in Nat
  BY LenProperties
<1> DEFINE j == i + (x - a)
<1>6. j \in DOMAIN norm /\ j + v - 1 <= Len(norm) /\ i \in Nat
  BY <1>1, <1>4, <1>5
<1>7. ASSUME NEW k \in 1 .. v
      PROVE  inner[k] = norm[j + k - 1] \/ <<inner[k], norm[j + k - 1]>> \in Partly(k, v)
  <2> DEFINE l == k + (x - a)
  <2>1. l \in 1 .. n /\ i + l - 1 = j + k - 1 /\ a + l - 1 = x + k - 1
    BY <1>1, <1>6
  <2>2. outer[l] = inner[k] /\ norm[i + l - 1] = norm[j + k - 1]
    BY <1>2, <1>3, <2>1
  <2>3. outer[l] = norm[i + l - 1] \/ <<outer[l], norm[i + l - 1]>> \in Partly(l, n)
    BY <1>4, <2>1
  <2>4. Partly(l, n) \subseteq Partly(k, v)
    <3>1. l = 1 => k = 1
      BY <1>1
    <3>2. l = n => k = v
      BY <1>1
    <3>3. n = 1 => v = 1
      BY <1>1
    <3> QED
      BY <3>1, <3>2, <3>3, TriageAssumption DEF Partly
  <2> HIDE DEF l, j
  <2> QED
    BY <2>2, <2>3, <2>4
<1> HIDE DEF j, y
<1> QED
  BY <1>3, <1>6, <1>7 DEF Includes, inner, y

\* A copy with words that only one source includes is in no other source.
LEMMA NotShared ==
  ASSUME NEW d, NEW texts, AreTexts(d, texts), NEW m, NEW a, NEW b, CopyAt(m, a, b, d, texts),
         NEW x \in Nat, a <= x, x + MinVerbatim - 1 <= b, NEW s,
         \A r \in DOMAIN texts \ {s} : ~Includes(Norms(texts[r]), SubSeq(Norms(d.text), x, x + MinVerbatim - 1))
  PROVE  (SharedBySources(m, texts) >= 2) = FALSE
<1> DEFINE w == Norms(d.text)
           A == WordSet(d, texts)
           words == SubSeq(w, a, b)
           holders == {r \in DOMAIN texts : Includes(Norms(texts[r]), words)}
<1>1. /\ w \in Seq(A) /\ \A r \in DOMAIN texts : Norms(texts[r]) \in Seq(A)
      /\ IsList(d.text) /\ Len(w) = Len(Tokens(d.text)) /\ Len(w) \in Nat
  BY WordsAre, WordNumbers DEF AreTexts
<1>2. a \in Nat /\ b \in Nat /\ 1 <= a /\ a <= b /\ b <= Len(w)
  BY <1>1, HeldWords
<1>3. SharedBySources(m, texts) = Cardinality(holders)
  BY DEF SharedBySources, CopyAt
<1>4. ASSUME NEW r \in holders PROVE r = s
  <2>1. Includes(Norms(texts[r]), SubSeq(w, a, b)) /\ Norms(texts[r]) \in Seq(A) /\ r \in DOMAIN texts
    BY <1>1
  <2>2. MinVerbatim \in Nat \ {0} /\ a \in Nat \ {0}
    BY <1>2, MatcherAssumption
  <2> HIDE DEF A, w, holders
  <2>3. Includes(Norms(texts[r]), SubSeq(w, x, x + MinVerbatim - 1))
    BY <1>1, <1>2, <2>1, <2>2, IncludesWithin
  <2> QED
    BY <2>1, <2>3 DEF w
<1>5. holders \in SUBSET {s} /\ IsFiniteSet({s}) /\ Cardinality({s}) = 1
  BY <1>4, FS_Singleton
<1> HIDE DEF holders
<1>6. IsFiniteSet(holders) /\ Cardinality(holders) <= 1
  BY <1>5, FS_Subset
<1>7. Cardinality(holders) \in Nat
  BY <1>6, FS_CardinalityType
<1> QED
  BY <1>3, <1>6, <1>7

LEMMA AskedFor ==
  ASSUME NEW ts, NEW n \in Nat, DOMAIN ts = 1 .. n, NEW i \in 1 .. n, ts[i] = "verbatim_uncited"
  PROVE  \A reviews : BandFor(ts, reviews) = "act"
<1> DEFINE S == {j \in DOMAIN ts : Rules[ts[j]] \in {1, 2}}
<1>1. Rules["verbatim_uncited"] = 1
  BY DEF Rules
<1>2. i \in S
  BY <1>1
<1>3. IsFiniteSet(1 .. n) /\ S \in SUBSET (1 .. n)
  <2>1. 1 \in Int /\ n \in Int
    OBVIOUS
  <2>2. IsFiniteSet(1 .. n)
    BY <2>1, FS_Interval
  <2> QED
    BY <2>2
<1> HIDE DEF S
<1>4. IsFiniteSet(S)
  BY <1>3, FS_Subset
<1>5. Cardinality(S) \in Nat /\ Cardinality(S) # 0
  BY <1>2, <1>4, FS_CardinalityType, FS_EmptySet
<1>6. Asking(ts, {1, 2}) > 0
  BY <1>5 DEF Asking, S
<1> QED
  BY <1>6 DEF BandFor

LEMMA CopyIsActedOn == Inv => UncitedCopyIsActedOn
<1> SUFFICES ASSUME Inv, pc = "done", types # None, Plainly(doc),
                    NEW p \in DOMAIN Words, NEW s \in DOMAIN sources.texts,
                    p + 2 * MinVerbatim - 2 <= Len(Words), Unique(p, p + 2 * MinVerbatim - 2, s),
                    NoPhrase(p, p + 2 * MinVerbatim - 2),
                    Holds(Norms(sources.texts[s]), SubSeq(Words, p, p + 2 * MinVerbatim - 2))
             PROVE  band = "act"
  BY DEF UncitedCopyIsActedOn, Plainly
<1> DEFINE texts == sources.texts
           w == Norms(doc.text)
           k == Tokens(doc.text)
<1>1. /\ Found(doc, texts, Copies, Len(w) + 1) /\ AreTexts(doc, texts) /\ IsParsed(doc) /\ IsList(doc.text)
      /\ AreMatches(matches, texts) /\ types = Classified(doc, texts, matches)
      /\ band = BandFor(types, overall.reviews)
  <2>1. Searched
    BY DEF Searched
  <2>2. types = Classified(doc, texts, matches) /\ band = BandFor(types, overall.reviews)
    BY DEF Inv
  <2> QED
    BY <2>1, <2>2, AllFound
<1>2. /\ Words = w /\ Len(w) = Len(k) /\ Len(k) \in Nat /\ DOMAIN Words = 1 .. Len(w)
      /\ \A i \in 1 .. Len(k) : k[i] \in Nat /\ k[i] >= 1
  BY <1>1, WordNumbers DEF Words
<1>3. MinVerbatim \in Nat /\ MinVerbatim >= 1
  BY MatcherAssumption
<1>4. PICK m \in Copies : \E a, b : \E x \in p .. p + MinVerbatim - 1 :
        CopyAt(m, a, b, doc, texts) /\ a <= x /\ x + MinVerbatim - 1 <= b
  <2>1. p \in 1 .. Len(w) /\ p + 2 * MinVerbatim - 2 <= Len(w)
    BY <1>2
  <2>2. Holds(Norms(texts[s]), SubSeq(w, p, p + 2 * MinVerbatim - 2))
    BY <1>2
  <2> HIDE DEF w, texts
  <2> QED
    BY <1>1, <2>1, <2>2, LongCopyHeld DEF w, texts
<1>5. PICK a, b, x : x \in p .. p + MinVerbatim - 1 /\ CopyAt(m, a, b, doc, texts) /\ a <= x /\ x + MinVerbatim - 1 <= b
  BY <1>4
<1>6. a \in Nat /\ b \in Nat /\ 1 <= a /\ a <= b /\ b <= Len(k)
  BY <1>1, <1>5, HeldWords
<1>7. m.type = "verbatim" /\ m \in Range(matches)
  BY DEF Copies
<1>8. IsQuoted(doc.text, m.span) = FALSE
  BY NotQuoted
<1>9. IsCited(doc.text, ParagraphIn(doc, m)) = FALSE
  <2>1. m.span[1] \in Nat /\ m.span[1] >= 1
    <3>1. m.span = <<k[a], k[b]>> /\ a \in 1 .. Len(k)
      BY <1>2, <1>5, <1>6 DEF CopyAt
    <3> QED
      BY <1>2, <3>1
  <2>2. doc.text # <<>>
    <3> SUFFICES ASSUME doc.text = <<>> PROVE FALSE
      OBVIOUS
    <3>1. k \in Seq(1 .. Len(doc.text)) /\ Len(doc.text) = 0
      BY <1>1, TokensAre DEF IsList
    <3>2. k[a] \in 1 .. 0
      BY <1>2, <1>6, <3>1, ElementOfSeq
    <3> QED
      BY <3>2
  <2> QED
    BY <1>1, <2>1, <2>2, NotCited
<1> DEFINE words == Norms(Slice(doc.text, m.span))
<1>10. (SharedBySources(m, texts) >= 2) = FALSE
  <2>1. x \in Nat /\ x \in p .. (p + 2 * MinVerbatim - 2) - MinVerbatim + 1
    BY <1>2, <1>3, <1>5
  <2>2. \A r \in DOMAIN texts \ {s} : ~Includes(Norms(texts[r]), SubSeq(Norms(doc.text), x, x + MinVerbatim - 1))
    BY <1>2, <2>1 DEF Unique
  <2> QED
    BY <1>1, <1>5, <2>1, <2>2, NotShared
<1>11. (Len(words) <= PhraseWords /\ StopwordShare(words)) = FALSE
  <2>1. words = SubSeq(w, a, b) /\ words = SubSeq(Words, a, b)
    BY <1>2, <1>5 DEF CopyAt
  <2>2. w \in Seq(Range(w))
    BY <1>1, NormsOfList
  <2>3. \A i \in a .. b : w[i] \in Range(w)
    <3>1. \A i \in a .. b : i \in DOMAIN Words
      BY <1>2, <1>6
    <3> QED
      BY <1>2, <3>1 DEF Range
  <2> HIDE DEF w, words
  <2>4. Len(words) = b - a + 1
    BY <1>6, <2>1, <2>2, <2>3, SubSeqProperties
  <2>5. a \in DOMAIN Words /\ b \in DOMAIN Words
    BY <1>2, <1>6
  <2>6. x \in p .. (p + 2 * MinVerbatim - 2) - MinVerbatim + 1
    BY <1>2, <1>3, <1>5
  <2>7. b - a + 1 <= PhraseWords => ~StopwordShare(SubSeq(Words, a, b))
    BY <1>5, <2>5, <2>6 DEF NoPhrase
  <2> QED
    BY <2>1, <2>4, <2>7
<1> HIDE DEF words
<1> DEFINE sig == Signals(doc.text, ParagraphIn(doc, m), m, texts)
<1>12. sig.quoted = FALSE /\ sig.cited = FALSE /\ sig.common = FALSE
  BY <1>8, <1>9, <1>10, <1>11 DEF Signals, words
<1> HIDE DEF sig
<1>13. Classify(m, sig) = "verbatim_uncited"
  BY <1>7, <1>12 DEF Classify
<1>14. Len(matches) \in Nat /\ DOMAIN matches = 1 .. Len(matches)
  BY <1>1, LenProperties DEF AreMatches, IsList
<1>15. PICK i \in 1 .. Len(matches) : matches[i] = m
  BY <1>7, <1>14 DEF Range
<1>16. DOMAIN types = 1 .. Len(matches) /\ types[i] = "verbatim_uncited"
  BY <1>1, <1>13, <1>14, <1>15 DEF Classified, sig
<1> QED
  BY <1>1, <1>14, <1>16, AskedFor

\* triage.py and report.py, from the upload to the band: where a manuscript neither cites nor
\* quotes anything and holds a copy of one reference, almost two reported lengths long, the
\* report asks for action, whatever overlaps that copy and whatever the encoder did; unless
\* another reference holds a reported length of its text too, or such a length lies in a run
\* of at most PhraseWords words that are mostly function words.
THEOREM LongCopyIsActedOn == Spec => []UncitedCopyIsActedOn
  BY InvHolds, CopyIsActedOn, PTL

-----------------------------------------------------------------------------
(* What a check finds is a matter of its uploads                             *)

\* The search from the word a on, of the manuscript d in the texts: as BestRun, LongEnough
\* and FoundCopy have it, of any word.
Ended(d, a) == ~(a <= Len(Norms(d.text)) - NGram + 1)
RunAt(d, texts, a) ==
  LET norms == Sources(texts)
      c == Longest(Norms(d.text), norms, a)
  IN  [source |-> c[1], from |-> c[2], length |-> RunLength(Norms(d.text), norms[c[1]], a, c[2])]
IsLong(d, texts, a) ==
  Seeds(Norms(d.text), Sources(texts), a) # {} /\ RunAt(d, texts, a).length >= MinVerbatim
Onward(d, texts, a) == IF IsLong(d, texts, a) THEN a + RunAt(d, texts, a).length ELSE a + 1
CopyFrom(d, texts, a) ==
  LET b == RunAt(d, texts, a)
      k == Tokens(d.text)
      t == Tokens(texts[b.source])
  IN  Verbatim(b.source, <<k[a], k[a + b.length - 1]>>, <<t[b.from], t[b.from + b.length - 1]>>)

\* The source's words from the i-th on are these.
Says(norm, words, i) == i + Len(words) - 1 <= Len(norm) /\ SubSeq(norm, i, i + Len(words) - 1) = words

\* A copy is reported where its source first says its words.
AtFirst(m, texts) ==
  LET norm == Norms(texts[m.source])
      words == Norms(Slice(texts[m.source], m.at))
      t == Tokens(texts[m.source])
  IN  \E i \in 1 .. Len(norm) :
        /\ m.at = <<t[i], t[i + Len(words) - 1]>> /\ Says(norm, words, i)
        /\ \A j \in 1 .. Len(norm) : Says(norm, words, j) => i <= j

LEMMA AtFirstIsOne ==
  ASSUME NEW texts, NEW before, NEW m, NEW n, texts[n.source] = before[m.source], IsList(before[m.source]),
         AtFirst(m, before), AtFirst(n, texts),
         Norms(Slice(texts[n.source], n.at)) = Norms(Slice(before[m.source], m.at))
  PROVE  n.at = m.at
<1> DEFINE norm == Norms(before[m.source])
           words == Norms(Slice(before[m.source], m.at))
           t == Tokens(before[m.source])
           Least(i) == Says(norm, words, i) /\ \A j \in 1 .. Len(norm) : Says(norm, words, j) => i <= j
<1>1. PICK i \in 1 .. Len(norm) : m.at = <<t[i], t[i + Len(words) - 1]>> /\ Least(i)
  BY DEF AtFirst
<1>2. PICK j \in 1 .. Len(norm) : n.at = <<t[j], t[j + Len(words) - 1]>> /\ Least(j)
  BY DEF AtFirst
<1>3. Len(norm) \in Nat
  BY WordNumbers
<1> HIDE DEF norm, words, t
<1>4. i <= j /\ j <= i /\ i \in Nat /\ j \in Nat
  BY <1>1, <1>2, <1>3
<1>5. i = j
  BY <1>4
<1> QED
  BY <1>1, <1>2, <1>5

\* The seed of the longest copy is the first place of its source that says its words.
LEMMA LongestIsFirst ==
  ASSUME NEW A, NEW text \in Seq(A), NEW norms, AreNorms(norms, A), NEW x \in Nat \ {0}, x + NGram - 1 <= Len(text),
         Seeds(text, norms, x) # {},
         NEW c, c = Longest(text, norms, x),
         NEW n, n = RunLength(text, norms[c[1]], x, c[2]), n >= NGram,
         NEW j \in 1 .. Len(norms[c[1]]), Agree(text, norms[c[1]], x, j, n)
  PROVE  c[2] <= j
<1> DEFINE norm == norms[c[1]]
<1>1. /\ c[1] \in DOMAIN norms /\ c[2] \in 1 .. Len(norm)
      /\ n \in 0 .. Len(text) /\ norm \in Seq(A)
  <2>1. c \in Seeds(text, norms, x)
    BY LongestIs
  <2> QED
    BY <2>1, SeedsAre DEF AreNorms
<1>2. Len(norm) \in Nat /\ DOMAIN norm = 1 .. Len(norm) /\ Len(text) \in Nat /\ NGram \in Nat /\ NGram >= 1
  BY <1>1, LenProperties, MatcherAssumption
<1>3. n \in Nat /\ j \in Nat /\ x \in 1 .. Len(text) /\ Agree(text, norm, x, j, n)
  BY <1>1, <1>2
<1> HIDE DEF norm
<1>4. <<c[1], j>> \in Seeds(text, norms, x)
  <2>1. Agree(text, norm, x, j + (x - x), NGram)
    <3>1. x <= x /\ x + NGram <= x + n /\ x \in Nat
      BY <1>2, <1>3
    <3> QED
      BY <1>2, <1>3, <3>1, AgreeWithin
  <2>2. Agree(text, norm, x, j, NGram)
    BY <1>3, <2>1
  <2>3. j + NGram - 1 <= Len(norm) /\ x + NGram - 1 <= Len(text)
    BY <2>2 DEF Agree
  <2>4. SubSeq(norm, j, j + NGram - 1) = SubSeq(text, x, x + NGram - 1)
    BY <1>1, <1>2, <1>3, <2>2, SameWords, SMTT(60) DEF norm
  <2>5. <<c[1], j>> \in {c[1]} \X DOMAIN norms[c[1]]
    BY <1>2 DEF norm
  <2> QED
    BY <1>1, <2>3, <2>4, <2>5 DEF Seeds, norm
<1> DEFINE r == RunLength(text, norm, x, j)
<1>5. r = n
  <2>1. r \in Nat /\ n <= r
    BY <1>1, <1>3, RunLengthIs DEF norm
  <2>2. r <= n
    <3>1. <<c[1], j>>[1] = c[1] /\ <<c[1], j>>[2] = j
      OBVIOUS
    <3> QED
      BY <1>4, <3>1, LongestIs DEF norm
  <2> QED
    BY <1>3, <2>1, <2>2
<1> HIDE DEF r
<1> QED
  <2> DEFINE e == <<c[1], j>>
  <2>1. e[1] = c[1] /\ e[2] = j
    OBVIOUS
  <2>2. RunLength(text, norms[e[1]], x, e[2]) = RunLength(text, norms[c[1]], x, c[2])
    BY <1>5, <2>1 DEF r, norm
  <2>3. e \in Seeds(text, norms, x)
    BY <1>4
  <2> HIDE DEF e
  <2>4. c[2] <= e[2]
    BY <2>1, <2>2, <2>3, LongestIs
  <2> QED
    BY <2>1, <2>4

\* From a word before the end the search goes on, behind the copy that it reports there.
LEMMA GoesOn ==
  ASSUME NEW d, NEW texts, AreTexts(d, texts), NEW a \in Nat \ {0}, ~Ended(d, a)
  PROVE  /\ Onward(d, texts, a) \in Nat /\ a < Onward(d, texts, a)
         /\ IsLong(d, texts, a) =>
              /\ RunAt(d, texts, a).length \in Nat
              /\ CopyAt(CopyFrom(d, texts, a), a, a + RunAt(d, texts, a).length - 1, d, texts)
              /\ CopyFrom(d, texts, a).type = "verbatim"
<1> DEFINE w == Norms(d.text)
           c == Longest(w, Sources(texts), a)
           len == RunLength(w, Sources(texts)[c[1]], a, c[2])
           m == CopyFrom(d, texts, a)
<1>1. Len(w) \in Nat /\ IsList(d.text)
  BY WordNumbers DEF AreTexts
<1>2. a + NGram - 1 <= Len(w)
  BY <1>1, MatcherAssumption DEF Ended
<1>3. RunAt(d, texts, a).length = len /\ RunAt(d, texts, a).source = c[1] /\ RunAt(d, texts, a).from = c[2]
  BY DEF RunAt
<1>4. ASSUME IsLong(d, texts, a)
      PROVE  len \in Nat /\ len >= 1 /\ CopyAt(m, a, a + len - 1, d, texts) /\ m.type = "verbatim"
  <2>1. Seeds(w, Sources(texts), a) # {} /\ len >= MinVerbatim
    BY <1>3, <1>4 DEF IsLong
  <2>2. m = Verbatim(c[1], <<Tokens(d.text)[a], Tokens(d.text)[a + len - 1]>>,
                     <<Tokens(texts[c[1]])[c[2]], Tokens(texts[c[1]])[c[2] + len - 1]>>)
    BY <1>3 DEF CopyFrom
  <2> HIDE DEF m, c, len
  <2>3. len \in Nat /\ CopyAt(m, a, a + len - 1, d, texts)
    BY <1>2, <2>1, <2>2, ReportsCopy DEF c, len
  <2>4. len >= 1
    BY <2>1, <2>3, MatcherAssumption
  <2> QED
    BY <2>2, <2>3, <2>4 DEF Verbatim
<1> HIDE DEF len, m
<1>5. Onward(d, texts, a) = IF IsLong(d, texts, a) THEN a + len ELSE a + 1
  BY <1>3 DEF Onward
<1>6. Onward(d, texts, a) \in Nat /\ a < Onward(d, texts, a)
  BY <1>4, <1>5
<1> QED
  BY <1>3, <1>4, <1>6 DEF m

LEMMA CopyIsFirst ==
  ASSUME NEW d, NEW texts, AreTexts(d, texts), NEW a \in Nat \ {0}, ~Ended(d, a), IsLong(d, texts, a)
  PROVE  AtFirst(CopyFrom(d, texts, a), texts)
<1> DEFINE w == Norms(d.text)
           A == WordSet(d, texts)
           c == Longest(w, Sources(texts), a)
           s == c[1]
           i == c[2]
           n == RunLength(w, Sources(texts)[c[1]], a, c[2])
           m == CopyFrom(d, texts, a)
           norm == Norms(texts[s])
           t == Tokens(texts[s])
<1>1. /\ w \in Seq(A) /\ AreNorms(Sources(texts), A) /\ DOMAIN Sources(texts) = DOMAIN texts
      /\ \A r \in DOMAIN texts : Sources(texts)[r] = Norms(texts[r]) /\ Norms(texts[r]) \in Seq(A)
  BY WordsAre
<1>2. Len(w) \in Nat
  BY WordNumbers DEF AreTexts
<1>3. a + NGram - 1 <= Len(w) /\ a \in 1 .. Len(w)
  BY <1>2, MatcherAssumption DEF Ended
<1>4. RunAt(d, texts, a).length = n /\ RunAt(d, texts, a).source = s /\ RunAt(d, texts, a).from = i
  BY DEF RunAt
<1>5. m.source = s /\ m.at = <<t[i], t[i + n - 1]>>
  BY <1>4 DEF CopyFrom, Verbatim
<1>6. Seeds(w, Sources(texts), a) # {} /\ n >= MinVerbatim
  BY <1>4 DEF IsLong
<1>7. n \in Nat /\ CopyAt(m, a, a + n - 1, d, texts)
  BY <1>4, GoesOn
<1>8. s \in DOMAIN texts /\ i \in 1 .. Len(norm) /\ Agree(w, norm, a, i, n) /\ norm \in Seq(A) /\ Sources(texts)[s] = norm
  <2>1. c \in Seeds(w, Sources(texts), a)
    BY <1>1, <1>3, <1>6, LongestIs
  <2>2. s \in DOMAIN texts
    BY <1>1, <1>3, <2>1, SeedsAre
  <2> QED
    BY <1>1, <1>3, <2>1, <2>2, SeedsAre
<1> DEFINE words == Norms(Slice(texts[s], m.at))
<1>9. a + n - 1 <= Len(w) /\ i + n - 1 <= Len(norm) /\ Len(norm) \in Nat
  <2>1. Len(norm) \in Nat
    BY <1>8, LenProperties
  <2> QED
    BY <1>8, <2>1 DEF Agree
<1> HIDE DEF w, c, s, i, n, m, norm, t
<1>10. words = SubSeq(w, a, a + n - 1) /\ Len(words) = n
  <2>1. words = SubSeq(w, a, a + n - 1)
    BY <1>5, <1>7 DEF CopyAt, w
  <2>2. Len(SubSeq(w, a, a + n - 1)) = n
    BY <1>1, <1>3, <1>7, <1>8, <1>9, AgreeIsSame
  <2> QED
    BY <2>1, <2>2
<1> HIDE DEF words
<1>11. ASSUME NEW j \in 1 .. Len(norm) PROVE Says(norm, words, j) <=> Agree(w, norm, a, j, n)
  <2>1. Says(norm, words, j) <=> (j + n - 1 <= Len(norm) /\ SubSeq(norm, j, j + n - 1) = SubSeq(w, a, a + n - 1))
    BY <1>10 DEF Says
  <2>2. ASSUME j + n - 1 <= Len(norm)
        PROVE  Agree(w, norm, a, j, n) <=> SubSeq(norm, j, j + n - 1) = SubSeq(w, a, a + n - 1)
    BY <1>1, <1>3, <1>7, <1>8, <1>9, <2>2, AgreeIsSame, SMTT(60)
  <2>3. Agree(w, norm, a, j, n) => j + n - 1 <= Len(norm)
    BY DEF Agree
  <2> QED
    BY <2>1, <2>2, <2>3
<1>12. ASSUME NEW j \in 1 .. Len(norm), Agree(w, norm, a, j, n) PROVE i <= j
  <2>1. n >= NGram
    BY <1>6, <1>7, MatcherAssumption
  <2>2. c = Longest(w, Sources(texts), a) /\ n = RunLength(w, Sources(texts)[c[1]], a, c[2])
    BY DEF c, n
  <2>3. Sources(texts)[c[1]] = norm
    BY <1>8 DEF s
  <2>4. c[2] <= j
    BY <1>1, <1>3, <1>6, <1>12, <2>1, <2>2, <2>3, LongestIsFirst
  <2> QED
    BY <2>4 DEF i
<1>13. Says(norm, words, i) /\ \A j \in 1 .. Len(norm) : Says(norm, words, j) => i <= j
  BY <1>8, <1>11, <1>12
<1>14. m.at = <<t[i], t[i + Len(words) - 1]>>
  BY <1>5, <1>10
<1>15. AtFirst(m, texts)
  BY <1>5, <1>8, <1>13, <1>14 DEF AtFirst, norm, words, t
<1> QED
  BY <1>15 DEF m

\* The words the search comes to: the least set that holds the first and goes on.
GoingOn(S, d, texts) == 1 \in S /\ \A a \in S : ~Ended(d, a) => Onward(d, texts, a) \in S
Visited(d, texts) == {b \in Nat : \A S \in SUBSET Nat : GoingOn(S, d, texts) => b \in S}

CopiesBefore(d, texts, x) == {CopyFrom(d, texts, a) : a \in {v \in Visited(d, texts) : v < x /\ IsLong(d, texts, v)}}
AllCopies(d, texts) ==
  {CopyFrom(d, texts, a) : a \in {v \in Visited(d, texts) : ~Ended(d, v) /\ IsLong(d, texts, v)}}

\* The search has come to x with these copies.
CameTo(d, texts, copies, x) ==
  /\ x \in Visited(d, texts) /\ copies = CopiesBefore(d, texts, x)
  /\ \A a \in Visited(d, texts) : a < x => Onward(d, texts, a) <= x /\ ~Ended(d, a)

LEMMA VisitedAre ==
  ASSUME NEW d, NEW texts, AreTexts(d, texts)
  PROVE  /\ Visited(d, texts) \subseteq Nat \ {0} /\ GoingOn(Visited(d, texts), d, texts)
         /\ \A S \in SUBSET Nat : GoingOn(S, d, texts) => Visited(d, texts) \subseteq S
<1> DEFINE V == Visited(d, texts)
<1>1. \A S \in SUBSET Nat : GoingOn(S, d, texts) => V \subseteq S
  BY DEF Visited
<1>2. GoingOn(Nat \ {0}, d, texts)
  <2>1. ASSUME NEW a \in Nat \ {0}, ~Ended(d, a) PROVE Onward(d, texts, a) \in Nat \ {0}
    <3>1. Onward(d, texts, a) \in Nat /\ a < Onward(d, texts, a)
      BY <2>1, GoesOn
    <3> QED
      BY <3>1
  <2> QED
    BY <2>1 DEF GoingOn
<1>3. V \subseteq Nat \ {0}
  <2>1. Nat \ {0} \in SUBSET Nat
    OBVIOUS
  <2> QED
    BY <1>1, <1>2, <2>1
<1>4. 1 \in V
  BY DEF Visited, GoingOn
<1>5. ASSUME NEW a \in V, ~Ended(d, a) PROVE Onward(d, texts, a) \in V
  <2>1. Onward(d, texts, a) \in Nat
    BY <1>3, <1>5, GoesOn
  <2>2. ASSUME NEW S \in SUBSET Nat, GoingOn(S, d, texts) PROVE Onward(d, texts, a) \in S
    <3>1. a \in S
      BY <1>1, <2>2
    <3> QED
      BY <1>5, <2>2, <3>1 DEF GoingOn
  <2> QED
    BY <2>1, <2>2 DEF Visited
<1> HIDE DEF V
<1>6. GoingOn(V, d, texts)
  BY <1>4, <1>5 DEF GoingOn
<1> QED
  BY <1>1, <1>3, <1>6 DEF V

LEMMA CameFirst ==
  ASSUME NEW d, NEW texts, AreTexts(d, texts)
  PROVE  CameTo(d, texts, {}, 1)
<1>1. 1 \in Visited(d, texts) /\ Visited(d, texts) \subseteq Nat \ {0}
  BY VisitedAre DEF GoingOn
<1>2. \A a \in Visited(d, texts) : ~(a < 1)
  BY <1>1
<1>3. CopiesBefore(d, texts, 1) = {}
  BY <1>2 DEF CopiesBefore
<1> QED
  BY <1>1, <1>2, <1>3 DEF CameTo

\* One step of the search: between x and the word it goes on to it comes to none.
LEMMA CameOn ==
  ASSUME NEW d, NEW texts, AreTexts(d, texts), NEW copies, NEW x, CameTo(d, texts, copies, x), ~Ended(d, x),
         NEW more, more = IF IsLong(d, texts, x) THEN copies \cup {CopyFrom(d, texts, x)} ELSE copies
  PROVE  CameTo(d, texts, more, Onward(d, texts, x))
<1> DEFINE V == Visited(d, texts)
           y == Onward(d, texts, x)
           S == {a \in V : a <= x \/ y <= a}
<1>1. V \subseteq Nat \ {0} /\ GoingOn(V, d, texts) /\ \A T \in SUBSET Nat : GoingOn(T, d, texts) => V \subseteq T
  BY VisitedAre
<1>2. /\ x \in V /\ copies = CopiesBefore(d, texts, x)
      /\ \A a \in V : a < x => Onward(d, texts, a) <= x /\ ~Ended(d, a)
  BY DEF CameTo
<1> HIDE DEF V
<1>3. x \in Nat \ {0} /\ y \in Nat /\ x < y /\ y \in V
  <2>1. x \in Nat \ {0}
    BY <1>1, <1>2
  <2>2. y \in V
    BY <1>1, <1>2 DEF GoingOn
  <2> QED
    BY <2>1, <2>2, GoesOn
<1>4. GoingOn(S, d, texts)
  <2>1. 1 \in S
    <3>1. 1 \in V /\ 1 <= x
      BY <1>1, <1>3 DEF GoingOn
    <3> QED
      BY <3>1
  <2>2. ASSUME NEW a \in S, ~Ended(d, a) PROVE Onward(d, texts, a) \in S
    <3>1. a \in V /\ a \in Nat \ {0} /\ Onward(d, texts, a) \in V /\ (a <= x \/ y <= a)
      BY <1>1, <2>2 DEF GoingOn
    <3>2. Onward(d, texts, a) \in Nat /\ a < Onward(d, texts, a)
      BY <2>2, <3>1, GoesOn
    <3>3. CASE a < x
      BY <1>2, <3>1, <3>3
    <3>4. CASE a = x
      BY <1>3, <3>1, <3>4
    <3>5. CASE y <= a
      BY <1>3, <3>1, <3>2, <3>5
    <3> QED
      BY <1>3, <3>1, <3>3, <3>4, <3>5
  <2> HIDE DEF S
  <2> QED
    BY <2>1, <2>2 DEF GoingOn
<1>5. \A a \in V : a <= x \/ y <= a
  <2>1. S \in SUBSET Nat
    BY <1>1
  <2>2. V \subseteq S
    <3> HIDE DEF S
    <3> QED
      BY <1>1, <1>4, <2>1
  <2> QED
    BY <2>2
<1> HIDE DEF y, S
<1>6. ASSUME NEW a \in V PROVE a < y <=> a < x \/ a = x
  <2>1. a \in Nat
    BY <1>1
  <2> QED
    BY <1>3, <1>5, <2>1
<1>7. ASSUME NEW a \in V, a < y PROVE Onward(d, texts, a) <= y /\ ~Ended(d, a)
  <2>1. CASE a = x
    BY <1>3, <2>1 DEF y
  <2>2. CASE a < x
    <3>1. Onward(d, texts, a) <= x /\ ~Ended(d, a)
      BY <1>2, <2>2
    <3>2. Onward(d, texts, a) \in Nat
      BY <1>1, <3>1, GoesOn
    <3> QED
      BY <1>3, <3>1, <3>2
  <2> QED
    BY <1>6, <1>7, <2>1, <2>2
<1>8. more = CopiesBefore(d, texts, y)
  <2>1. CopiesBefore(d, texts, y) = {CopyFrom(d, texts, a) : a \in {v \in V : v < y /\ IsLong(d, texts, v)}}
    BY DEF CopiesBefore, V
  <2>2. copies = {CopyFrom(d, texts, a) : a \in {v \in V : v < x /\ IsLong(d, texts, v)}}
    BY <1>2 DEF CopiesBefore, V
  <2>3. CASE IsLong(d, texts, x)
    <3>1. {v \in V : v < y /\ IsLong(d, texts, v)} = {v \in V : v < x /\ IsLong(d, texts, v)} \cup {x}
      BY <1>2, <1>3, <1>6, <2>3
    <3> QED
      BY <2>1, <2>2, <2>3, <3>1
  <2>4. CASE ~IsLong(d, texts, x)
    <3>1. {v \in V : v < y /\ IsLong(d, texts, v)} = {v \in V : v < x /\ IsLong(d, texts, v)}
      BY <1>3, <1>6, <2>4
    <3> QED
      BY <2>1, <2>2, <2>4, <3>1
  <2> QED
    BY <2>3, <2>4
<1> QED
  BY <1>3, <1>7, <1>8 DEF CameTo, V, y

\* Where the search ends it has all the copies there are.
LEMMA CameToEnd ==
  ASSUME NEW d, NEW texts, AreTexts(d, texts), NEW copies, NEW x, CameTo(d, texts, copies, x), Ended(d, x)
  PROVE  copies = AllCopies(d, texts)
<1> DEFINE V == Visited(d, texts)
<1>1. /\ V \subseteq Nat \ {0} /\ x \in V /\ copies = CopiesBefore(d, texts, x)
      /\ \A a \in V : a < x => ~Ended(d, a)
  BY VisitedAre DEF CameTo
<1>2. Len(Norms(d.text)) \in Nat /\ NGram \in Nat
  BY WordNumbers, MatcherAssumption DEF AreTexts
<1>3. ASSUME NEW a \in V PROVE a < x <=> ~Ended(d, a)
  <2>1. a \in Nat /\ x \in Nat
    BY <1>1
  <2>2. x <= a => Ended(d, a)
    BY <1>2, <2>1 DEF Ended
  <2> QED
    BY <1>1, <2>1, <2>2
<1>4. {v \in V : v < x /\ IsLong(d, texts, v)} = {v \in V : ~Ended(d, v) /\ IsLong(d, texts, v)}
  BY <1>3
<1> QED
  BY <1>1, <1>4 DEF CopiesBefore, AllCopies

\* What each of those copies is.
LEMMA CopyIn ==
  ASSUME NEW d, NEW texts, AreTexts(d, texts), NEW m \in AllCopies(d, texts)
  PROVE  /\ m.type = "verbatim" /\ AtFirst(m, texts)
         /\ \E a, b : CopyAt(m, a, b, d, texts)
<1>1. PICK a \in Visited(d, texts) : ~Ended(d, a) /\ IsLong(d, texts, a) /\ m = CopyFrom(d, texts, a)
  BY DEF AllCopies
<1>2. a \in Nat \ {0}
  BY VisitedAre
<1>3. CopyAt(m, a, a + RunAt(d, texts, a).length - 1, d, texts) /\ m.type = "verbatim"
  BY <1>1, <1>2, GoesOn
<1>4. AtFirst(m, texts)
  BY <1>1, <1>2, CopyIsFirst
<1> QED
  BY <1>3, <1>4

-----------------------------------------------------------------------------
(* So two checks of the same uploads find the same                           *)

IdsOf(u) == Places(Len(u.references), {i \in DOMAIN u.references : Usable(u.references[i])})
TextsOf(u) == [i \in DOMAIN IdsOf(u) |-> Parsed(u.references[IdsOf(u)[i]]).text]
KeysIn(ms, texts, ids) == {Key(m, texts, ids) : m \in Range(ms)}

\* All that a check finds, if every sentence of the sources was compared.
AllMatches(d, texts, works) ==
  AllCopies(d, texts) \cup
    (IF works THEN Range(Paraphrases(d.text, OwnSentences(d.text), texts, SourceSentences(texts), AllCopies(d, texts)))
     ELSE {})
Complete(d, texts, ms, works) ==
  /\ CopiesOf(ms) = AllCopies(d, texts)
  /\ Len(SourceSentences(texts)) <= MaxSentences => Range(ms) = AllMatches(d, texts, works)

\* What the check before left is what its uploads gave.
Remembers(p) ==
  /\ p.given \in Uploads /\ p.doc = Parsed(p.given.paper) /\ p.texts = TextsOf(p.given) /\ p.ids = IdsOf(p.given)
  /\ Complete(p.doc, p.texts, p.matches, p.semantic)
  /\ p.keys = KeysIn(p.matches, p.texts, IdsOf(p.given))

\* What a check finds is what its uploads give.
Compares == comparison = Comparison(previous.keys, KeysIn(matches, sources.texts, sources.ids))
Determined ==
  /\ Running => sources.ids = IdsOf(given) /\ sources.texts = TextsOf(given)
  /\ pc = "search" => CameTo(doc, sources.texts, Range(matches), at)
  /\ Searched => Complete(doc, sources.texts, matches, semantic)
  /\ previous # None => Remembers(previous)
  /\ pc = "done" /\ previous # None => Compares

LEMMA KeysAre == KeysOf(matches) = KeysIn(matches, sources.texts, sources.ids)
  BY DEF KeysOf, KeysIn, Range

LEMMA RunningTexts ==
  ASSUME Inv, Running
  PROVE  /\ given \in Uploads /\ doc = Parsed(given.paper) /\ AreTexts(doc, sources.texts) /\ at \in Nat \ {0}
         /\ AreMatches(matches, sources.texts)
<1>1. /\ given \in Uploads /\ Loaded(doc, sources.texts, given) /\ at \in Nat \ {0}
      /\ AreMatches(matches, sources.texts)
  BY DEF Inv
<1> QED
  BY <1>1, LoadedIs DEF Loaded

\* No more sentences than are compared at once: all are.
LEMMA AllBudget ==
  ASSUME NEW d, NEW own, NEW texts, NEW all, NEW ranked, Len(all) <= MaxSentences
  PROVE  Budget(d, own, texts, all, ranked) = all
  BY DEF Budget

LEMMA DeterminedInit == Init => Determined
  BY DEF Init, Determined, Running, Searched

LEMMA DeterminedParse == ASSUME Inv, Determined, Parse PROVE Determined'
<1>1. /\ pc' = "search" /\ given' = given /\ at' = at /\ matches' = matches /\ previous' = previous
      /\ matches = <<>> /\ at = 1
      /\ sources'.ids = UsableIds
      /\ sources'.texts = [i \in DOMAIN UsableIds |-> Parsed(given.references[UsableIds[i]]).text]
  BY DEF Inv, Parse, found
<1>2. sources'.ids = IdsOf(given') /\ sources'.texts = TextsOf(given')
  BY <1>1 DEF UsableIds, IdsOf, TextsOf
<1>3. given' \in Uploads /\ Loaded(doc', sources'.texts, given')
  <2>1. Running'
    BY <1>1 DEF Running
  <2> QED
    BY <2>1, InvParse DEF Inv
<1>4. AreTexts(doc', sources'.texts)
  BY <1>3, LoadedIs
<1>5. CameTo(doc', sources'.texts, Range(matches'), at')
  <2>1. Range(matches') = {} /\ at' = 1
    BY <1>1 DEF Range
  <2> QED
    BY <1>4, <2>1, CameFirst
<1>6. previous' # None => Remembers(previous')
  BY <1>1 DEF Determined
<1> QED
  BY <1>1, <1>2, <1>5, <1>6 DEF Determined, Searched

LEMMA DeterminedFoundCopy == ASSUME Inv, Determined, FoundCopy PROVE Determined'
<1> DEFINE b == RunAt(doc, sources.texts, at)
           m == CopyFrom(doc, sources.texts, at)
<1>1. /\ pc = "search" /\ pc' = pc /\ given' = given /\ doc' = doc /\ sources' = sources /\ previous' = previous
      /\ ~Ended(doc, at) /\ IsLong(doc, sources.texts, at)
      /\ matches' = Append(matches, m) /\ at' = at + b.length
  <2>1. BestRun = b
    BY DEF BestRun, RunAt, Words
  <2>2. /\ Searching /\ LongEnough /\ at' = at + b.length
        /\ matches' = Append(matches, m)
    BY <2>1 DEF FoundCopy, NextAfter, CopyFrom
  <2>3. ~Ended(doc, at) /\ IsLong(doc, sources.texts, at)
    BY <2>1, <2>2 DEF Searching, LongEnough, Ended, IsLong, Words
  <2> QED
    BY <2>2, <2>3 DEF FoundCopy, Searching
<1> HIDE DEF b, m
<1>2. AreTexts(doc, sources.texts) /\ at \in Nat \ {0} /\ AreMatches(matches, sources.texts)
  BY <1>1, RunningTexts DEF Running
<1>3. CameTo(doc, sources.texts, Range(matches), at)
  BY <1>1 DEF Determined
<1>4. Range(matches') = Range(matches) \cup {m}
  BY <1>1, <1>2, LongerList DEF AreMatches
<1>5. at' = Onward(doc, sources.texts, at)
  BY <1>1 DEF Onward, b
<1>6. CameTo(doc', sources'.texts, Range(matches'), at')
  <2>1. Range(matches') = IF IsLong(doc, sources.texts, at)
                          THEN Range(matches) \cup {CopyFrom(doc, sources.texts, at)} ELSE Range(matches)
    BY <1>1, <1>4 DEF m
  <2>2. CameTo(doc, sources.texts, Range(matches'), Onward(doc, sources.texts, at))
    BY <1>1, <1>2, <1>3, <2>1, CameOn
  <2> QED
    BY <1>1, <1>5, <2>2
<1>7. /\ sources'.ids = IdsOf(given') /\ sources'.texts = TextsOf(given')
      /\ previous' # None => Remembers(previous')
  BY <1>1 DEF Determined, Running
<1> QED
  BY <1>1, <1>6, <1>7 DEF Determined, Searched

LEMMA DeterminedNoCopyHere == ASSUME Inv, Determined, NoCopyHere PROVE Determined'
<1>1. /\ pc = "search" /\ pc' = pc /\ given' = given /\ doc' = doc /\ sources' = sources /\ previous' = previous
      /\ ~Ended(doc, at) /\ ~IsLong(doc, sources.texts, at) /\ matches' = matches /\ at' = at + 1
  <2>1. BestRun = RunAt(doc, sources.texts, at)
    BY DEF BestRun, RunAt, Words
  <2>2. Searching /\ ~LongEnough
    BY DEF NoCopyHere
  <2>3. ~Ended(doc, at) /\ ~IsLong(doc, sources.texts, at)
    BY <2>1, <2>2 DEF Searching, LongEnough, Ended, IsLong, Words
  <2> QED
    BY <2>3 DEF NoCopyHere, Searching, found
<1>2. AreTexts(doc, sources.texts)
  BY <1>1, RunningTexts DEF Running
<1>3. CameTo(doc, sources.texts, Range(matches), at)
  BY <1>1 DEF Determined
<1>4. CameTo(doc', sources'.texts, Range(matches'), at')
  <2>1. Range(matches') = IF IsLong(doc, sources.texts, at)
                          THEN Range(matches) \cup {CopyFrom(doc, sources.texts, at)} ELSE Range(matches)
    BY <1>1
  <2>2. CameTo(doc, sources.texts, Range(matches'), Onward(doc, sources.texts, at))
    BY <1>1, <1>2, <1>3, <2>1, CameOn
  <2> QED
    BY <1>1, <2>2 DEF Onward
<1>5. /\ sources'.ids = IdsOf(given') /\ sources'.texts = TextsOf(given')
      /\ previous' # None => Remembers(previous')
  BY <1>1 DEF Determined, Running
<1> QED
  BY <1>1, <1>4, <1>5 DEF Determined, Searched

LEMMA DeterminedCompareSentences == ASSUME Inv, Determined, CompareSentences PROVE Determined'
<1> DEFINE texts == sources.texts
           all == SourceSentences(texts)
           own == OwnSentences(doc.text)
<1>1. /\ pc = "search" /\ ~Searching /\ pc' = "count" /\ given' = given /\ doc' = doc /\ sources' = sources
      /\ previous' = previous
  BY DEF CompareSentences
<1>2. AreTexts(doc, texts)
  BY <1>1, RunningTexts DEF Running
<1>3. CameTo(doc, texts, Range(matches), at) /\ Ended(doc, at)
  BY <1>1 DEF Determined, Searching, Ended, Words
<1>4. Range(matches) = AllCopies(doc, texts)
  BY <1>2, <1>3, CameToEnd
<1>5. CopiesOf(matches) = AllCopies(doc, texts)
  <2>1. \A m \in Range(matches) : m.type = "verbatim"
    BY <1>2, <1>4, CopyIn
  <2> QED
    BY <1>4, <2>1 DEF CopiesOf
<1>6. CopiesOf(matches') = AllCopies(doc, texts)
  BY <1>5, CompareAdds
<1>7. PICK ranked :
        Range(matches') = Range(matches) \cup (IF semantic' THEN Range(Compared(own, all, ranked)) ELSE {})
  BY CompareAdds
<1>8. ASSUME Len(all) <= MaxSentences PROVE Range(matches') = AllMatches(doc, texts, semantic')
  <2>1. Budget(doc.text, own, texts, all, ranked) = all
    BY <1>8, AllBudget
  <2>2. Compared(own, all, ranked) = Paraphrases(doc.text, own, texts, all, AllCopies(doc, texts))
    BY <1>4, <2>1 DEF Compared
  <2> QED
    BY <1>4, <1>7, <2>2 DEF AllMatches
<1>9. Complete(doc', sources'.texts, matches', semantic')
  BY <1>1, <1>6, <1>8 DEF Complete
<1>10. /\ sources'.ids = IdsOf(given') /\ sources'.texts = TextsOf(given')
       /\ previous' # None => Remembers(previous')
  BY <1>1 DEF Determined, Running
<1> QED
  BY <1>1, <1>9, <1>10 DEF Determined, Searched

\* The stages after it keep what was found, in an order of their own.
LEMMA DeterminedReading ==
  ASSUME Determined, Searched, pc' \in {"triage", "report", "done"}, given' = given, doc' = doc, sources' = sources,
         semantic' = semantic, previous' = previous, Range(matches') = Range(matches)
  PROVE  /\ sources'.ids = IdsOf(given') /\ sources'.texts = TextsOf(given')
         /\ Complete(doc', sources'.texts, matches', semantic')
         /\ previous' # None => Remembers(previous')
         /\ pc' # "search"
<1>1. Running
  BY DEF Searched, Running
<1>2. Complete(doc, sources.texts, matches, semantic) /\ CopiesOf(matches') = CopiesOf(matches)
  BY DEF Determined, CopiesOf
<1>3. Complete(doc', sources'.texts, matches', semantic')
  BY <1>2 DEF Complete
<1> QED
  BY <1>1, <1>3 DEF Determined

LEMMA DeterminedCount == ASSUME Inv, Determined, Count PROVE Determined'
<1>1. /\ pc = "count" /\ pc' = "triage" /\ given' = given /\ doc' = doc /\ sources' = sources
      /\ semantic' = semantic /\ previous' = previous /\ matches' = InOrder(matches)
  BY DEF Count
<1>2. AreMatches(matches, sources.texts)
  BY <1>1, RunningTexts DEF Running
<1>3. Range(matches') = Range(matches)
  BY <1>1, <1>2, InOrderIs DEF AreMatches, IsMatch
<1>4. Searched
  BY <1>1 DEF Searched
<1> QED
  BY <1>1, <1>3, <1>4, DeterminedReading DEF Determined

LEMMA DeterminedTriageMatches == ASSUME Inv, Determined, TriageMatches PROVE Determined'
<1>1. /\ pc = "triage" /\ pc' = "report" /\ given' = given /\ doc' = doc /\ sources' = sources
      /\ semantic' = semantic /\ previous' = previous /\ matches' = matches
  BY DEF TriageMatches
<1>2. Searched /\ Range(matches') = Range(matches)
  BY <1>1 DEF Searched
<1> QED
  BY <1>1, <1>2, DeterminedReading DEF Determined

LEMMA DeterminedFinish == ASSUME Inv, Determined, Finish PROVE Determined'
<1>1. /\ pc = "report" /\ pc' = "done" /\ given' = given /\ doc' = doc /\ sources' = sources
      /\ semantic' = semantic /\ previous' = previous /\ matches' = matches
      /\ comparison' = IF previous = None THEN None ELSE Comparison(previous.keys, KeysOf(matches))
  BY DEF Finish
<1>2. Searched /\ Range(matches') = Range(matches)
  BY <1>1 DEF Searched
<1>3. previous' # None => Compares'
  BY <1>1, KeysAre DEF Compares
<1> QED
  BY <1>1, <1>2, <1>3, DeterminedReading DEF Determined

LEMMA DeterminedRevise == ASSUME Inv, Determined, Revise PROVE Determined'
<1>1. /\ pc = "done" /\ pc' = "parse"
      /\ previous' = [keys |-> KeysOf(matches), matches |-> matches, semantic |-> semantic,
                      given |-> given, texts |-> sources.texts, ids |-> sources.ids, doc |-> doc]
  BY DEF Revise, Fresh
<1>2. Running /\ Searched
  BY <1>1 DEF Running, Searched
<1>3. /\ given \in Uploads /\ doc = Parsed(given.paper)
      /\ sources.ids = IdsOf(given) /\ sources.texts = TextsOf(given)
      /\ Complete(doc, sources.texts, matches, semantic)
  BY <1>2, RunningTexts DEF Determined
<1>4. /\ previous'.given = given /\ previous'.doc = doc /\ previous'.texts = sources.texts /\ previous'.ids = sources.ids
      /\ previous'.matches = matches /\ previous'.semantic = semantic
      /\ previous'.keys = KeysIn(matches, sources.texts, sources.ids)
  BY <1>1, KeysAre
<1>5. Remembers(previous')
  BY <1>3, <1>4 DEF Remembers
<1> QED
  BY <1>1, <1>5 DEF Determined, Running, Searched

LEMMA DeterminedNext == Inv /\ Determined /\ [Next]_vars => Determined'
<1> SUFFICES ASSUME Inv, Determined, [Next]_vars PROVE Determined'
  OBVIOUS
<1>1. CASE Parse
  BY <1>1, DeterminedParse
<1>2. CASE Reject
  BY <1>2 DEF Reject, Determined, Running, Searched
<1>3. CASE FoundCopy
  BY <1>3, DeterminedFoundCopy
<1>4. CASE NoCopyHere
  BY <1>4, DeterminedNoCopyHere
<1>5. CASE CompareSentences
  BY <1>5, DeterminedCompareSentences
<1>6. CASE Count
  BY <1>6, DeterminedCount
<1>7. CASE TriageMatches
  BY <1>7, DeterminedTriageMatches
<1>8. CASE Finish
  BY <1>8, DeterminedFinish
<1>9. CASE Revise
  BY <1>9, DeterminedRevise
<1>10. CASE UNCHANGED vars
  BY <1>10 DEF vars, Determined, Running, Searched, Compares
<1> QED
  BY <1>1, <1>2, <1>3, <1>4, <1>5, <1>6, <1>7, <1>8, <1>9, <1>10 DEF Next

LEMMA DeterminedHolds == Spec => []Determined
<1>1. Init => Determined
  BY DeterminedInit
<1>2. Inv /\ Determined /\ [Next]_vars => Determined'
  BY DeterminedNext
<1>3. Spec => []Inv
  BY InvHolds
<1> QED
  BY <1>1, <1>2, <1>3, PTL DEF Spec

\* Where the references are those of the check before, so is all that was read of them.
LEMMA SameReferences ==
  ASSUME Determined, Running, previous # None, given.references = previous.given.references
  PROVE  /\ previous.texts = sources.texts /\ IdsOf(previous.given) = sources.ids
         /\ previous.keys = KeysIn(previous.matches, previous.texts, sources.ids)
<1>1. IdsOf(previous.given) = IdsOf(given) /\ TextsOf(previous.given) = TextsOf(given)
  BY DEF IdsOf, TextsOf
<1> QED
  BY <1>1 DEF Determined, Remembers

\* Where words that a source holds stand in the manuscript, they are in copies.
LEMMA CopyStays ==
  ASSUME Inv, Searched, NEW s \in DOMAIN sources.texts, NEW words, NEW n \in Nat, n >= MinVerbatim, Len(words) = n,
         NEW i \in 1 .. Len(Norms(sources.texts[s])), Says(Norms(sources.texts[s]), words, i),
         NEW p \in 1 .. Len(Words) - n + 1, SubSeq(Words, p, p + n - 1) = words
  PROVE  Cardinality(Unreported(p, p + n - 1, Copies)) < MinVerbatim
<1> DEFINE norm == Norms(sources.texts[s])
           A == WordSet(doc, sources.texts)
           q == p + n - 1
           left == Unreported(p, q, Copies)
<1>1. AreTexts(doc, sources.texts)
  BY AllFound
<1>2. Words \in Seq(A) /\ norm \in Seq(A)
  BY <1>1, WordsAre DEF Words
<1>3. Len(Words) \in Nat /\ Len(norm) \in Nat
  BY <1>2, LenProperties
<1> HIDE DEF norm, A
<1>4. p \in 1 .. Len(Words) /\ p + n - 1 <= Len(Words) /\ p \in Nat /\ n >= 1 /\ MinVerbatim \in Nat \ {0}
  BY <1>3, MatcherAssumption
<1>5. i \in 1 .. Len(norm) /\ i + n - 1 <= Len(norm) /\ SubSeq(norm, i, i + n - 1) = SubSeq(Words, p, p + n - 1)
  BY DEF Says, norm
<1>6. Agree(Words, norm, p, i, n)
  BY <1>2, <1>4, <1>5, AgreeIsSame
<1>7. left \subseteq q - MinVerbatim + 2 .. q
  <2>1. OnlyLastLeft(p, p + n - 1)
    BY <1>4, <1>6, LastAreLeft DEF norm
  <2> QED
    BY <2>1 DEF OnlyLastLeft
<1> HIDE DEF left
<1>8. Cardinality(q - MinVerbatim + 2 .. q) = MinVerbatim - 1 /\ IsFiniteSet(q - MinVerbatim + 2 .. q)
  <2> DEFINE low == q - MinVerbatim + 2
  <2>1. low \in Int /\ q \in Int
    BY <1>4
  <2>2. MinVerbatim - 1 = IF low > q THEN 0 ELSE q - low + 1
    BY <1>4, <2>1
  <2> HIDE DEF q, low
  <2>3. Cardinality(low .. q) = (IF low > q THEN 0 ELSE q - low + 1) /\ IsFiniteSet(low .. q)
    BY <2>1, FS_Interval
  <2> QED
    BY <2>2, <2>3 DEF low
<1>9. IsFiniteSet(left) /\ Cardinality(left) <= MinVerbatim - 1 /\ Cardinality(left) \in Nat
  <2>1. IsFiniteSet(left) /\ Cardinality(left) <= Cardinality(q - MinVerbatim + 2 .. q)
    BY <1>7, <1>8, FS_Subset
  <2> QED
    BY <1>8, <2>1, FS_CardinalityType
<1>10. Cardinality(left) < MinVerbatim
  BY <1>4, <1>9
<1> QED
  BY <1>10 DEF left

\* A copy of a reference that has kept its text and its number is one flag, if both checks
\* report it, and is not resolved.
LEMMA CopyKept ==
  ASSUME Inv, Determined, Searched, NEW before, NEW numbers, NEW m, m.type = "verbatim", AtFirst(m, before),
         NEW s \in DOMAIN sources.texts, sources.texts[s] = before[m.source], sources.ids[s] = numbers[m.source],
         NEW n \in Copies, n.source = s,
         Norms(Slice(sources.texts[s], n.at)) = Norms(Slice(before[m.source], m.at))
  PROVE  Key(m, before, numbers) \in KeysIn(matches, sources.texts, sources.ids)
<1>1. AreTexts(doc, sources.texts)
  BY AllFound
<1>2. n \in AllCopies(doc, sources.texts) /\ n \in Range(matches)
  BY DEF Determined, Complete, CopiesOf, Copies
<1>3. n.type = "verbatim" /\ AtFirst(n, sources.texts)
  BY <1>1, <1>2, CopyIn
<1>4. n.at = m.at
  BY <1>1, <1>3, AtFirstIsOne DEF AreTexts
<1>5. Key(n, sources.texts, sources.ids) = Key(m, before, numbers)
  BY <1>3, <1>4 DEF Key
<1> QED
  BY <1>2, <1>5 DEF KeysIn

\* What is known of the check before.
LEMMA Remembered ==
  ASSUME Determined, previous # None
  PROVE  /\ AreTexts(previous.doc, previous.texts)
         /\ Complete(previous.doc, previous.texts, previous.matches, previous.semantic)
         /\ previous.keys = KeysIn(previous.matches, previous.texts, previous.ids)
<1>1. /\ previous.given \in Uploads /\ previous.doc = Parsed(previous.given.paper)
      /\ previous.texts = TextsOf(previous.given) /\ previous.ids = IdsOf(previous.given)
      /\ Complete(previous.doc, previous.texts, previous.matches, previous.semantic)
      /\ previous.keys = KeysIn(previous.matches, previous.texts, previous.ids)
  BY DEF Determined, Remembers
<1>2. Loaded(previous.doc, previous.texts, previous.given)
  BY <1>1, LoadedFirst DEF TextsOf, IdsOf
<1>3. AreTexts(previous.doc, previous.texts)
  BY <1>1, <1>2, LoadedIs
<1> QED
  BY <1>1, <1>3

\* The same uploads, read by the same encoder, give the same flags.
LEMMA SameUploads ==
  ASSUME Inv, Determined, pc = "done", previous # None, given = previous.given, semantic = previous.semantic, AllCompared
  PROVE  comparison.resolved = {} /\ comparison.new = {}
<1> DEFINE texts == sources.texts
           ids == sources.ids
<1>1. Running /\ Searched
  BY DEF Running, Searched
<1>2. previous.texts = texts /\ IdsOf(previous.given) = ids /\ previous.keys = KeysIn(previous.matches, texts, ids)
  BY <1>1, SameReferences
<1>3. comparison = Comparison(previous.keys, KeysIn(matches, texts, ids))
  BY DEF Determined, Compares
<1>4. /\ comparison.resolved = KeysIn(previous.matches, texts, ids) \ KeysIn(matches, texts, ids)
      /\ comparison.new = KeysIn(matches, texts, ids) \ KeysIn(previous.matches, texts, ids)
  BY <1>2, <1>3 DEF Comparison
<1>5. doc = Parsed(given.paper) /\ Complete(doc, texts, matches, semantic)
  BY <1>1, RunningTexts DEF Determined
<1>6. previous.doc = Parsed(previous.given.paper) /\ Complete(previous.doc, texts, previous.matches, previous.semantic)
  BY <1>2 DEF Determined, Remembers
<1>7. Range(matches) = AllMatches(doc, texts, semantic) /\ Range(previous.matches) = AllMatches(doc, texts, semantic)
  BY <1>5, <1>6 DEF Complete, AllCompared
<1>8. KeysIn(matches, texts, ids) = KeysIn(previous.matches, texts, ids)
  BY <1>7 DEF KeysIn
<1> QED
  BY <1>4, <1>8

\* A copy from a reference that has kept its text and its number, and whose words stand, is
\* resolved only if other copies take them in.
LEMMA TakenIn ==
  ASSUME Inv, Determined, pc = "done", previous # None,
         NEW m \in Range(previous.matches), NEW s \in DOMAIN sources.texts, m.type = "verbatim",
         Key(m, previous.texts, previous.ids) \in comparison.resolved,
         sources.ids[s] = previous.ids[m.source], sources.texts[s] = previous.texts[m.source],
         NEW words, words = Norms(Slice(previous.doc.text, m.span)),
         NEW p \in 1 .. Len(Words) - Len(words) + 1, SubSeq(Words, p, p + Len(words) - 1) = words
  PROVE  /\ Cardinality(Unreported(p, p + Len(words) - 1, Copies)) < MinVerbatim
         /\ \A n \in Copies : n.source = s => Norms(Slice(sources.texts[s], n.at)) # words
<1> DEFINE before == previous.texts
           old == previous.doc
<1>1. /\ AreTexts(old, before) /\ Complete(old, before, previous.matches, previous.semantic)
      /\ previous.keys = KeysIn(previous.matches, before, previous.ids)
  BY Remembered
<1>2. m \in AllCopies(old, before)
  BY <1>1 DEF Complete, CopiesOf
<1>3. AtFirst(m, before)
  BY <1>1, <1>2, CopyIn
<1>4. PICK a, b : CopyAt(m, a, b, old, before)
  BY <1>1, <1>2, CopyIn
<1>5. /\ words = SubSeq(Norms(old.text), a, b) /\ Norms(Slice(before[m.source], m.at)) = words
      /\ b - a + 1 >= MinVerbatim
  BY <1>4 DEF CopyAt
<1>6. Len(words) = b - a + 1 /\ Len(words) \in Nat /\ Len(words) >= MinVerbatim
  <2> DEFINE A == WordSet(old, before)
  <2>1. a \in Nat /\ b \in Nat /\ 1 <= a /\ a <= b /\ b <= Len(Norms(old.text))
    BY <1>1, <1>4, HeldWords, WordNumbers DEF AreTexts
  <2>2. Norms(old.text) \in Seq(A)
    BY <1>1, WordsAre
  <2> HIDE DEF A, old
  <2>3. Len(SubSeq(Norms(old.text), a, b)) = b - a + 1
    BY <2>1, <2>2, SubSeqProperties
  <2> QED
    BY <1>5, <2>1, <2>3
<1>7. PICK i \in 1 .. Len(Norms(before[m.source])) : Says(Norms(before[m.source]), words, i)
  BY <1>3, <1>5 DEF AtFirst
<1>8. Searched
  BY DEF Searched
<1>9. Cardinality(Unreported(p, p + Len(words) - 1, Copies)) < MinVerbatim
  <2>1. i \in 1 .. Len(Norms(sources.texts[s])) /\ Says(Norms(sources.texts[s]), words, i)
    BY <1>7
  <2> QED
    BY <1>6, <1>8, <2>1, CopyStays
<1>10. Key(m, before, previous.ids) \notin KeysIn(matches, sources.texts, sources.ids)
  BY DEF Determined, Compares, Comparison
<1>11. ASSUME NEW n \in Copies, n.source = s, Norms(Slice(sources.texts[s], n.at)) = words PROVE FALSE
  <2>1. sources.texts[s] = before[m.source] /\ Norms(Slice(sources.texts[s], n.at)) = Norms(Slice(before[m.source], m.at))
    BY <1>5, <1>11
  <2> HIDE DEF before
  <2> QED
    BY <1>3, <1>8, <1>10, <1>11, <2>1, CopyKept
<1> QED
  BY <1>9, <1>11

LEMMA ResolvedIsForCause == Inv /\ Determined => ResolvedForCause
<1> SUFFICES ASSUME Inv, Determined, pc = "done", previous # None PROVE ResolvedForCause
  BY DEF ResolvedForCause
<1>1. given = previous.given /\ semantic = previous.semantic /\ AllCompared =>
        comparison.resolved = {} /\ comparison.new = {}
  BY SameUploads
<1> DEFINE words(m) == Norms(Slice(previous.doc.text, m.span))
<1>2. ASSUME NEW m \in Range(previous.matches), NEW s \in DOMAIN sources.texts, m.type = "verbatim",
             Key(m, previous.texts, previous.ids) \in comparison.resolved,
             sources.ids[s] = previous.ids[m.source], sources.texts[s] = previous.texts[m.source],
             NEW p \in 1 .. Len(Words) - Len(words(m)) + 1, SubSeq(Words, p, p + Len(words(m)) - 1) = words(m)
      PROVE  /\ Cardinality(Unreported(p, p + Len(words(m)) - 1, Copies)) < MinVerbatim
             /\ \A n \in Copies : n.source = s => Norms(Slice(sources.texts[s], n.at)) # words(m)
  <2> DEFINE W == words(m)
  <2>1. W = Norms(Slice(previous.doc.text, m.span)) /\ p \in 1 .. Len(Words) - Len(W) + 1
        /\ SubSeq(Words, p, p + Len(W) - 1) = W
    BY <1>2
  <2> HIDE DEF W
  <2> QED
    BY <1>2, <2>1, TakenIn DEF W
<1> QED
  BY <1>1, <1>2 DEF ResolvedForCause

\* report.py:15-18 and 151-152: what a resolved flag is worth.  A manuscript that is checked
\* twice with the same uploads has nothing resolved and nothing new, if the encoder did the
\* same both times and left no source sentence out.  And whatever else was changed, a copy from
\* a reference that has kept its text and its number is resolved only where its words are gone,
\* or are now in other copies, all but too few to report, none of them a copy of just these
\* words.  Moving a passage resolves it, therefore, where another copy takes its words in.
THEOREM ResolvedOnlyForCause == Spec => []ResolvedForCause
  BY InvHolds, DeterminedHolds, ResolvedIsForCause, PTL

=============================================================================
