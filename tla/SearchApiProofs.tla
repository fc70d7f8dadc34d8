-------------------------- MODULE SearchApiProofs ---------------------------
(***************************************************************************)
(* What the operators of Requests, Ranking and SearchApi compute, for      *)
(* texts and lists of any length, and what follows for a search: its       *)
(* invariant is kept by every step, and implies the properties that a run  *)
(* of Exchange checks.  The recursive functions in the operators are       *)
(* unfolded with the principles of Induction.                              *)
(***************************************************************************)
EXTENDS SearchApi, Induction, SequenceTheorems, FiniteSetTheorems, TLAPS

-----------------------------------------------------------------------------
(* Kept goes through the lines once.                                       *)
KeptStep(lines, S, n, kept) ==
    IF lines[n] \in S THEN Append(kept, lines[n]) ELSE kept

KeptRun(f, D, lines, S) ==
    /\ f \in [0 .. Len(lines) -> Seq(D)]
    /\ f[0] = <<>>
    /\ \A n \in 1 .. Len(lines) : f[n] = KeptStep(lines, S, n, f[n - 1])
    /\ Kept(lines, S) = f[Len(lines)]

(* SelectSeq's recursive function, one line at a time.                     *)
LEMMA KeptSteps ==
    ASSUME NEW D, NEW lines \in Seq(D), NEW S
    PROVE  \E f : KeptRun(f, D, lines, S)
<1> DEFINE m == Len(lines)
           V == Seq(D)
           K(h) == h = [n \in 0 .. m |->
                         IF n = 0 THEN <<>> ELSE KeptStep(lines, S, n, h[n - 1])]
           k == CHOOSE h : K(h)
           g == [n \in 1 .. m |-> [v \in V |-> KeptStep(lines, S, n, v)]]
           b == <<>>
<1>1. m \in Nat /\ b \in V
  OBVIOUS
<1>2. \A n \in 1 .. m, v \in V : KeptStep(lines, S, n, v) \in V
  BY DEF KeptStep
<1>3. Kept(lines, S) = k[m]
  BY Zenon DEF Kept, KeptStep
<1> HIDE DEF m, V
<1>4. g \in StepsOn(m, V)
  BY <1>2 DEF StepsOn
<1>5. \A n \in 1 .. m, v \in V : g[n][v] = KeptStep(lines, S, n, v)
  OBVIOUS
<1>6. PICK f : Follows(f, m, V, b, g)
  <2> HIDE DEF g, b
  <2> QED  BY <1>1, <1>4, StepsFollow
<1>6a. f \in [0 .. m -> V] /\ f[0] = b /\ \A n \in 1 .. m : f[n] = g[n][f[n - 1]]
  <2> HIDE DEF g, b
  <2> QED  BY <1>6 DEF Follows
<1> HIDE DEF g
<1>7. \A n \in 1 .. m : n - 1 \in 0 .. m /\ n # 0 /\ n \in 0 .. m
  BY <1>1
<1>8. \A n \in 1 .. m : f[n] = KeptStep(lines, S, n, f[n - 1])
  BY <1>5, <1>6a, <1>7
<1>9. K(f)
  <2>1. \A n \in 0 .. m : n = 0 \/ n \in 1 .. m
    BY <1>1
  <2>2. f = [n \in 0 .. m |-> f[n]]
    BY <1>6a
  <2> QED  BY <1>6a, <1>8, <2>1, <2>2
<1>10. K(k)
  <2> HIDE DEF K
  <2> QED BY <1>9
<1>11. k[0] = b /\ \A n \in 1 .. m : k[n] = KeptStep(lines, S, n, k[n - 1])
  <2> HIDE DEF k
  <2>1. 0 \in 0 .. m
    BY <1>1
  <2> QED  BY <1>10, <1>7, <2>1
<1>12. \A n \in 0 .. m : k[n] \in V
  <2>1. \A n \in 1 .. m : k[n - 1] \in V => k[n] \in V
    BY <1>2, <1>11
  <2> HIDE DEF k, b
  <2> QED  BY <1>1, <1>11, <2>1, StaysIn
<1>13. k = [n \in 0 .. m |-> k[n]]
  BY <1>10
<1>14. k \in [0 .. m -> V]
  BY <1>12, <1>13
<1> HIDE DEF k
<1> QED BY <1>14, <1>11, <1>3 DEF m, V, KeptRun

(* What it keeps of lines of which exactly the first k are in S.           *)
LEMMA KeptIsPrefix ==
    ASSUME NEW D, NEW lines \in Seq(D), NEW S, NEW k \in 0 .. Len(lines),
           \A i \in 1 .. Len(lines) : lines[i] \in S <=> i <= k
    PROVE  Kept(lines, S) = SubSeq(lines, 1, k)
<1> DEFINE m == Len(lines)
<1>0. PICK f : KeptRun(f, D, lines, S)
  BY KeptSteps
<1>1. /\ f \in [0 .. m -> Seq(D)]
      /\ f[0] = <<>>
      /\ \A n \in 1 .. m : f[n] = KeptStep(lines, S, n, f[n - 1])
      /\ Kept(lines, S) = f[m]
  BY <1>0 DEF KeptRun
<1> DEFINE P(n) == f[n] = SubSeq(lines, 1, IF n <= k THEN n ELSE k)
           T == {n \in 0 .. m : P(n)}
<1>2. 0 \in T
  <2>1. 0 \in 0 .. m /\ 0 <= k
    OBVIOUS
  <2>2. SubSeq(lines, 1, 0) = <<>>
    OBVIOUS
  <2> QED  BY <1>1, <2>1, <2>2
<1>3. ASSUME NEW n \in 0 .. m, n \in T, n < m PROVE n + 1 \in T
  <2>1. n + 1 \in 1 .. m /\ n + 1 \in 0 .. m /\ (n + 1) - 1 = n
    BY <1>3
  <2>2. f[n + 1] = KeptStep(lines, S, n + 1, f[n])
    BY <1>1, <2>1
  <2>3. CASE n + 1 <= k
    <3>1. f[n + 1] = Append(SubSeq(lines, 1, n), lines[n + 1])
      BY <2>1, <2>2, <2>3, <1>3 DEF KeptStep
    <3>2. Append(SubSeq(lines, 1, n), lines[n + 1]) = SubSeq(lines, 1, n + 1)
      BY <2>1
    <3> QED  BY <2>1, <2>3, <3>1, <3>2
  <2>4. CASE ~(n + 1 <= k)
    <3>1. f[n + 1] = f[n]
      BY <2>1, <2>2, <2>4 DEF KeptStep
    <3>2. f[n] = SubSeq(lines, 1, k)
      BY <2>4, <1>3
    <3> QED  BY <2>1, <2>4, <3>1, <3>2
  <2> QED  BY <2>3, <2>4
<1>4. \A n \in 0 .. m : n \in T
  <2>1. m \in Nat
    OBVIOUS
  <2> HIDE DEF T, m
  <2> QED  BY <1>2, <1>3, <2>1, BoundedInduction
<1>5. P(m)
  BY <1>4
<1>6. (IF m <= k THEN m ELSE k) = k
  OBVIOUS
<1> QED  BY <1>1, <1>5, <1>6

-----------------------------------------------------------------------------
(* SetToSeqs gives the ways to list a finite set.                          *)
Lists(l, S) == l \in Seq(S) /\ Len(l) = Cardinality(S) /\ IsInjective(l) /\ Range(l) = S

(* Every such list names every element once.                               *)
LEMMA SeqsOfSet ==
    ASSUME NEW S, IsFiniteSet(S), NEW l \in SetToSeqs(S)
    PROVE  Lists(l, S)
<1> DEFINE D == 1 .. Cardinality(S)
<1>1. Cardinality(S) \in Nat
  BY FS_CardinalityType
<1>2. l \in [D -> S] /\ \A i, j \in D : i # j => l[i] # l[j]
  BY DEF SetToSeqs
<1>3. IsFiniteSet(D) /\ Cardinality(D) = Cardinality(S)
  BY <1>1, FS_Interval
<1>4. IsInjective(l) /\ l \in Injection(D, S)
  BY <1>2 DEF IsInjective, Injection
<1>5. l \in Surjection(D, S)
  BY <1>3, <1>4, FS_Injection
<1>6. Range(l) = S
  BY <1>2, <1>5 DEF Surjection, Range
<1>7. l \in Seq(S) /\ Len(l) = Cardinality(S)
  BY <1>1, <1>2
<1> QED  BY <1>4, <1>6, <1>7 DEF Lists

(* A list without repetitions is no longer than there are documents.       *)
LEMMA InjectiveIsShort ==
    ASSUME NEW l \in Seq(Docs), IsInjective(l)
    PROVE  Len(l) <= Cardinality(Docs) /\ Cardinality(Docs) \in Nat
<1>1. IsFiniteSet(Docs) /\ Cardinality(Docs) \in Nat
  BY RankingAssumption, FS_CardinalityType
<1>2. l \in Injection(1 .. Len(l), Docs) /\ Len(l) \in Nat
  <2>1. l \in [1 .. Len(l) -> Docs] /\ Len(l) \in Nat
    BY LenProperties
  <2>2. \A i, j \in 1 .. Len(l) : l[i] = l[j] => i = j
    BY <2>1 DEF IsInjective
  <2> QED  BY <2>1, <2>2, Zenon DEF Injection
<1>3. Cardinality(1 .. Len(l)) = Len(l)
  <2>1. ASSUME NEW n \in Nat PROVE Cardinality(1 .. n) = n
    <3>1. Cardinality(1 .. n) = IF 1 > n THEN 0 ELSE n - 1 + 1
      BY FS_Interval
    <3> QED  BY <3>1
  <2> QED  BY <1>2, <2>1
<1>4. Cardinality(1 .. Len(l)) <= Cardinality(Docs)
  BY <1>1, <1>2, FS_Injection
<1> QED  BY <1>1, <1>3, <1>4

(* The lists that Rankings(score) holds, and which of two documents comes  *)
(* first there.                                                            *)
LEMMA RankingsAreSorted ==
    ASSUME NEW score, DOMAIN score \subseteq Docs, NEW l \in Rankings(score)
    PROVE  /\ Lists(l, DOMAIN score)
           /\ \A i, j \in 1 .. Len(l) : i < j => score[l[i]] >= score[l[j]]
<1>1. IsFiniteSet(DOMAIN score)
  BY RankingAssumption, FS_Subset
<1>2. l \in SetToSeqs(DOMAIN score)
      /\ \A i, j \in DOMAIN l : i < j => score[l[i]] >= score[l[j]]
  BY DEF Rankings
<1>3. Lists(l, DOMAIN score)
  BY <1>1, <1>2, SeqsOfSet
<1>4. DOMAIN l = 1 .. Len(l)
  BY <1>3 DEF Lists
<1> QED  BY <1>2, <1>3, <1>4

(* A document that scores higher stands before one that scores lower.      *)
LEMMA HigherComesFirst ==
    ASSUME NEW score, DOMAIN score \subseteq Docs, NEW l \in Rankings(score),
           \A d \in DOMAIN score : score[d] \in Int,
           NEW d \in DOMAIN score, NEW e \in DOMAIN score, score[d] > score[e]
    PROVE  Before(l, d, e)
<1>1. /\ l \in Seq(DOMAIN score) /\ Range(l) = DOMAIN score
      /\ \A i, j \in 1 .. Len(l) : i < j => score[l[i]] >= score[l[j]]
  BY RankingsAreSorted DEF Lists
<1>2. PICK i \in 1 .. Len(l) : l[i] = d
  BY <1>1 DEF Range
<1>3. PICK j \in 1 .. Len(l) : l[j] = e
  BY <1>1 DEF Range
<1>4. i # j /\ ~(j < i)
  BY <1>1, <1>2, <1>3
<1>5. i < j
  BY <1>4
<1> QED  BY <1>1, <1>2, <1>3, <1>5 DEF Before

-----------------------------------------------------------------------------
(* What the i-th place of a list is worth.                                 *)
Weight(i) == Scale \div (60 + i)

(* Scale is chosen so that no share is rounded.                            *)
LEMMA WeightDivides ==
    ASSUME NEW i \in 1 .. Cardinality(Docs) + 1
    PROVE  Weight(i) \in Nat \ {0} /\ Weight(i) * (60 + i) = Scale
<1>1. Scale \in Nat \ {0} /\ Scale % (60 + i) = 0
  BY RankingAssumption
<1>2. i \in Nat \ {0}
  BY FS_CardinalityType, RankingAssumption
<1> DEFINE k == 60 + i
<1>3. k \in Nat \ {0} /\ Scale % k = 0
  BY <1>1, <1>2
<1> HIDE DEF k
<1>4. Scale \div k \in Nat /\ (Scale \div k) * k = Scale
  BY <1>1, <1>3
<1>5. Scale \div k # 0
  BY <1>1, <1>3, <1>4
<1> QED  BY <1>4, <1>5 DEF k, Weight

(* An earlier place is worth more.                                         *)
LEMMA WeightsFall ==
    ASSUME NEW i \in 1 .. Cardinality(Docs) + 1, NEW j \in 1 .. Cardinality(Docs) + 1, i < j
    PROVE  Weight(i) > Weight(j)
<1> DEFINE p == Weight(i)
           q == Weight(j)
<1>1. p \in Nat \ {0} /\ q \in Nat \ {0} /\ p * (60 + i) = q * (60 + j)
  BY WeightDivides
<1>2. i \in Nat /\ j \in Nat
  BY FS_CardinalityType, RankingAssumption
<1> HIDE DEF p, q
<1>3. ASSUME p <= q PROVE FALSE
  <2>1. p * (60 + i) <= q * (60 + i)
    BY <1>1, <1>2, <1>3
  <2>2. q * (60 + i) < q * (60 + j)
    BY <1>1, <1>2
  <2> QED  BY <1>1, <1>2, <2>1, <2>2
<1> QED  BY <1>1, <1>3 DEF p, q

(* Two places among the first 61 are worth more than the first alone.      *)
LEMMA TwoPlacesWin ==
    ASSUME Cardinality(Docs) <= 61,
           NEW i \in 1 .. Cardinality(Docs), NEW j \in 1 .. Cardinality(Docs),
           NEW k \in 1 .. Cardinality(Docs) + 1
    PROVE  Weight(i) + Weight(j) > Weight(k)
<1>1. Cardinality(Docs) \in Nat
  BY RankingAssumption, FS_CardinalityType
<1> DEFINE p == Weight(i)
           q == Weight(j)
           r == Weight(k)
<1>2. /\ p \in Nat \ {0} /\ q \in Nat \ {0} /\ r \in Nat \ {0}
      /\ p * (60 + i) = Scale /\ q * (60 + j) = Scale /\ r * (60 + k) = Scale
  <2>1. i \in 1 .. Cardinality(Docs) + 1 /\ j \in 1 .. Cardinality(Docs) + 1
    BY <1>1
  <2> QED  BY <2>1, WeightDivides
<1>3. i \in 1 .. 61 /\ j \in 1 .. 61 /\ k \in Nat \ {0} /\ Scale \in Nat
  BY <1>1, RankingAssumption
<1> HIDE DEF p, q, r
<1>4. p * 121 >= Scale /\ q * 121 >= Scale /\ r * 61 <= Scale
  <2>1. \A x \in Nat : \A y \in 1 .. 61 : x * (60 + y) <= x * 121
    OBVIOUS
  <2>2. \A x \in Nat : \A y \in Nat \ {0} : x * 61 <= x * (60 + y)
    OBVIOUS
  <2>3. p * (60 + i) <= p * 121 /\ q * (60 + j) <= q * 121 /\ r * 61 <= r * (60 + k)
    BY <1>2, <1>3, <2>1, <2>2
  <2> QED  BY <1>2, <2>3
<1>5. p + q > r
  BY <1>2, <1>3, <1>4
<1> QED  BY <1>5 DEF p, q, r

(* Share adds up the places that a document has in a list.                 *)
ShareStep(list, d, n, score) ==
    score + (IF list[n] = d THEN Scale \div (60 + n) ELSE 0)

ShareRun(f, list, d) ==
    /\ f \in [0 .. Len(list) -> Nat]
    /\ f[0] = 0
    /\ \A n \in 1 .. Len(list) : f[n] = ShareStep(list, d, n, f[n - 1])
    /\ Share(list, d) = f[Len(list)]

(* The recursive function of Share, one place at a time.                   *)
LEMMA ShareSteps ==
    ASSUME NEW D, NEW list \in Seq(D), NEW d
    PROVE  \E f : ShareRun(f, list, d)
<1> DEFINE m == Len(list)
           V == Nat
           b == 0
           K(h) == h = [n \in 0 .. m |->
                         IF n = 0 THEN 0 ELSE ShareStep(list, d, n, h[n - 1])]
           k == CHOOSE h : K(h)
           g == [n \in 1 .. m |-> [v \in V |-> ShareStep(list, d, n, v)]]
<1>1. m \in Nat /\ b \in V
  OBVIOUS
<1>2. \A n \in 1 .. m, v \in V : ShareStep(list, d, n, v) \in V
  <2>1. \A x \in Nat : \A n \in Nat : x \div (60 + n) \in Nat
    OBVIOUS
  <2>2. \A n \in 1 .. m : n \in Nat
    BY <1>1
  <2>3. \A n \in 1 .. m : Scale \div (60 + n) \in Nat
    <3> HIDE DEF m
    <3> QED  BY <2>1, <2>2, RankingAssumption
  <2> QED  BY <2>3 DEF ShareStep
<1>3. Share(list, d) = k[m]
  BY Zenon DEF Share, ShareStep
<1> HIDE DEF m, V
<1>4. g \in StepsOn(m, V)
  BY <1>2 DEF StepsOn
<1>5. \A n \in 1 .. m, v \in V : g[n][v] = ShareStep(list, d, n, v)
  OBVIOUS
<1>6. PICK f : Follows(f, m, V, b, g)
  <2> HIDE DEF g, b
  <2> QED  BY <1>1, <1>4, StepsFollow
<1>6a. f \in [0 .. m -> V] /\ f[0] = b /\ \A n \in 1 .. m : f[n] = g[n][f[n - 1]]
  <2> HIDE DEF g, b
  <2> QED  BY <1>6 DEF Follows
<1> HIDE DEF g
<1>7. \A n \in 1 .. m : n - 1 \in 0 .. m /\ n # 0 /\ n \in 0 .. m
  BY <1>1
<1>8. \A n \in 1 .. m : f[n] = ShareStep(list, d, n, f[n - 1])
  BY <1>5, <1>6a, <1>7
<1>9. K(f)
  <2>1. \A n \in 0 .. m : n = 0 \/ n \in 1 .. m
    BY <1>1
  <2>2. f = [n \in 0 .. m |-> f[n]]
    BY <1>6a
  <2> QED  BY <1>6a, <1>8, <2>1, <2>2
<1>10. K(k)
  <2> HIDE DEF K
  <2> QED BY <1>9
<1>11. k[0] = b /\ \A n \in 1 .. m : k[n] = ShareStep(list, d, n, k[n - 1])
  <2> HIDE DEF k
  <2>1. 0 \in 0 .. m
    BY <1>1
  <2> QED  BY <1>10, <1>7, <2>1
<1>12. \A n \in 0 .. m : k[n] \in V
  <2>1. \A n \in 1 .. m : k[n - 1] \in V => k[n] \in V
    BY <1>2, <1>11
  <2> HIDE DEF k, b
  <2> QED  BY <1>1, <1>11, <2>1, StaysIn
<1>13. k = [n \in 0 .. m |-> k[n]]
  BY <1>10
<1>14. k \in [0 .. m -> V]
  BY <1>12, <1>13
<1> HIDE DEF k
<1> QED BY <1>14, <1>11, <1>3 DEF m, V, ShareRun

(* A document that the list has not gets nothing, one that it has once the *)
(* worth of its place.                                                     *)
LEMMA ShareIsNat ==
    ASSUME NEW D, NEW list \in Seq(D), NEW d PROVE Share(list, d) \in Nat
<1>1. PICK f : ShareRun(f, list, d)
  BY ShareSteps
<1> QED  BY <1>1 DEF ShareRun

(* A document that is named once is worth its place.                       *)
LEMMA ShareOfPlace ==
    ASSUME NEW D, NEW list \in Seq(D), NEW d, NEW p \in 1 .. Len(list) + 1,
           \A i \in 1 .. Len(list) : list[i] = d <=> i = p
    PROVE  Share(list, d) = IF p <= Len(list) THEN Weight(p) ELSE 0
<1> DEFINE m == Len(list)
<1>0. PICK f : ShareRun(f, list, d)
  BY ShareSteps
<1>1. /\ f \in [0 .. m -> Nat] /\ f[0] = 0
      /\ \A n \in 1 .. m : f[n] = ShareStep(list, d, n, f[n - 1])
      /\ Share(list, d) = f[m]
  BY <1>0 DEF ShareRun
<1>2. m \in Nat /\ p \in 1 .. m + 1 /\ \A i \in 1 .. m : list[i] = d <=> i = p
  OBVIOUS
<1> HIDE DEF m
<1> DEFINE T == {n \in 0 .. m : f[n] = IF p <= n THEN Weight(p) ELSE 0}
<1>3. 0 \in T
  BY <1>1, <1>2
<1>4. ASSUME NEW n \in 0 .. m, n \in T, n < m PROVE n + 1 \in T
  <2>1. n + 1 \in 1 .. m /\ n + 1 \in 0 .. m /\ (n + 1) - 1 = n
    BY <1>2, <1>4
  <2>2. f[n + 1] = ShareStep(list, d, n + 1, f[n]) /\ f[n] \in Nat
    BY <1>1, <2>1
  <2>3. CASE n + 1 = p
    <3>1. f[n] = 0 /\ list[n + 1] = d
      BY <1>2, <1>4, <2>1, <2>3
    <3>2. f[n + 1] = 0 + Weight(p)
      BY <2>2, <2>3, <3>1 DEF ShareStep, Weight
    <3>3. Weight(p) \in Int
      BY <1>2, RankingAssumption DEF Weight
    <3> QED  BY <2>1, <2>3, <3>2, <3>3
  <2>4. CASE n + 1 # p
    <3>1. list[n + 1] # d /\ (p <= n + 1 <=> p <= n)
      BY <1>2, <2>1, <2>4
    <3>2. f[n + 1] = f[n]
      BY <2>2, <3>1 DEF ShareStep
    <3> QED  BY <1>4, <2>1, <3>1, <3>2
  <2> QED  BY <2>3, <2>4
<1>5. \A n \in 0 .. m : n \in T
  <2> HIDE DEF T
  <2> QED  BY <1>2, <1>3, <1>4, BoundedInduction
<1>6. m \in T
  BY <1>2, <1>5
<1> QED  BY <1>1, <1>6 DEF m

(* One that is not named is worth nothing.                                 *)
LEMMA ShareOfAbsent ==
    ASSUME NEW D, NEW list \in Seq(D), NEW d, d \notin Range(list)
    PROVE  Share(list, d) = 0
<1>1. Len(list) + 1 \in 1 .. Len(list) + 1
  OBVIOUS
<1>2. \A i \in 1 .. Len(list) : list[i] = d <=> i = Len(list) + 1
  BY DEF Range
<1>3. ~(Len(list) + 1 <= Len(list))
  OBVIOUS
<1> QED  BY <1>1, <1>2, <1>3, ShareOfPlace

(* The same, in a list without repetitions.                                *)
LEMMA ShareOfInjective ==
    ASSUME NEW D, NEW list \in Seq(D), IsInjective(list), NEW i \in 1 .. Len(list)
    PROVE  Share(list, list[i]) = Weight(i)
<1>1. i \in 1 .. Len(list) + 1 /\ i <= Len(list)
  OBVIOUS
<1>2. \A j \in 1 .. Len(list) : list[j] = list[i] <=> j = i
  BY DEF IsInjective
<1> QED  BY <1>1, <1>2, ShareOfPlace

-----------------------------------------------------------------------------
(* What RrfMerge makes of the two lists.                                   *)
Score(b, s) == [d \in Range(b) \cup Range(s) |-> Share(b, d) + Share(s, d)]

Merged(b, s, l) ==
    /\ b \in Seq(Docs) /\ IsInjective(b)
    /\ s \in Seq(Docs) /\ l \in RrfMerge(b, s)

(* HybridMerge ranks what is in either list by the sum of its shares.      *)
LEMMA MergedIsRanking ==
    ASSUME NEW b, NEW s, NEW l, Merged(b, s, l)
    PROVE  /\ l \in Rankings(Score(b, s))
           /\ DOMAIN Score(b, s) = Range(b) \cup Range(s)
           /\ DOMAIN Score(b, s) \subseteq Docs
           /\ \A d \in DOMAIN Score(b, s) :
                Score(b, s)[d] = Share(b, d) + Share(s, d) /\ Score(b, s)[d] \in Int
<1>1. b \in Seq(Docs) /\ s \in Seq(Docs) /\ l \in Rankings(Score(b, s))
  BY DEF Merged, RrfMerge, Score
<1>2. Range(b) \subseteq Docs /\ Range(s) \subseteq Docs
  BY <1>1 DEF Range
<1>3. \A d : Share(b, d) \in Nat /\ Share(s, d) \in Nat
  BY <1>1, ShareIsNat
<1> QED  BY <1>1, <1>2, <1>3 DEF Score

(* The merged list holds each document of the two lists once.              *)
LEMMA MergeLists ==
    ASSUME NEW b, NEW s, NEW l, Merged(b, s, l)
    PROVE  l \in Seq(Docs) /\ IsInjective(l) /\ Range(l) = Range(b) \cup Range(s)
<1> DEFINE score == Score(b, s)
<1>1. /\ l \in Rankings(score) /\ DOMAIN score = Range(b) \cup Range(s)
      /\ DOMAIN score \subseteq Docs
  BY MergedIsRanking
<1> HIDE DEF score
<1>2. Lists(l, DOMAIN score)
  BY <1>1, RankingsAreSorted
<1>3. \A S, T : S \subseteq T => Seq(S) \subseteq Seq(T)
  OBVIOUS
<1> QED  BY <1>1, <1>2, <1>3 DEF Lists

(* The score of a document that both lists have once, and of one that only *)
(* one of them has.                                                        *)
LEMMA ScoreInBoth ==
    ASSUME NEW b \in Seq(Docs), IsInjective(b), NEW s \in Seq(Docs), IsInjective(s),
           NEW i \in 1 .. Len(b), NEW j \in 1 .. Len(s), b[i] = s[j]
    PROVE  Share(b, b[i]) + Share(s, b[i]) = Weight(i) + Weight(j)
BY ShareOfInjective

(* What is before another in both lists stays before it.                   *)
LEMMA MergeAgrees ==
    ASSUME NEW b, NEW s, NEW l, Merged(b, s, l), IsInjective(s),
           NEW d, NEW e, Before(b, d, e), Before(s, d, e)
    PROVE  Before(l, d, e)
<1>1. b \in Seq(Docs) /\ IsInjective(b) /\ s \in Seq(Docs)
  BY DEF Merged
<1>2. PICK i \in 1 .. Len(b), j \in 1 .. Len(b) : i < j /\ b[i] = d /\ b[j] = e
  BY <1>1 DEF Before
<1>3. PICK k \in 1 .. Len(s), n \in 1 .. Len(s) : k < n /\ s[k] = d /\ s[n] = e
  BY <1>1 DEF Before
<1>4. /\ Share(b, d) = Weight(i) /\ Share(s, d) = Weight(k)
      /\ Share(b, e) = Weight(j) /\ Share(s, e) = Weight(n)
  BY <1>1, <1>2, <1>3, ShareOfInjective
<1>5. \A x \in {i, j, k, n} : x \in 1 .. Cardinality(Docs) + 1
  <2>1. Len(b) <= Cardinality(Docs) /\ Len(s) <= Cardinality(Docs)
        /\ Cardinality(Docs) \in Nat
    BY <1>1, InjectiveIsShort
  <2> QED  BY <2>1
<1>6. Weight(i) > Weight(j) /\ Weight(k) > Weight(n)
  BY <1>2, <1>3, <1>5, WeightsFall
<1>7. \A x \in {i, j, k, n} : Weight(x) \in Nat
  BY <1>5, WeightDivides
<1>8. d \in Range(b) /\ e \in Range(b)
  BY <1>1, <1>2 DEF Range
<1>9. Score(b, s)[d] > Score(b, s)[e]
  <2>0. /\ Score(b, s)[d] = Share(b, d) + Share(s, d)
        /\ Score(b, s)[e] = Share(b, e) + Share(s, e)
    BY <1>8 DEF Score
  <2>1. Score(b, s)[d] = Weight(i) + Weight(k) /\ Score(b, s)[e] = Weight(j) + Weight(n)
    BY <1>4, <2>0
  <2>2. Weight(i) \in Nat /\ Weight(j) \in Nat /\ Weight(k) \in Nat /\ Weight(n) \in Nat
    BY <1>7
  <2>3. Weight(i) + Weight(k) > Weight(j) + Weight(n)
    BY <1>6, <2>2
  <2> QED  BY <2>1, <2>3
<1> QED  BY <1>8, <1>9, MergedIsRanking, HigherComesFirst

(* What is in both lists comes before what is in one.                      *)
LEMMA MergeTwice ==
    ASSUME Cardinality(Docs) <= 61,
           NEW b, NEW s, NEW l, Merged(b, s, l), IsInjective(s),
           NEW d \in Range(b) \cap Range(s),
           NEW e \in (Range(b) \cup Range(s)) \ (Range(b) \cap Range(s))
    PROVE  Before(l, d, e)
<1>1. b \in Seq(Docs) /\ IsInjective(b) /\ s \in Seq(Docs)
  BY DEF Merged
<1>2. Len(b) <= Cardinality(Docs) /\ Len(s) <= Cardinality(Docs)
      /\ Cardinality(Docs) \in Nat
  BY <1>1, InjectiveIsShort
<1>3. PICK i \in 1 .. Len(b) : b[i] = d
  BY <1>1 DEF Range
<1>4. PICK j \in 1 .. Len(s) : s[j] = d
  BY <1>1 DEF Range
<1>5. Share(b, d) = Weight(i) /\ Share(s, d) = Weight(j)
  BY <1>1, <1>3, <1>4, ShareOfInjective
<1>6. \E k \in 1 .. Cardinality(Docs) + 1 : Share(b, e) + Share(s, e) = Weight(k)
  <2>1. CASE e \in Range(b)
    <3>1. PICK k \in 1 .. Len(b) : b[k] = e
      BY <1>1, <2>1 DEF Range
    <3>2. Share(b, e) = Weight(k) /\ Share(s, e) = 0
      BY <1>1, <2>1, <3>1, ShareOfInjective, ShareOfAbsent
    <3>3. k \in 1 .. Cardinality(Docs) + 1
      BY <1>2
    <3>4. Weight(k) \in Nat
      BY <3>3, WeightDivides
    <3> QED  BY <3>2, <3>3, <3>4
  <2>2. CASE e \notin Range(b)
    <3>1. PICK k \in 1 .. Len(s) : s[k] = e
      BY <1>1, <2>2 DEF Range
    <3>2. Share(s, e) = Weight(k) /\ Share(b, e) = 0
      BY <1>1, <2>2, <3>1, ShareOfInjective, ShareOfAbsent
    <3>3. k \in 1 .. Cardinality(Docs) + 1
      BY <1>2
    <3>4. Weight(k) \in Nat
      BY <3>3, WeightDivides
    <3> QED  BY <3>2, <3>3, <3>4
  <2> QED  BY <2>1, <2>2
<1>7. i \in 1 .. Cardinality(Docs) /\ j \in 1 .. Cardinality(Docs)
  BY <1>2
<1>8. Score(b, s)[d] > Score(b, s)[e]
  <2>1. PICK k \in 1 .. Cardinality(Docs) + 1 : Share(b, e) + Share(s, e) = Weight(k)
    BY <1>6
  <2>2. Weight(i) + Weight(j) > Weight(k)
    BY <1>7, TwoPlacesWin
  <2>3. Score(b, s)[d] = Weight(i) + Weight(j) /\ Score(b, s)[e] = Weight(k)
    <3>1. \A x \in Range(b) \cup Range(s) : Score(b, s)[x] = Share(b, x) + Share(s, x)
      BY Zenon DEF Score
    <3> QED  BY <1>5, <2>1, <3>1
  <2> QED  BY <2>2, <2>3
<1> QED  BY <1>8, MergedIsRanking, HigherComesFirst

(* With nothing to merge with, a list stays as it is.                      *)
LEMMA MergeAlone ==
    ASSUME NEW b, NEW l, Merged(b, <<>>, l)
    PROVE  l = b
<1>1. b \in Seq(Docs) /\ IsInjective(b) /\ <<>> \in Seq(Docs) /\ Range(<<>>) = {}
  BY DEF Merged, Range
<1>2. \A d : Share(<<>>, d) = 0
  BY <1>1, ShareOfAbsent
<1> DEFINE score == Score(b, <<>>)
           n == Len(b)
<1>3. n \in Nat /\ n <= Cardinality(Docs) /\ Cardinality(Docs) \in Nat
  BY <1>1, InjectiveIsShort
<1>4. \A i \in 1 .. n : Weight(i) \in Nat /\ score[b[i]] = Weight(i)
  <2>1. \A i \in 1 .. n : i \in 1 .. Cardinality(Docs) + 1
    BY <1>3
  <2>2. \A i \in 1 .. n : Weight(i) \in Nat
    BY <2>1, WeightDivides
  <2>3. \A i \in 1 .. n : Share(b, b[i]) = Weight(i) /\ b[i] \in Range(b)
    BY <1>1, ShareOfInjective DEF Range
  <2>4. \A d \in Range(b) : score[d] = Share(b, d) + Share(<<>>, d)
    BY <1>1 DEF Score
  <2> QED  BY <1>2, <2>2, <2>3, <2>4
<1>5. \A i, j \in 1 .. n : i < j => score[b[i]] > score[b[j]]
  <2>1. \A i \in 1 .. n : i \in 1 .. Cardinality(Docs) + 1
    BY <1>3
  <2>2. ASSUME NEW i \in 1 .. n, NEW j \in 1 .. n, i < j
        PROVE  Weight(i) > Weight(j)
    BY <2>1, <2>2, WeightsFall
  <2> HIDE DEF n, score
  <2> QED  BY <1>4, <2>2
<1>6. /\ l \in Seq(Range(b)) /\ IsInjective(l) /\ Range(l) = Range(b)
      /\ Len(l) = Cardinality(Range(b))
      /\ \A i, j \in 1 .. Len(l) : i < j => score[l[i]] >= score[l[j]]
  <2>1. DOMAIN score = Range(b) /\ DOMAIN score \subseteq Docs /\ l \in Rankings(score)
    <3>1. /\ l \in Rankings(score) /\ DOMAIN score = Range(b) \cup Range(<<>>)
          /\ DOMAIN score \subseteq Docs
      BY MergedIsRanking, Zenon
    <3> HIDE DEF score
    <3> QED  BY <1>1, <3>1
  <2> HIDE DEF score
  <2> QED  BY <2>1, RankingsAreSorted DEF Lists
<1>7. Len(l) = n
  <2>1. b \in Bijection(1 .. n, Range(b))
    BY <1>1 DEF Bijection, Injection, Surjection, Range
  <2>2. ExistsBijection(1 .. n, Range(b))
    BY <2>1 DEF ExistsBijection
  <2>3. Cardinality(Range(b)) = n
    BY <1>3, <2>2, FS_CountingElements
  <2> QED  BY <1>6, <2>3
<1> DEFINE p == [i \in 1 .. n |-> CHOOSE j \in 1 .. n : b[j] = l[i]]
<1>8. \A i \in 1 .. n : p[i] \in 1 .. n /\ b[p[i]] = l[i]
  <2>1. \A i \in 1 .. n : l[i] \in Range(b)
    BY <1>6, <1>7
  <2>2. \A i \in 1 .. n : \E j \in 1 .. n : b[j] = l[i]
    BY <1>1, <2>1 DEF Range
  <2> QED  BY <2>2
<1>9. p \in [1 .. n -> 1 .. n]
  <2>1. p = [i \in 1 .. n |-> p[i]]
    OBVIOUS
  <2> HIDE DEF p
  <2> QED  BY <1>8, <2>1
<1> HIDE DEF p, score
<1>10. ASSUME NEW i \in 1 .. n, NEW j \in 1 .. n, i < j PROVE p[i] < p[j]
  <2>1. score[l[i]] >= score[l[j]] /\ l[i] # l[j]
    BY <1>6, <1>7, <1>10 DEF IsInjective
  <2>2. p[i] # p[j] /\ ~(p[j] < p[i])
    <3>1. p[j] < p[i] => score[l[j]] > score[l[i]]
      <4>1. /\ p[i] \in 1 .. n /\ b[p[i]] = l[i]
            /\ p[j] \in 1 .. n /\ b[p[j]] = l[j]
        BY <1>8
      <4>2. p[j] < p[i] => score[b[p[j]]] > score[b[p[i]]]
        BY <1>5, <4>1
      <4> QED  BY <4>1, <4>2
    <3>2. score[l[i]] \in Nat /\ score[l[j]] \in Nat
      <4>1. \A k \in 1 .. n : score[b[k]] \in Nat
        BY <1>4
      <4>2. /\ p[i] \in 1 .. n /\ b[p[i]] = l[i]
            /\ p[j] \in 1 .. n /\ b[p[j]] = l[j]
        BY <1>8
      <4> HIDE DEF n
      <4> QED  BY <4>1, <4>2, Zenon
    <3> QED  BY <1>8, <2>1, <3>1, <3>2
  <2> QED  BY <1>8, <2>2
<1>11. \A i \in 1 .. n : p[i] = i
  <2> HIDE DEF n
  <2> QED  BY <1>3, <1>9, <1>10, IncreasingIsIdentity
<1>12. \A i \in 1 .. n : l[i] = b[i]
  BY <1>8, <1>11
<1> QED  BY <1>1, <1>6, <1>7, <1>12

-----------------------------------------------------------------------------
(* Replies, and what arrives of them: h is r up to some place, and then    *)
(* perhaps a line that has been cut.                                       *)
CutAt(h, r, k) ==
    /\ Len(h) = k \/ (Len(h) = k + 1 /\ h[k + 1] = Part)
    /\ \A i \in 1 .. k : h[i] = r[i]

CutOf(h, r) == h \in Seq(Lines) /\ \E k \in 0 .. Len(r) : CutAt(h, r, k)

(* The lines of a reply are told apart.                                    *)
LEMMA LinesDiffer ==
    /\ Answer # Sources /\ Answer # Part /\ Sources # Part
    /\ Error # Sources /\ Error # Part
    /\ Docs \subseteq Lines \ {Answer, Sources, Error, Part}
    /\ {Answer, Sources, Error, Part} \subseteq Lines
BY SearchApiAssumption DEF Answer, Sources, Error, Part, Lines

(* Whatever arrives of a reply is a beginning of it, perhaps with a cut    *)
(* line.                                                                   *)
LEMMA CutsAreCuts ==
    ASSUME NEW r \in Seq(Lines)
    PROVE  /\ CutOf(r, r) /\ CutOf(<<>>, r)
           /\ \A k \in 0 .. Len(r) - 1 :
                CutOf(SubSeq(r, 1, k), r) /\ CutOf(Append(SubSeq(r, 1, k), Part), r)
<1>1. CutOf(r, r)
  <2>1. CutAt(r, r, Len(r)) /\ Len(r) \in 0 .. Len(r)
    BY DEF CutAt
  <2> QED  BY <2>1 DEF CutOf
<1>2. CutOf(<<>>, r)
  <2>1. CutAt(<<>>, r, 0) /\ 0 \in 0 .. Len(r) /\ <<>> \in Seq(Lines)
    BY DEF CutAt
  <2> QED  BY <2>1 DEF CutOf
<1>3. ASSUME NEW k \in 0 .. Len(r) - 1
      PROVE  CutOf(SubSeq(r, 1, k), r) /\ CutOf(Append(SubSeq(r, 1, k), Part), r)
  <2> DEFINE p == SubSeq(r, 1, k)
  <2>1. k \in 0 .. Len(r)
    OBVIOUS
  <2>2. p \in Seq(Lines) /\ Len(p) = k /\ \A i \in 1 .. k : p[i] = r[i]
    OBVIOUS
  <2> HIDE DEF p
  <2>3. CutOf(p, r)
    <3>1. CutAt(p, r, k)
      BY <2>1, <2>2 DEF CutAt
    <3> QED  BY <2>1, <2>2, <3>1 DEF CutOf
  <2> DEFINE q == Append(p, Part)
  <2>4. /\ q \in Seq(Lines) /\ Len(q) = k + 1 /\ q[k + 1] = Part
        /\ \A i \in 1 .. k : q[i] = r[i]
    BY <2>1, <2>2, LinesDiffer
  <2> HIDE DEF q
  <2>5. CutOf(q, r)
    <3>1. CutAt(q, r, k)
      BY <2>1, <2>4 DEF CutAt
    <3> QED  BY <2>1, <2>4, <3>1 DEF CutOf
  <2> QED  BY <2>3, <2>5 DEF p, q
<1> QED  BY <1>1, <1>2, <1>3

(* Without the line that was cut, it is a beginning of the reply.          *)
LEMMA CutIsPrefix ==
    ASSUME NEW S \in SUBSET Lines, Part \notin S, NEW r \in Seq(S), NEW h, CutOf(h, r)
    PROVE  IsPrefix(Kept(h, S), r)
<1>1. PICK k \in 0 .. Len(r) : CutAt(h, r, k)
  BY DEF CutOf
<1>2. h \in Seq(Lines) /\ k \in 0 .. Len(h) /\ k \in Nat
  BY <1>1 DEF CutOf, CutAt
<1>3. \A i \in 1 .. Len(h) : h[i] \in S <=> i <= k
  <2> TAKE i \in 1 .. Len(h)
  <2>1. CASE i <= k
    BY <1>1, <1>2, <2>1 DEF CutAt
  <2>2. CASE ~(i <= k)
    <3>1. i = k + 1 /\ h[k + 1] = Part
      BY <1>1, <1>2, <2>2 DEF CutAt
    <3> QED  BY <2>2, <3>1
  <2> QED  BY <2>1, <2>2
<1>4. Kept(h, S) = SubSeq(h, 1, k)
  BY <1>2, <1>3, KeptIsPrefix
<1> DEFINE p == SubSeq(h, 1, k)
<1>5. p \in Seq(Lines) /\ Len(p) = k /\ \A i \in 1 .. k : p[i] = r[i]
  BY <1>1, <1>2 DEF CutAt
<1> HIDE DEF p
<1>6. SubSeq(p, 1, Len(p)) = SubSeq(r, 1, Len(p)) /\ Len(p) <= Len(r)
  BY <1>2, <1>5
<1> QED  BY <1>4, <1>6 DEF IsPrefix, p

(* Nothing is kept where nothing is wanted.                                *)
LEMMA NothingKept ==
    ASSUME NEW h \in Seq(Lines), NEW S, \A i \in 1 .. Len(h) : h[i] \notin S
    PROVE  Kept(h, S) = <<>>
<1>1. 0 \in 0 .. Len(h) /\ \A i \in 1 .. Len(h) : h[i] \in S <=> i <= 0
  OBVIOUS
<1>2. Kept(h, S) = SubSeq(h, 1, 0)
  BY <1>1, KeptIsPrefix
<1> QED  BY <1>2

(* The empty list begins every list.                                       *)
LEMMA EmptyIsPrefix == ASSUME NEW D, NEW r \in Seq(D) PROVE IsPrefix(<<>>, r)
BY DEF IsPrefix

(* What stands behind the separator.                                       *)
LEMMA NoSources ==
    ASSUME NEW h \in Seq(Lines), \A i \in 1 .. Len(h) : h[i] # Sources
    PROVE  SourcesOf(h) = <<>>
BY DEF SourcesOf, SelectInSeq

(* The least element is the one below the others.                          *)
LEMMA MinIs ==
    ASSUME NEW I, I \subseteq Nat, NEW p \in I, \A j \in I : p <= j
    PROVE  Min(I) = p
<1>1. Min(I) \in I /\ \A j \in I : Min(I) <= j
  BY DEF Min
<1>2. Min(I) <= p /\ p <= Min(I) /\ Min(I) \in Nat /\ p \in Nat
  BY <1>1
<1> QED  BY <1>2

(* SourcesOf takes what stands behind the first separator.                 *)
LEMMA BehindSources ==
    ASSUME NEW h \in Seq(Lines), NEW p \in 1 .. Len(h), h[p] = Sources,
           \A i \in 1 .. p - 1 : h[i] # Sources
    PROVE  SourcesOf(h) = SubSeq(h, p + 1, Len(h))
<1> DEFINE I == {i \in 1 .. Len(h) : h[i] = Sources}
<1>1. p \in I /\ \A j \in I : p <= j
  OBVIOUS
<1>2. I \subseteq Nat
  OBVIOUS
<1>3. Min(I) = p
  <2> HIDE DEF I
  <2> QED  BY <1>1, <1>2, MinIs
<1>4. I # {} /\ p # 0
  BY <1>1
<1> QED  BY <1>3, <1>4 DEF SourcesOf, SelectInSeq

(* The bodies of the two kinds of replies.                                 *)
NamesDocs(r) == r \in Seq(Docs)
GivesAnswer(r) == \E s \in Seq(Docs) : r = <<Answer, Sources>> \o s

(* From a list of hits a cut takes away its end.                           *)
LEMMA HitsOnlyLost ==
    ASSUME NEW r, r = <<Error>> \/ NamesDocs(r), NEW h, CutOf(h, r)
    PROVE  /\ IsPrefix(Kept(h, Docs), r)
           /\ SourcesOf(h) = <<>> /\ SourcesOf(r) = <<>>
<1>1. r \in Seq(Lines) /\ \A i \in 1 .. Len(r) : r[i] \notin {Sources, Part}
  <2>1. CASE NamesDocs(r)
    <3>1. r \in Seq(Docs)
      BY <2>1 DEF NamesDocs
    <3>2. \A d \in Docs : d \in Lines /\ d # Sources /\ d # Part
      BY LinesDiffer
    <3> QED  BY <3>1, <3>2
  <2>2. CASE r = <<Error>>
    <3>1. Error \in Lines /\ Error # Sources /\ Error # Part
      BY LinesDiffer
    <3> QED  BY <2>2, <3>1
  <2> QED  BY <2>1, <2>2
<1>2. h \in Seq(Lines) /\ \A i \in 1 .. Len(h) : h[i] # Sources
  BY <1>1, LinesDiffer DEF CutOf, CutAt
<1>3. SourcesOf(h) = <<>> /\ SourcesOf(r) = <<>>
  BY <1>1, <1>2, NoSources
<1>4. CASE NamesDocs(r)
  BY <1>4, CutIsPrefix, LinesDiffer, <1>3 DEF NamesDocs
<1>5. CASE r = <<Error>>
  <2>1. \A i \in 1 .. Len(h) : h[i] \notin Docs
    BY <1>5, LinesDiffer DEF CutOf, CutAt
  <2> QED  BY <1>1, <1>2, <1>3, <2>1, NothingKept, EmptyIsPrefix
<1> QED  BY <1>4, <1>5

(* From an answer with sources it takes away the last of them.             *)
LEMMA SourcesOnlyLost ==
    ASSUME NEW r, GivesAnswer(r), NEW h, CutOf(h, r)
    PROVE  IsPrefix(Kept(SourcesOf(h), Lines \ {Part}), SourcesOf(r))
<1>1. PICK s \in Seq(Docs) : r = <<Answer, Sources>> \o s
  BY DEF GivesAnswer
<1>2. /\ r \in Seq(Lines) /\ Len(r) = Len(s) + 2 /\ r[1] = Answer /\ r[2] = Sources
      /\ \A i \in 1 .. Len(s) : r[i + 2] = s[i]
      /\ Len(s) \in Nat
  <2>1. s \in Seq(Lines) /\ <<Answer, Sources>> \in Seq(Lines)
    BY LinesDiffer
  <2>2. r \in Seq(Lines)
    BY <1>1, <2>1
  <2>3. /\ Len(s) \in Nat /\ Len(r) = Len(s) + 2
        /\ \A i \in 1 .. Len(s) + 2 : r[i] = IF i <= 2 THEN <<Answer, Sources>>[i] ELSE s[i - 2]
    BY <1>1
  <2>4. r[1] = Answer /\ r[2] = Sources
    BY <2>3
  <2>5. ASSUME NEW i \in 1 .. Len(s) PROVE r[i + 2] = s[i]
    <3>1. i + 2 \in 1 .. Len(s) + 2 /\ ~(i + 2 <= 2) /\ (i + 2) - 2 = i
      BY <2>3
    <3> QED  BY <2>3, <3>1
  <2> QED  BY <2>2, <2>3, <2>4, <2>5
<1>3. SourcesOf(r) = s
  <2>1. SourcesOf(r) = SubSeq(r, 2 + 1, Len(r))
    <3>1. 2 \in 1 .. Len(r) /\ r[2] = Sources
      BY <1>2
    <3>2. \A i \in 1 .. 2 - 1 : r[i] # Sources
      <4>1. \A i \in 1 .. 2 - 1 : i = 1
        OBVIOUS
      <4> QED  BY <1>2, <4>1, LinesDiffer
    <3> QED  BY <1>2, <3>1, <3>2, BehindSources
  <2>2. SubSeq(r, 3, Len(r)) = s
    BY <1>2
  <2> QED  BY <2>1, <2>2
<1>4. PICK k \in 0 .. Len(r) : CutAt(h, r, k)
  BY DEF CutOf
<1>5. h \in Seq(Lines) /\ Len(h) \in Nat /\ k \in Nat
  BY <1>2, <1>4 DEF CutOf
<1>6. CASE k < 2
  <2>1. \A i \in 1 .. Len(h) : h[i] # Sources
    BY <1>2, <1>4, <1>5, <1>6, LinesDiffer DEF CutAt
  <2>2. SourcesOf(h) = <<>>
    BY <1>5, <2>1, NoSources
  <2>3. Kept(<<>>, Lines \ {Part}) = <<>>
    <3>1. <<>> \in Seq(Lines) /\ \A i \in 1 .. Len(<<>>) : <<>>[i] \notin Lines \ {Part}
      OBVIOUS
    <3> QED  BY <3>1, NothingKept
  <2> QED  BY <1>3, <2>2, <2>3, EmptyIsPrefix
<1>7. CASE k >= 2
  <2> DEFINE t == SubSeq(h, 3, Len(h))
  <2>1. h[1] = Answer /\ h[2] = Sources /\ Len(h) >= 2
    BY <1>2, <1>4, <1>5, <1>7 DEF CutAt
  <2>2. SourcesOf(h) = SubSeq(h, 2 + 1, Len(h))
    BY <1>5, <2>1, BehindSources, LinesDiffer
  <2>3. /\ t \in Seq(Lines) /\ Len(t) = Len(h) - 2
        /\ \A i \in 1 .. Len(t) : t[i] = h[i + 2]
    <3>1. Len(t) = Len(h) - 2 /\ t \in Seq(Lines)
      <4>1. 3 \in Int /\ Len(h) \in Int /\ \A i \in 3 .. Len(h) : h[i] \in Lines
        BY <1>5
      <4>2. t \in Seq(Lines) /\ Len(t) = IF 3 <= Len(h) THEN Len(h) - 3 + 1 ELSE 0
        BY <4>1, SubSeqProperties
      <4> DEFINE n == Len(h)
      <4>3. n \in Nat /\ n >= 2 /\ Len(t) = IF 3 <= n THEN n - 3 + 1 ELSE 0
        BY <1>5, <2>1, <4>2
      <4> HIDE DEF t, n
      <4>4. Len(t) = n - 2
        BY <4>3
      <4> QED  BY <4>2, <4>4 DEF n
    <3>2. \A i \in 1 .. Len(h) - 2 : t[i] = h[i + 2]
      BY <1>5, <2>1
    <3> QED  BY <3>1, <3>2
  <2> HIDE DEF t
  <2>4. CutAt(t, s, k - 2) /\ k - 2 \in 0 .. Len(s)
    <3>1. k - 2 \in 0 .. Len(s) /\ k - 2 \in Nat
      BY <1>2, <1>4, <1>7
    <3>2. Len(h) = k \/ (Len(h) = k + 1 /\ h[k + 1] = Part)
      BY <1>4 DEF CutAt
    <3>3. Len(t) = k - 2 \/ (Len(t) = (k - 2) + 1 /\ t[(k - 2) + 1] = Part)
      <4>1. CASE Len(h) = k
        BY <2>3, <4>1
      <4>2. CASE Len(h) = k + 1 /\ h[k + 1] = Part
        <5>1. Len(t) = k - 1 /\ k - 1 \in 1 .. Len(t) /\ (k - 1) + 2 = k + 1
          BY <1>5, <1>7, <2>3, <4>2
        <5>2. t[k - 1] = h[k + 1]
          BY <2>3, <5>1
        <5>3. (k - 2) + 1 = k - 1
          BY <1>5
        <5> QED  BY <4>2, <5>1, <5>2, <5>3
      <4> QED  BY <3>2, <4>1, <4>2
    <3>4. ASSUME NEW i \in 1 .. k - 2 PROVE t[i] = s[i]
      <4>1. i + 2 \in 1 .. k /\ i \in 1 .. Len(s) /\ i \in 1 .. Len(t)
        BY <1>5, <1>7, <2>3, <3>1, <3>2
      <4>2. t[i] = h[i + 2] /\ r[i + 2] = s[i]
        BY <1>2, <2>3, <4>1
      <4>3. h[i + 2] = r[i + 2]
        BY <1>4, <4>1 DEF CutAt
      <4> QED  BY <4>2, <4>3
    <3> QED  BY <3>1, <3>3, <3>4 DEF CutAt
  <2>5. CutOf(t, s)
    BY <2>3, <2>4 DEF CutOf
  <2>6. s \in Seq(Lines \ {Part})
    BY LinesDiffer
  <2>7. IsPrefix(Kept(t, Lines \ {Part}), s)
    BY <2>5, <2>6, CutIsPrefix
  <2> QED  BY <1>3, <2>2, <2>7 DEF t
<1> QED  BY <1>5, <1>6, <1>7

-----------------------------------------------------------------------------
(* Pieces goes through the text once.                                      *)
CutStep(s, separators, n, p) ==
    IF s[n] \in separators THEN [res |-> Flush(p), curr |-> <<>>]
    ELSE [p EXCEPT !.curr = Append(@, s[n])]

CutStates(C) == [res : Seq(Seq(C)), curr : Seq(C)]

CutRun(f, C, s, separators) ==
    /\ f \in [0 .. Len(s) -> CutStates(C)]
    /\ f[0] = [res |-> <<>>, curr |-> <<>>]
    /\ \A n \in 1 .. Len(s) : f[n] = CutStep(s, separators, n, f[n - 1])
    /\ Pieces(s, separators) = Flush(f[Len(s)])

(* Flushing adds the current piece, unless it is empty.                    *)
LEMMA FlushType ==
    ASSUME NEW C, NEW p \in CutStates(C)
    PROVE  /\ Flush(p) \in Seq(Seq(C))
           /\ Range(Flush(p)) = Range(p.res) \cup (IF p.curr = <<>> THEN {} ELSE {p.curr})
<1>1. p.res \in Seq(Seq(C)) /\ p.curr \in Seq(C)
  BY DEF CutStates
<1>2. CASE p.curr = <<>>
  BY <1>1, <1>2 DEF Flush
<1>3. CASE p.curr # <<>>
  <2> DEFINE x == p.res
             y == p.curr
             l == Append(x, y)
  <2>1. /\ l \in Seq(Seq(C)) /\ Len(l) = Len(x) + 1 /\ l[Len(x) + 1] = y
        /\ \A i \in 1 .. Len(x) : l[i] = x[i]
    BY <1>1
  <2>2. x \in Seq(Seq(C)) /\ Len(x) \in Nat
    BY <1>1
  <2> HIDE DEF l, x, y
  <2>3. DOMAIN l = 1 .. Len(x) + 1 /\ DOMAIN x = 1 .. Len(x)
    BY <2>1, <2>2
  <2>4. Range(l) = Range(x) \cup {y}
    <3>1. ASSUME NEW i \in 1 .. Len(x) + 1 PROVE l[i] \in Range(x) \cup {y}
      <4>1. i \in 1 .. Len(x) \/ i = Len(x) + 1
        BY <2>2
      <4> QED  BY <2>1, <2>3, <4>1 DEF Range
    <3>2. Range(x) \subseteq Range(l)
      <4>1. \A i \in 1 .. Len(x) : i \in 1 .. Len(x) + 1
        BY <2>2
      <4> QED  BY <2>1, <2>3, <4>1 DEF Range
    <3>3. y \in Range(l)
      <4>1. Len(x) + 1 \in 1 .. Len(x) + 1
        BY <2>2
      <4> QED  BY <2>1, <2>3, <4>1 DEF Range
    <3> QED  BY <2>3, <3>1, <3>2, <3>3 DEF Range
  <2> QED  BY <1>3, <2>1, <2>4 DEF Flush, l, x, y
<1> QED  BY <1>2, <1>3

(* The recursive function of Pieces, one character at a time.              *)
LEMMA CutSteps ==
    ASSUME NEW C, NEW s \in Seq(C), NEW separators
    PROVE  \E f : CutRun(f, C, s, separators)
<1> DEFINE m == Len(s)
           V == CutStates(C)
           b == [res |-> <<>>, curr |-> <<>>]
           K(h) == h = [n \in 0 .. m |->
                         IF n = 0 THEN b ELSE CutStep(s, separators, n, h[n - 1])]
           k == CHOOSE h : K(h)
           g == [n \in 1 .. m |-> [v \in V |-> CutStep(s, separators, n, v)]]
<1>1. m \in Nat /\ b \in V
  BY DEF CutStates
<1>2. \A n \in 1 .. m, v \in V : CutStep(s, separators, n, v) \in V
  <2> TAKE n \in 1 .. m, v \in V
  <2>1. Flush(v) \in Seq(Seq(C)) /\ s[n] \in C /\ <<>> \in Seq(C)
    BY FlushType
  <2>2. CASE s[n] \in separators
    BY <2>1, <2>2 DEF CutStep, CutStates
  <2>3. CASE s[n] \notin separators
    <3>1. Append(v.curr, s[n]) \in Seq(C)
      BY <2>1 DEF CutStates
    <3> QED  BY <2>3, <3>1 DEF CutStep, CutStates
  <2> QED  BY <2>2, <2>3
<1>3. Pieces(s, separators) = Flush(k[m])
  BY Zenon DEF Pieces, CutStep
<1> HIDE DEF m, V
<1>4. g \in StepsOn(m, V)
  BY <1>2 DEF StepsOn
<1>5. \A n \in 1 .. m, v \in V : g[n][v] = CutStep(s, separators, n, v)
  OBVIOUS
<1>6. PICK f : Follows(f, m, V, b, g)
  <2> HIDE DEF g, b
  <2> QED  BY <1>1, <1>4, StepsFollow
<1>6a. f \in [0 .. m -> V] /\ f[0] = b /\ \A n \in 1 .. m : f[n] = g[n][f[n - 1]]
  <2> HIDE DEF g, b
  <2> QED  BY <1>6 DEF Follows
<1> HIDE DEF g, b
<1>7. \A n \in 1 .. m : n - 1 \in 0 .. m /\ n # 0 /\ n \in 0 .. m
  BY <1>1
<1>8. \A n \in 1 .. m : f[n] = CutStep(s, separators, n, f[n - 1])
  BY <1>5, <1>6a, <1>7
<1>9. K(f)
  <2>1. \A n \in 0 .. m : n = 0 \/ n \in 1 .. m
    BY <1>1
  <2>2. f = [n \in 0 .. m |-> f[n]]
    BY <1>6a
  <2> QED  BY <1>6a, <1>8, <2>1, <2>2
<1>10. K(k)
  <2> HIDE DEF K
  <2> QED BY <1>9
<1>11. k[0] = b /\ \A n \in 1 .. m : k[n] = CutStep(s, separators, n, k[n - 1])
  <2> HIDE DEF k
  <2>1. 0 \in 0 .. m
    BY <1>1
  <2> QED  BY <1>10, <1>7, <2>1
<1>12. \A n \in 0 .. m : k[n] \in V
  <2>1. \A n \in 1 .. m : k[n - 1] \in V => k[n] \in V
    BY <1>2, <1>11
  <2> HIDE DEF k
  <2> QED  BY <1>1, <1>11, <2>1, StaysIn
<1>13. k = [n \in 0 .. m |-> k[n]]
  BY <1>10
<1>14. k \in [0 .. m -> V]
  BY <1>12, <1>13
<1> HIDE DEF k
<1> QED BY <1>14, <1>11, <1>3 DEF m, V, b, CutRun

-----------------------------------------------------------------------------
(* The words of a text: Runs(s) is where they begin and end.               *)
IsRun(s, a, b) ==
    /\ a <= b
    /\ \A k \in a .. b : IsWordChar(s[k])
    /\ a = 1 \/ ~IsWordChar(s[a - 1])
    /\ b = Len(s) \/ ~IsWordChar(s[b + 1])

Runs(s) == {q \in (1 .. Len(s)) \X (1 .. Len(s)) : IsRun(s, q[1], q[2])}

(* Lowering changes no length.                                             *)
LEMMA LoweredIs ==
    ASSUME NEW C, NEW s \in Seq(C)
    PROVE  /\ Lowered(s) \in Seq(C \cup DOMAIN Lower) /\ Len(Lowered(s)) = Len(s)
           /\ \A i \in 1 .. Len(s) :
                Lowered(s)[i] = IF IsWordChar(s[i]) THEN Lower[s[i]] ELSE s[i]
<1>1. \A i \in 1 .. Len(s) : s[i] \in C /\ (IsWordChar(s[i]) => Lower[s[i]] \in DOMAIN Lower)
  BY LowerAssumption DEF IsWordChar
<1>2. Len(s) \in Nat /\ DOMAIN s = 1 .. Len(s)
  OBVIOUS
<1> QED  BY <1>1, <1>2 DEF Lowered

(* It makes no difference whether a text is cut or lowered first.          *)
LEMMA LoweredSubSeq ==
    ASSUME NEW C, NEW s \in Seq(C), NEW a \in 1 .. Len(s), NEW b \in 1 .. Len(s), a <= b
    PROVE  Lowered(SubSeq(s, a, b)) = SubSeq(Lowered(s), a, b)
<1> DEFINE l == Lowered(s)
           p == SubSeq(s, a, b)
           t == SubSeq(l, a, b)
           n == b - a + 1
<1>1. /\ l \in Seq(C \cup DOMAIN Lower) /\ Len(l) = Len(s)
      /\ \A i \in 1 .. Len(s) : l[i] = IF IsWordChar(s[i]) THEN Lower[s[i]] ELSE s[i]
  BY LoweredIs
<1>2. p \in Seq(C) /\ Len(p) = n /\ \A i \in 1 .. n : p[i] = s[a + i - 1]
  <2>1. \A i \in a .. b : s[i] \in C
    OBVIOUS
  <2> QED  BY <2>1, SubSeqProperties
<1> HIDE DEF l
<1>3. /\ t \in Seq(C \cup DOMAIN Lower) /\ Len(t) = n
      /\ \A i \in 1 .. n : t[i] = l[a + i - 1]
  <2>1. \A i \in a .. b : l[i] \in C \cup DOMAIN Lower
    BY <1>1
  <2> QED  BY <2>1, SubSeqProperties
<1>4. /\ Lowered(p) \in Seq(C \cup DOMAIN Lower) /\ Len(Lowered(p)) = n
      /\ \A i \in 1 .. n :
           Lowered(p)[i] = IF IsWordChar(p[i]) THEN Lower[p[i]] ELSE p[i]
  <2> HIDE DEF p
  <2> QED  BY <1>2, LoweredIs
<1>5. \A i \in 1 .. n : a + i - 1 \in 1 .. Len(s)
  OBVIOUS
<1> HIDE DEF p, t, n
<1>6. \A i \in 1 .. n : Lowered(p)[i] = t[i]
  BY <1>1, <1>2, <1>3, <1>4, <1>5
<1>7. Lowered(p) = t
  BY <1>3, <1>4, <1>6
<1> QED  BY <1>7 DEF p, t, l

(* The words of a text are its runs of word characters.                    *)
LEMMA WordsAreRuns ==
    ASSUME NEW C, NEW s \in Seq(C)
    PROVE  WordsIn(s) = {SubSeq(Lowered(s), q[1], q[2]) : q \in Runs(s)}
<1> DEFINE In(i) == i \in DOMAIN s /\ IsWordChar(s[i])
           R == {q \in (DOMAIN s) \X (DOMAIN s) :
                    q[1] <= q[2] /\ \A k \in q[1] - 1 .. q[2] + 1 : In(k) <=> k \in q[1] .. q[2]}
<1>1. DOMAIN s = 1 .. Len(s) /\ Len(s) \in Nat
  OBVIOUS
<1>2. ASSUME NEW a \in 1 .. Len(s), NEW b \in 1 .. Len(s), a <= b
      PROVE  (\A k \in a - 1 .. b + 1 : In(k) <=> k \in a .. b) <=> IsRun(s, a, b)
  <2>1. ASSUME \A k \in a - 1 .. b + 1 : In(k) <=> k \in a .. b PROVE IsRun(s, a, b)
    <3>1. ASSUME NEW k \in a .. b PROVE IsWordChar(s[k])
      <4>1. k \in a - 1 .. b + 1
        OBVIOUS
      <4> QED  BY <2>1, <4>1
    <3>2. ASSUME a # 1 PROVE ~IsWordChar(s[a - 1])
      <4>1. a - 1 \in a - 1 .. b + 1 /\ a - 1 \notin a .. b /\ a - 1 \in 1 .. Len(s)
        BY <3>2, <1>2
      <4> QED  BY <1>1, <2>1, <4>1
    <3>3. ASSUME b # Len(s) PROVE ~IsWordChar(s[b + 1])
      <4>1. b + 1 \in a - 1 .. b + 1 /\ b + 1 \notin a .. b /\ b + 1 \in 1 .. Len(s)
        BY <3>3, <1>2
      <4> QED  BY <1>1, <2>1, <4>1
    <3> QED  BY <1>2, <3>1, <3>2, <3>3 DEF IsRun
  <2>2. ASSUME IsRun(s, a, b), NEW k \in a - 1 .. b + 1 PROVE In(k) <=> k \in a .. b
    <3>1. CASE k \in a .. b
      <4>1. k \in 1 .. Len(s)
        BY <3>1, <1>1
      <4> QED  BY <1>1, <2>2, <3>1, <4>1 DEF IsRun
    <3>2. CASE k = a - 1
      <4>1. k \in 1 .. Len(s) => a # 1
        BY <3>2
      <4>2. k \notin a .. b
        BY <3>2
      <4> QED  BY <1>1, <2>2, <3>2, <4>1, <4>2 DEF IsRun
    <3>3. CASE k = b + 1
      <4>1. k \in 1 .. Len(s) => b # Len(s)
        <5> DEFINE m == Len(s)
        <5>1. m \in Nat
          BY <1>1
        <5> HIDE DEF m
        <5>2. k \in 1 .. m => b # m
          BY <3>3, <5>1
        <5> QED  BY <5>2 DEF m
      <4>2. k \notin a .. b
        BY <3>3
      <4> QED  BY <1>1, <2>2, <3>3, <4>1, <4>2 DEF IsRun
    <3> QED  BY <3>1, <3>2, <3>3
  <2> QED  BY <2>1, <2>2
<1>3. R = Runs(s)
  <2>1. \A q \in (1 .. Len(s)) \X (1 .. Len(s)) : q \in R <=> q \in Runs(s)
    <3> TAKE q \in (1 .. Len(s)) \X (1 .. Len(s))
    <3>1. q[1] \in 1 .. Len(s) /\ q[2] \in 1 .. Len(s)
      OBVIOUS
    <3>2. q \in Runs(s) <=> IsRun(s, q[1], q[2])
      BY DEF Runs
    <3>3. q \in R <=> (q[1] <= q[2] /\ \A k \in q[1] - 1 .. q[2] + 1 : In(k) <=> k \in q[1] .. q[2])
      BY <1>1
    <3>4. IsRun(s, q[1], q[2]) => q[1] <= q[2]
      BY DEF IsRun
    <3> HIDE DEF R, In
    <3> QED  BY <3>1, <3>2, <3>3, <3>4, <1>2
  <2>2. R \subseteq (1 .. Len(s)) \X (1 .. Len(s))
    BY <1>1
  <2>3. Runs(s) \subseteq (1 .. Len(s)) \X (1 .. Len(s))
    BY DEF Runs
  <2> HIDE DEF R
  <2> QED  BY <2>1, <2>2, <2>3
<1>4. WordsIn(s) = {Lowered(SubSeq(s, q[1], q[2])) : q \in R}
  BY DEF WordsIn
<1>5. \A q \in Runs(s) : Lowered(SubSeq(s, q[1], q[2])) = SubSeq(Lowered(s), q[1], q[2])
  <2> TAKE q \in Runs(s)
  <2>1. q[1] \in 1 .. Len(s) /\ q[2] \in 1 .. Len(s) /\ q[1] <= q[2]
    BY DEF Runs, IsRun
  <2> QED  BY <2>1, LoweredSubSeq
<1> HIDE DEF R
<1> QED  BY <1>3, <1>4, <1>5

(* The run that is open at n, and the runs that ended before it.           *)
Open(s, a, n) ==
    /\ a \in 1 .. n + 1
    /\ \A k \in a .. n : IsWordChar(s[k])
    /\ a = 1 \/ ~IsWordChar(s[a - 1])

Ended(s, n) == {q \in Runs(s) : q[2] < n}
Cuts(t, Q) == {SubSeq(t, q[1], q[2]) : q \in Q}

(* At a word character no run ends.                                        *)
LEMMA WordCharGoesOn ==
    ASSUME NEW C, NEW s \in Seq(C), NEW n \in Nat, n < Len(s), IsWordChar(s[n + 1])
    PROVE  Ended(s, n + 1) = Ended(s, n)
<1>1. ASSUME NEW q \in Runs(s) PROVE q[2] # n
  BY DEF Runs, IsRun
<1>2. ASSUME NEW q \in Runs(s) PROVE q[2] < n + 1 <=> q[2] < n
  <2>1. q[2] \in 1 .. Len(s)
    BY DEF Runs
  <2>2. q[2] \in Nat
    BY <2>1
  <2> QED  BY <1>1, <2>2
<1> QED  BY <1>2 DEF Ended

(* Behind the last character of a run it ends.                             *)
LEMMA RunEndsHere ==
    ASSUME NEW C, NEW s \in Seq(C), NEW n \in 0 .. Len(s), NEW a, Open(s, a, n),
           n = Len(s) \/ ~IsWordChar(s[n + 1])
    PROVE  Ended(s, n + 1) = Ended(s, n) \cup (IF a <= n THEN {<<a, n>>} ELSE {})
<1>1. a \in Nat /\ a >= 1 /\ a <= n + 1 /\ n \in Nat /\ n <= Len(s)
  BY DEF Open
<1>2. ASSUME a <= n PROVE <<a, n>> \in Runs(s)
  <2>1. IsRun(s, a, n)
    BY <1>2 DEF Open, IsRun
  <2>2. a \in 1 .. Len(s) /\ n \in 1 .. Len(s)
    BY <1>1, <1>2
  <2> QED  BY <2>1, <2>2 DEF Runs
<1>3. ASSUME NEW q \in Runs(s), q[2] = n PROVE a <= n /\ q = <<a, n>>
  <2>1. q \in (1 .. Len(s)) \X (1 .. Len(s)) /\ IsRun(s, q[1], n)
    BY <1>3 DEF Runs
  <2> DEFINE b == q[1]
  <2>2. q = <<b, n>> /\ b \in Nat /\ b >= 1
    BY <2>1, <1>3
  <2>3. IsRun(s, b, n)
    BY <2>1
  <2> HIDE DEF b
  <2>4. b <= n /\ IsWordChar(s[n])
    BY <1>1, <2>2, <2>3 DEF IsRun
  <2>5. a <= n
    <3>1. a = n + 1 => a # 1 /\ a - 1 = n
      BY <1>1, <2>2, <2>4
    <3>2. a # n + 1
      BY <2>4, <3>1 DEF Open
    <3> QED  BY <1>1, <3>2
  <2>6. ~(a < b)
    <3>1. a < b => b # 1 /\ b - 1 \in a .. n
      BY <1>1, <2>2, <2>4
    <3> QED  BY <2>3, <3>1 DEF Open, IsRun
  <2>7. ~(b < a)
    <3>1. b < a => a # 1 /\ a - 1 \in b .. n
      BY <1>1, <2>2, <2>5
    <3> QED  BY <2>3, <3>1 DEF Open, IsRun
  <2>8. a = b
    BY <1>1, <2>2, <2>6, <2>7
  <2> QED  BY <2>2, <2>5, <2>8
<1>4. ASSUME NEW q \in Runs(s)
      PROVE  q[2] < n + 1 <=> (q[2] < n \/ q[2] = n)
  <2>1. q[2] \in 1 .. Len(s)
    BY DEF Runs
  <2>2. q[2] \in Nat
    BY <2>1
  <2> QED  BY <1>1, <2>2
<1>5. <<a, n>>[2] = n
  OBVIOUS
<1> QED  BY <1>2, <1>3, <1>4, <1>5 DEF Ended

(* What Pieces has collected at n.                                         *)
CutHolds(s, t, p, n) ==
    /\ Range(p.res) = Cuts(t, Ended(s, n))
    /\ \E a : Open(s, a, n) /\ p.curr = SubSeq(t, a, n)

(* What is flushed there is the run.                                       *)
LEMMA FlushedHere ==
    ASSUME NEW C, NEW s \in Seq(C), NEW D, NEW t \in Seq(D), Len(t) = Len(s),
           NEW n \in 0 .. Len(s), NEW p \in CutStates(D), CutHolds(s, t, p, n),
           n = Len(s) \/ ~IsWordChar(s[n + 1])
    PROVE  Range(Flush(p)) = Cuts(t, Ended(s, n + 1))
<1>1. PICK a : Open(s, a, n) /\ p.curr = SubSeq(t, a, n)
  BY DEF CutHolds
<1>2. a \in Nat /\ a >= 1 /\ a <= n + 1 /\ n \in Nat /\ n <= Len(s)
  BY <1>1 DEF Open
<1>3. Range(Flush(p)) = Cuts(t, Ended(s, n)) \cup (IF p.curr = <<>> THEN {} ELSE {p.curr})
  BY FlushType DEF CutHolds
<1>4. Ended(s, n + 1) = Ended(s, n) \cup (IF a <= n THEN {<<a, n>>} ELSE {})
  BY <1>1, RunEndsHere
<1>5. CASE a <= n
  <2> DEFINE l == SubSeq(t, a, n)
  <2>1. l \in Seq(D) /\ Len(l) = n - a + 1
    <3>1. \A i \in a .. n : t[i] \in D
      BY <1>2
    <3> QED  BY <1>2, <1>5, <3>1, SubSeqProperties
  <2> HIDE DEF l
  <2>2. Len(l) # 0
    BY <1>2, <1>5, <2>1
  <2>3. l # <<>>
    BY <2>2
  <2>4. Cuts(t, Ended(s, n + 1)) = Cuts(t, Ended(s, n)) \cup {l}
    <3> DEFINE Q == Ended(s, n)
               r == <<a, n>>
    <3>1. Ended(s, n + 1) = Q \cup {r} /\ l = SubSeq(t, r[1], r[2])
      BY <1>4, <1>5 DEF l
    <3> HIDE DEF Q, r, l
    <3>2. Cuts(t, Q \cup {r}) = Cuts(t, Q) \cup {l}
      BY <3>1 DEF Cuts
    <3> QED  BY <3>1, <3>2 DEF Q
  <2> QED  BY <1>1, <1>3, <2>3, <2>4 DEF l
<1>6. CASE ~(a <= n)
  <2>1. SubSeq(t, a, n) = <<>>
    BY <1>2, <1>6, SubSeqProperties
  <2> QED  BY <1>1, <1>3, <1>4, <1>6, <2>1
<1> QED  BY <1>5, <1>6

(* A piece grows by the next character.                                    *)
LEMMA NextPiece ==
    ASSUME NEW D, NEW t \in Seq(D), NEW n \in Nat, n + 1 <= Len(t),
           NEW a \in 1 .. n + 1
    PROVE  Append(SubSeq(t, a, n), t[n + 1]) = SubSeq(t, a, n + 1)
<1> DEFINE x == SubSeq(t, a, n)
           y == SubSeq(t, a, n + 1)
           c == t[n + 1]
           z == Append(x, c)
           k == n + 1 - a
<1>1. k \in Nat /\ a \in Nat /\ a >= 1
  OBVIOUS
<1>2. x \in Seq(D) /\ Len(x) = k /\ \A i \in 1 .. k : x[i] = t[a + i - 1]
  <2>1. \A i \in a .. n : t[i] \in D
    OBVIOUS
  <2> QED  BY <2>1, SubSeqProperties
<1>3. y \in Seq(D) /\ Len(y) = k + 1 /\ \A i \in 1 .. k + 1 : y[i] = t[a + i - 1]
  <2>1. \A i \in a .. n + 1 : t[i] \in D
    OBVIOUS
  <2> QED  BY <2>1, SubSeqProperties
<1>4. c \in D
  OBVIOUS
<1>5. a + (k + 1) - 1 = n + 1
  BY <1>1
<1> HIDE DEF x, y, c
<1>6. /\ z \in Seq(D) /\ Len(z) = k + 1 /\ z[k + 1] = c
      /\ \A i \in 1 .. k : z[i] = x[i]
  <2> HIDE DEF k
  <2> QED  BY <1>1, <1>2, <1>4
<1>7. y[k + 1] = c
  <2>1. k + 1 \in 1 .. k + 1
    BY <1>1
  <2> QED  BY <1>3, <1>5, <2>1 DEF c
<1> HIDE DEF z, k
<1>8. \A i \in 1 .. k + 1 : z[i] = y[i]
  <2>1. \A i \in 1 .. k + 1 : i \in 1 .. k \/ i = k + 1
    BY <1>1
  <2> QED  BY <1>2, <1>3, <1>6, <1>7, <2>1
<1> QED  BY <1>1, <1>3, <1>6, <1>8 DEF x, z, y, c

(* The pieces are the words, where the separators are the characters of no *)
(* word.                                                                   *)
LEMMA PiecesAreWords ==
    ASSUME NEW C, NEW s \in Seq(C), NEW separators,
           \A i \in 1 .. Len(s) : Lowered(s)[i] \in separators <=> ~IsWordChar(s[i])
    PROVE  Range(Pieces(Lowered(s), separators)) = WordsIn(s)
<1> DEFINE D == C \cup DOMAIN Lower
           t == Lowered(s)
           m == Len(s)
<1>1. t \in Seq(D) /\ Len(t) = m
  BY LoweredIs
<1>2. \A i \in 1 .. m : t[i] \in separators <=> ~IsWordChar(s[i])
  OBVIOUS
<1>3. m \in Nat
  OBVIOUS
<1> HIDE DEF t, D, m
<1>4. PICK f : CutRun(f, D, t, separators)
  BY <1>1, CutSteps
<1>5. /\ f \in [0 .. m -> CutStates(D)] /\ f[0] = [res |-> <<>>, curr |-> <<>>]
      /\ \A n \in 1 .. m : f[n] = CutStep(t, separators, n, f[n - 1])
      /\ Pieces(t, separators) = Flush(f[m])
  BY <1>1, <1>4 DEF CutRun
<1> DEFINE T == {n \in 0 .. m : CutHolds(s, t, f[n], n)}
<1>6. 0 \in T
  <2>1. Open(s, 1, 0)
    BY DEF Open
  <2>2. SubSeq(t, 1, 0) = <<>>
    BY <1>1, SubSeqProperties
  <2>3. Range(<<>>) = {}
    BY DEF Range
  <2>4. Ended(s, 0) = {}
    BY DEF Ended, Runs
  <2>5. Cuts(t, {}) = {}
    BY DEF Cuts
  <2>6. f[0].res = <<>> /\ f[0].curr = <<>>
    BY <1>5
  <2>7. CutHolds(s, t, f[0], 0)
    BY <2>1, <2>2, <2>3, <2>4, <2>5, <2>6 DEF CutHolds
  <2> QED  BY <1>3, <2>7
<1>7. ASSUME NEW n \in 0 .. m, n \in T, n < m PROVE n + 1 \in T
  <2>1. n + 1 \in 1 .. m /\ (n + 1) - 1 = n /\ n \in Nat /\ n + 1 \in 0 .. m
    BY <1>3, <1>7
  <2>2. f[n + 1] = CutStep(t, separators, n + 1, f[n]) /\ f[n] \in CutStates(D)
    BY <1>5, <2>1
  <2>3. CutHolds(s, t, f[n], n)
    BY <1>7
  <2>4. PICK a : Open(s, a, n) /\ f[n].curr = SubSeq(t, a, n)
    BY <2>3 DEF CutHolds
  <2>5. a \in Nat /\ a >= 1 /\ a <= n + 1
    BY <2>1, <2>4 DEF Open
  <2>6. CASE ~IsWordChar(s[n + 1])
    <3>1. f[n + 1].res = Flush(f[n]) /\ f[n + 1].curr = <<>>
      BY <1>2, <2>1, <2>2, <2>6 DEF CutStep
    <3>2. Range(Flush(f[n])) = Cuts(t, Ended(s, n + 1))
      BY <1>1, <2>2, <2>3, <2>6, FlushedHere DEF m
    <3>3. Open(s, n + 2, n + 1)
      <4>1. n + 2 \in 1 .. (n + 1) + 1 /\ (n + 2) - 1 = n + 1 /\ (n + 2) .. (n + 1) = {}
        BY <2>1
      <4> QED  BY <2>6, <4>1 DEF Open
    <3>4. SubSeq(t, n + 2, n + 1) = <<>>
      BY <1>1, <2>1, SubSeqProperties
    <3>5. CutHolds(s, t, f[n + 1], n + 1)
      BY <3>1, <3>2, <3>3, <3>4 DEF CutHolds
    <3> QED  BY <2>1, <3>5
  <2>7. CASE IsWordChar(s[n + 1])
    <3>1. f[n + 1].res = f[n].res /\ f[n + 1].curr = Append(f[n].curr, t[n + 1])
      BY <1>2, <2>1, <2>2, <2>7 DEF CutStep, CutStates
    <3>2. Ended(s, n + 1) = Ended(s, n)
      BY <1>7, <2>1, <2>7, WordCharGoesOn DEF m
    <3>3. Open(s, a, n + 1)
      <4>1. \A k \in a .. n + 1 : k \in a .. n \/ k = n + 1
        BY <2>1, <2>5
      <4>2. a \in 1 .. (n + 1) + 1
        BY <2>1, <2>5
      <4> QED  BY <2>4, <2>7, <4>1, <4>2 DEF Open
    <3>4. Append(SubSeq(t, a, n), t[n + 1]) = SubSeq(t, a, n + 1)
      BY <1>1, <2>1, <2>5, NextPiece
    <3>5. CutHolds(s, t, f[n + 1], n + 1)
      BY <2>3, <2>4, <3>1, <3>2, <3>3, <3>4 DEF CutHolds
    <3> QED  BY <2>1, <3>5
  <2> QED  BY <2>6, <2>7
<1> HIDE DEF T
<1>8. \A n \in 0 .. m : n \in T
  BY <1>3, <1>6, <1>7, BoundedInduction
<1>9. CutHolds(s, t, f[m], m) /\ f[m] \in CutStates(D)
  <2>1. m \in 0 .. m
    BY <1>3
  <2> QED  BY <1>5, <1>8, <2>1 DEF T
<1>10. Range(Flush(f[m])) = Cuts(t, Ended(s, m + 1))
  <2>1. m \in 0 .. m
    BY <1>3
  <2> QED  BY <1>1, <1>9, <2>1, FlushedHere DEF m
<1>11. Ended(s, m + 1) = Runs(s)
  <2>1. ASSUME NEW q \in Runs(s) PROVE q[2] < m + 1
    <3>1. q[2] \in 1 .. m
      BY DEF Runs, m
    <3> QED  BY <1>3, <3>1
  <2> QED  BY <2>1 DEF Ended
<1> QED  BY <1>5, <1>10, <1>11, WordsAreRuns DEF Cuts, t

-----------------------------------------------------------------------------
(* What Kept keeps is in S.                                                *)
LEMMA KeptType ==
    ASSUME NEW D, NEW lines \in Seq(D), NEW S
    PROVE  Kept(lines, S) \in Seq(S)
<1> DEFINE m == Len(lines)
           W == Seq(S)
<1>1. PICK f : KeptRun(f, D, lines, S)
  BY KeptSteps
<1>2. \A n \in 1 .. m : f[n - 1] \in W => f[n] \in W
  <2> TAKE n \in 1 .. m
  <2>1. f[n] = KeptStep(lines, S, n, f[n - 1])
    BY <1>1 DEF KeptRun
  <2> QED  BY <2>1 DEF KeptStep
<1>3. f[0] \in W /\ m \in Nat /\ Kept(lines, S) = f[m]
  BY <1>1 DEF KeptRun
<1>4. f[m] \in W
  <2>1. m \in 0 .. m
    BY <1>3
  <2> HIDE DEF m, W
  <2> QED  BY <1>2, <1>3, <2>1, StaysIn
<1> QED  BY <1>3, <1>4

(* The pieces are a list of texts.                                         *)
LEMMA PiecesType ==
    ASSUME NEW C, NEW s \in Seq(C), NEW separators
    PROVE  Pieces(s, separators) \in Seq(Seq(C))
<1>1. PICK f : CutRun(f, C, s, separators)
  BY CutSteps
<1>2. f[Len(s)] \in CutStates(C)
  <2>1. Len(s) \in 0 .. Len(s)
    OBVIOUS
  <2> QED  BY <1>1, <2>1 DEF CutRun
<1> QED  BY <1>1, <1>2, FlushType DEF CutRun

(* The tokens of a document are its words; so are the terms of a query     *)
(* whose only marks are the two that SplitTerms splits at.                 *)
LEMMA TokensAreWords ==
    ASSUME NEW d \in Docs
    PROVE  /\ \E D : Tokens[d] \in Seq(D)
           /\ Range(Tokens[d]) = WordsIn(Text[d])
<1> DEFINE s == Text[d]
           sep == Range(s) \ DOMAIN Lower
<1>1. s \in Seq(STRING)
  BY RankingAssumption
<1>2. Tokens[d] = Pieces(Lowered(s), sep)
  BY DEF Tokens, Tokenize
<1> HIDE DEF s
<1>3. Lowered(s) \in Seq(STRING \cup DOMAIN Lower)
  BY <1>1, LoweredIs
<1>4. \A i \in 1 .. Len(s) : Lowered(s)[i] \in sep <=> ~IsWordChar(s[i])
  <2> TAKE i \in 1 .. Len(s)
  <2>1. Lowered(s)[i] = IF IsWordChar(s[i]) THEN Lower[s[i]] ELSE s[i]
    BY <1>1, LoweredIs
  <2>2. IsWordChar(s[i]) => Lower[s[i]] \in DOMAIN Lower
    BY LowerAssumption DEF IsWordChar
  <2>3. s[i] \in Range(s)
    BY <1>1 DEF Range
  <2> QED  BY <2>1, <2>2, <2>3 DEF IsWordChar
<1> HIDE DEF sep
<1>5. Pieces(Lowered(s), sep) \in Seq(Seq(STRING \cup DOMAIN Lower))
  BY <1>3, PiecesType
<1>6. Range(Pieces(Lowered(s), sep)) = WordsIn(s)
  BY <1>1, <1>4, PiecesAreWords
<1> QED  BY <1>2, <1>5, <1>6 DEF s

(* The query behind its first equals sign is a text.                       *)
LEMMA BehindIsText ==
    ASSUME NEW q \in Seq(STRING)
    PROVE  Behind(q) \in Seq(STRING)
<1> DEFINE I == {i \in 1 .. Len(q) : q[i] = "="}
           p == SelectInSeq(q, LAMBDA c : c = "=")
<1>1. I = {} => p = 0
  BY DEF SelectInSeq
<1>2. I # {} => p \in 1 .. Len(q)
  <2> SUFFICES ASSUME I # {} PROVE p \in 1 .. Len(q)
    OBVIOUS
  <2>1. I \subseteq Nat
    OBVIOUS
  <2>2. PICK x \in I : \A j \in I : x <= j
    <3> HIDE DEF I
    <3> QED  BY <2>1, LeastMember
  <2>3. Min(I) = x
    <3> HIDE DEF I
    <3> QED  BY <2>1, <2>2, MinIs
  <2>4. p = Min(I)
    BY DEF SelectInSeq
  <2> QED  BY <2>2, <2>3, <2>4
<1>3. Behind(q) = SubSeq(q, p + 1, Len(q))
  BY DEF Behind
<1>4. p \in 0 .. Len(q)
  BY <1>1, <1>2
<1> HIDE DEF p
<1>5. \A i \in p + 1 .. Len(q) : q[i] \in STRING
  BY <1>4
<1> QED  BY <1>3, <1>4, <1>5, SubSeqProperties

(* SplitTerms finds the words of a query that has no other separators.     *)
LEMMA PlainTermsAreWords ==
    ASSUME NEW q \in Seq(STRING),
           {c \in Range(Behind(q)) : ~IsWordChar(c)} \subseteq {"+", "%20"}
    PROVE  /\ \E D : SplitTerms(q) \in Seq(D)
           /\ Range(SplitTerms(q)) = WordsIn(Behind(q))
<1> DEFINE s == Behind(q)
           sep == {"+", "%20"}
<1>1. s \in Seq(STRING)
  BY BehindIsText
<1>2. SplitTerms(q) = Pieces(Lowered(s), sep)
  BY DEF SplitTerms
<1>3. {c \in Range(s) : ~IsWordChar(c)} \subseteq sep
  OBVIOUS
<1> HIDE DEF s
<1>4. Lowered(s) \in Seq(STRING \cup DOMAIN Lower)
  BY <1>1, LoweredIs
<1>5. \A i \in 1 .. Len(s) : Lowered(s)[i] \in sep <=> ~IsWordChar(s[i])
  <2> TAKE i \in 1 .. Len(s)
  <2>1. Lowered(s)[i] = IF IsWordChar(s[i]) THEN Lower[s[i]] ELSE s[i]
    BY <1>1, LoweredIs
  <2>2. IsWordChar(s[i]) => Lower[s[i]] \in DOMAIN Lower
    BY LowerAssumption DEF IsWordChar
  <2>3. s[i] \in Range(s)
    BY <1>1 DEF Range
  <2>4. DOMAIN Lower \cap sep = {}
    BY LowerAssumption
  <2> QED  BY <1>3, <2>1, <2>2, <2>3, <2>4 DEF IsWordChar
<1> HIDE DEF sep
<1>6. Pieces(Lowered(s), sep) \in Seq(Seq(STRING \cup DOMAIN Lower))
  BY <1>4, PiecesType
<1>7. Range(Pieces(Lowered(s), sep)) = WordsIn(s)
  BY <1>1, <1>5, PiecesAreWords
<1> QED  BY <1>2, <1>6, <1>7 DEF s

(* The documents that match are those with every term among their tokens.  *)
LEMMA CountsAreWords ==
    ASSUME NEW d \in Docs, NEW word
    PROVE  Count(word, d) > 0 <=> word \in Range(Tokens[d])
<1> DEFINE l == Tokens[d]
           I == {i \in DOMAIN l : l[i] = word}
<1>1. PICK D : l \in Seq(D)
  BY TokensAreWords
<1> HIDE DEF l
<1>2. I \subseteq 1 .. Len(l) /\ Len(l) \in Nat
  BY <1>1
<1>3. IsFiniteSet(I)
  <2>1. IsFiniteSet(1 .. Len(l))
    BY <1>2, FS_Interval
  <2> QED  BY <1>2, <2>1, FS_Subset
<1>4. Cardinality(I) \in Nat /\ (Cardinality(I) = 0 <=> I = {})
  BY <1>3, FS_CardinalityType, FS_EmptySet
<1>5. Count(word, d) = Cardinality(I)
  BY DEF Count, l
<1>6. I # {} <=> word \in Range(l)
  BY DEF Range
<1> HIDE DEF I
<1>7. Cardinality(I) > 0 <=> I # {}
  BY <1>4
<1> QED  BY <1>5, <1>6, <1>7 DEF l

(* SearchAndRank lists every match once.                                   *)
LEMMA RankedAreMatches ==
    ASSUME NEW terms_, terms_ # <<>>, NEW l \in SearchAndRank(terms_)
    PROVE  l \in Seq(Docs) /\ IsInjective(l) /\ Range(l) = Matches(terms_)
<1> DEFINE score == [d \in Matches(terms_) |->
                        MapThenSumSet(LAMBDA i : Count(terms_[i], d), DOMAIN terms_)]
<1>1. l \in Rankings(score)
  BY DEF SearchAndRank
<1>2. DOMAIN score = Matches(terms_) /\ Matches(terms_) \subseteq Docs
  BY DEF Matches
<1> HIDE DEF score
<1>3. Lists(l, Matches(terms_))
  BY <1>1, <1>2, RankingsAreSorted
<1> QED  BY <1>2, <1>3 DEF Lists

(* So such a query matches the documents that have all its words.          *)
LEMMA PlainMatches ==
    ASSUME NEW q \in Seq(STRING),
           {c \in Range(Behind(q)) : ~IsWordChar(c)} \subseteq {"+", "%20"}
    PROVE  Matches(SplitTerms(q)) = {d \in Docs : WordsIn(Behind(q)) \subseteq WordsIn(Text[d])}
<1> DEFINE t == SplitTerms(q)
<1>1. Range(t) = WordsIn(Behind(q))
  BY PlainTermsAreWords
<1> HIDE DEF t
<1>2. ASSUME NEW d \in Docs
      PROVE  (\A i \in DOMAIN t : Count(t[i], d) > 0) <=> Range(t) \subseteq Range(Tokens[d])
  <2>1. \A i \in DOMAIN t : Count(t[i], d) > 0 <=> t[i] \in Range(Tokens[d])
    BY CountsAreWords
  <2> QED  BY <2>1 DEF Range
<1>3. \A d \in Docs : Range(Tokens[d]) = WordsIn(Text[d])
  BY TokensAreWords
<1>4. Matches(t) = {d \in Docs : Range(t) \subseteq WordsIn(Text[d])}
  BY <1>2, <1>3 DEF Matches
<1> QED  BY <1>1, <1>4 DEF t

-----------------------------------------------------------------------------
(* The invariant of a search.  What the service has sent of its reply is a *)
(* cut of it; each of the worker's locals is empty until its step.         *)
ReplyGood(k, r) ==
    \/ r = <<Error>>
    \/ k = "search" /\ NamesDocs(r)
    \/ k = "ask" /\ (r = <<>> \/ GivesAnswer(r))

QueryInv ==
    /\ api \in {"idle", "empty", "scan", "call", "await", "hear", "merge", "done"}
    /\ kind \in {"search", "ask"}
    /\ IF api = "idle" THEN kind = "search" /\ query = <<>> /\ terms = <<>>
       ELSE query \in Queries /\ terms = SplitTerms(query)
    /\ api \notin {"idle", "empty"} => terms # <<>>
    /\ api = "scan" => kind = "search"

RankInv ==
    IF kind = "search" /\ api \in {"call", "await", "hear", "merge", "done"}
    THEN bm25 \in SearchAndRank(terms)
    ELSE bm25 = <<>>

ReplyInv ==
    /\ api \notin {"hear", "merge"} => reply = <<>>
    /\ api \in {"hear", "merge"} => reply = <<>> \/ ReplyGood(kind, reply)
    /\ api \notin {"merge", "done"} => heard = <<>>
    /\ api = "merge" => CutOf(heard, reply)
    /\ heard \in Seq(Lines)

MergeInv ==
    IF api = "done"
    THEN hybrid \in IF kind = "search" THEN RrfMerge(bm25, Semantic) ELSE {<<>>}
    ELSE hybrid = <<>>

ApiInv == QueryInv /\ RankInv /\ ReplyInv /\ MergeInv

(* What the service may reply is of the form that is asked for.            *)
LEMMA RepliesAreGood ==
    ASSUME kind \in {"search", "ask"}, NEW r \in Replies
    PROVE  ReplyGood(kind, r)
<1>1. CASE r = <<Error>>
  BY <1>1 DEF ReplyGood
<1>2. CASE kind = "search" /\ r \in BoundedSeq(Docs, MaxHits)
  <2>1. PICK m \in 0 .. MaxHits : r \in [1 .. m -> Docs]
    BY <1>2 DEF BoundedSeq, SeqOf
  <2>2. m \in Nat
    BY SearchApiAssumption
  <2>3. r \in Seq(Docs)
    BY <2>1, <2>2
  <2> QED  BY <1>2, <2>3 DEF ReplyGood, NamesDocs
<1>3. CASE kind = "ask" /\ r \in {<<Answer, Sources>> \o s : s \in SetToAllKPermutations(Docs)}
  <2>1. PICK s \in SetToAllKPermutations(Docs) : r = <<Answer, Sources>> \o s
    BY <1>3
  <2>2. PICK D \in SUBSET Docs : s \in SetToSeqs(D)
    BY DEF SetToAllKPermutations
  <2>3. IsFiniteSet(D)
    BY RankingAssumption, FS_Subset
  <2>4. s \in Seq(D)
    BY <2>2, <2>3, SeqsOfSet DEF Lists
  <2>5. s \in Seq(Docs)
    BY <2>4
  <2> QED  BY <1>3, <2>1, <2>5 DEF ReplyGood, GivesAnswer
<1> QED  BY <1>1, <1>2, <1>3 DEF Replies

(* Such a reply is a list of lines.                                        *)
LEMMA GoodRepliesAreLines ==
    ASSUME NEW k \in {"search", "ask"}, NEW r, r = <<>> \/ ReplyGood(k, r)
    PROVE  r \in Seq(Lines)
<1>1. CASE r = <<>>
  BY <1>1
<1>2. CASE r = <<Error>>
  BY <1>2, LinesDiffer
<1>3. CASE NamesDocs(r)
  <2>1. Docs \subseteq Lines
    BY LinesDiffer
  <2> QED  BY <1>3, <2>1 DEF NamesDocs
<1>4. CASE GivesAnswer(r)
  <2>1. PICK s \in Seq(Docs) : r = <<Answer, Sources>> \o s
    BY <1>4 DEF GivesAnswer
  <2>2. s \in Seq(Lines) /\ <<Answer, Sources>> \in Seq(Lines)
    BY LinesDiffer
  <2> QED  BY <2>1, <2>2
<1> QED  BY <1>1, <1>2, <1>3, <1>4 DEF ReplyGood

(* No search is on at first.                                               *)
LEMMA ApiStarts == ApiInit => ApiInv
BY DEF ApiInit, ApiInv, QueryInv, RankInv, ReplyInv, MergeInv

(* A process that ends takes its searches with it.                         *)
LEMMA ApiForgets == Forget => ApiInv'
BY DEF Forget, ApiInv, QueryInv, RankInv, ReplyInv, MergeInv

(* The invariant speaks of the search's own variables only.                *)
LEMMA ApiStutters == ApiInv /\ UNCHANGED apiVars => ApiInv'
BY DEF apiVars, ApiInv, QueryInv, RankInv, ReplyInv, MergeInv, Semantic

(* A search begins with nothing found.                                     *)
LEMMA ApiBegins ==
    ASSUME ApiInv, NEW k \in {"search", "ask"}, NEW q \in Queries, BeginSearch(k, q)
    PROVE  ApiInv'
<1> USE DEF ApiInv, BeginSearch
<1>1. QueryInv'
  BY DEF QueryInv
<1>2. RankInv'
  BY DEF RankInv
<1>3. ReplyInv'
  BY DEF ReplyInv
<1>4. MergeInv'
  BY DEF MergeInv
<1> QED  BY <1>1, <1>2, <1>3, <1>4

(* The inverted index ranks what it finds.                                 *)
LEMMA ApiScans == ASSUME ApiInv, Scan PROVE ApiInv'
<1> USE DEF ApiInv, Scan
<1>1. QueryInv'
  BY DEF QueryInv
<1>2. RankInv'
  BY DEF RankInv, QueryInv
<1>3. ReplyInv'
  BY DEF ReplyInv
<1>4. MergeInv'
  BY DEF MergeInv
<1> QED  BY <1>1, <1>2, <1>3, <1>4

(* VectorClient connects and asks, or finds nobody there.                  *)
LEMMA ApiCalls == ASSUME ApiInv, Call PROVE ApiInv'
<1> USE DEF ApiInv, Call
<1>1. QueryInv'
  BY DEF QueryInv
<1>2. RankInv'
  BY DEF RankInv
<1>3. ReplyInv'
  <2>1. CutOf(<<>>, <<>>)
    <3>1. <<>> \in Seq(Lines)
      OBVIOUS
    <3> QED  BY <3>1, CutsAreCuts
  <2>2. reply = <<>> /\ heard = <<>> /\ reply' = <<>> /\ heard' = <<>>
    BY DEF ReplyInv
  <2> QED  BY <2>1, <2>2 DEF ReplyInv
<1>4. MergeInv'
  BY DEF MergeInv
<1> QED  BY <1>1, <1>2, <1>3, <1>4

(* The service replies, and some of the reply arrives.                     *)
LEMMA ApiIsReplied == ASSUME ApiInv, ServiceReplies PROVE ApiInv'
<1> USE DEF ApiInv, ServiceReplies
<1>1. QueryInv'
  BY DEF QueryInv
<1>2. RankInv'
  BY DEF RankInv
<1>3. ReplyInv'
  <2>1. ReplyGood(kind, reply')
    BY RepliesAreGood DEF QueryInv
  <2> QED  BY <2>1 DEF ReplyInv
<1>4. MergeInv'
  BY DEF MergeInv
<1> QED  BY <1>1, <1>2, <1>3, <1>4

(* The three ways in which listening ends.                                 *)
LEMMA ApiListens == ASSUME ApiInv, Hear \/ HearCut \/ Silence PROVE ApiInv'
<1>1. /\ api \in {"await", "hear"} /\ api' = "merge"
      /\ UNCHANGED <<kind, query, terms, bm25, reply, hybrid>>
  BY DEF Hear, HearCut, Silence
<1>2. reply \in Seq(Lines)
  BY GoodRepliesAreLines DEF ApiInv, ReplyInv, QueryInv
<1>3. CutOf(heard', reply)
  <2>1. CASE Hear
    BY <1>2, <2>1, CutsAreCuts DEF Hear
  <2>2. CASE HearCut
    <3>1. PICK k \in 0 .. Len(reply) - 1 :
            heard' = SubSeq(reply, 1, k) \/ heard' = Append(SubSeq(reply, 1, k), Part)
      BY <2>2 DEF HearCut
    <3> QED  BY <1>2, <3>1, CutsAreCuts
  <2>3. CASE Silence
    <3>1. heard' = <<>>
      BY <1>1, <2>3 DEF Silence, ApiInv, ReplyInv
    <3> QED  BY <1>2, <3>1, CutsAreCuts
  <2> QED  BY <2>1, <2>2, <2>3
<1>4. QueryInv'
  BY <1>1 DEF ApiInv, QueryInv
<1>5. RankInv'
  BY <1>1 DEF ApiInv, RankInv
<1>6. ReplyInv'
  <2>1. heard' \in Seq(Lines) /\ CutOf(heard', reply')
    BY <1>1, <1>3 DEF CutOf
  <2>2. reply = <<>> \/ ReplyGood(kind, reply)
    BY <1>1 DEF ApiInv, ReplyInv
  <2> QED  BY <1>1, <2>1, <2>2 DEF ReplyInv
<1>7. MergeInv'
  BY <1>1 DEF ApiInv, MergeInv
<1> QED  BY <1>4, <1>5, <1>6, <1>7 DEF ApiInv

(* HandleGetRequest merges the two lists.                                  *)
LEMMA ApiMerges == ASSUME ApiInv, Merge PROVE ApiInv'
<1> USE DEF ApiInv, Merge
<1>1. QueryInv'
  BY DEF QueryInv
<1>2. RankInv'
  BY DEF RankInv
<1>3. ReplyInv'
  BY DEF ReplyInv
<1>4. MergeInv'
  BY DEF MergeInv, Semantic
<1> QED  BY <1>1, <1>2, <1>3, <1>4

(* Each of the steps of HandleGetRequest keeps the invariant.              *)
LEMMA ApiSteps == ASSUME ApiInv, ApiStep \/ ServiceReplies PROVE ApiInv'
BY ApiScans, ApiCalls, ApiIsReplied, ApiListens, ApiMerges DEF ApiStep

-----------------------------------------------------------------------------
(* What the invariant says of a search.                                    *)
LEMMA RankedList ==
    ASSUME ApiInv
    PROVE  bm25 \in Seq(Docs) /\ IsInjective(bm25)
<1>1. CASE kind = "search" /\ api \in {"call", "await", "hear", "merge", "done"}
  <2>1. terms # <<>> /\ bm25 \in SearchAndRank(terms)
    BY <1>1 DEF ApiInv, QueryInv, RankInv
  <2> QED  BY <2>1, RankedAreMatches
<1>2. CASE ~(kind = "search" /\ api \in {"call", "await", "hear", "merge", "done"})
  <2>1. bm25 = <<>>
    BY <1>2 DEF ApiInv, RankInv
  <2> QED  BY <2>1 DEF IsInjective
<1> QED  BY <1>1, <1>2

(* What VectorClient makes of a reply is a list of documents.              *)
LEMMA SemanticIsList == ASSUME ApiInv PROVE Semantic \in Seq(Docs)
<1>1. Kept(heard, Docs) \in Seq(Docs)
  BY KeptType DEF ApiInv, ReplyInv
<1> QED  BY <1>1 DEF Semantic, ParseTsv

(* What a search has found is the merge of both lists.                     *)
LEMMA FoundIsMerged ==
    ASSUME ApiInv, Found
    PROVE  Merged(bm25, Semantic, hybrid)
BY RankedList, SemanticIsList DEF ApiInv, MergeInv, Found, Merged

(* The variables have their types.                                         *)
LEMMA ApiTyped == ApiInv => ApiTypeOK
<1> SUFFICES ASSUME ApiInv PROVE ApiTypeOK
  OBVIOUS
<1>1. hybrid \in Seq(Docs) /\ IsInjective(hybrid)
  <2>1. CASE api = "done" /\ kind = "search"
    <3>1. Found
      BY <2>1 DEF Found
    <3> QED  BY <3>1, FoundIsMerged, MergeLists
  <2>2. CASE ~(api = "done" /\ kind = "search")
    <3>1. hybrid = <<>>
      BY <2>2 DEF ApiInv, MergeInv, QueryInv
    <3> QED  BY <3>1 DEF IsInjective
  <2> QED  BY <2>1, <2>2
<1>2. \A l \in {bm25, hybrid} : l \in Seq(Docs) /\ IsInjective(l)
  BY <1>1, RankedList
<1> QED  BY <1>2 DEF ApiTypeOK, ApiInv, QueryInv, ReplyInv

(* Without documents from the service the merge is the BM25 ranking.       *)
LEMMA ApiKeepsBm25 == ApiInv => HybridWithoutServiceIsBm25
<1> SUFFICES ASSUME ApiInv, Found, Semantic = <<>> PROVE hybrid = bm25
  BY DEF HybridWithoutServiceIsBm25
<1>1. Merged(bm25, <<>>, hybrid)
  BY FoundIsMerged
<1> QED  BY <1>1, MergeAlone

(* What both rankings order one way the answer orders that way.            *)
LEMMA ApiAgrees == ApiInv => FusionRespectsAgreement
<1> SUFFICES ASSUME ApiInv, Found
             PROVE  /\ Range(hybrid) = Range(bm25) \cup Range(Semantic)
                    /\ IsInjective(Semantic) =>
                        \A d, e \in Range(bm25) :
                            Before(bm25, d, e) /\ Before(Semantic, d, e) => Before(hybrid, d, e)
  BY DEF FusionRespectsAgreement
<1>1. Merged(bm25, Semantic, hybrid)
  BY FoundIsMerged
<1>2. Range(hybrid) = Range(bm25) \cup Range(Semantic)
  BY <1>1, MergeLists
<1>3. ASSUME IsInjective(Semantic), NEW d \in Range(bm25), NEW e \in Range(bm25),
             Before(bm25, d, e), Before(Semantic, d, e)
      PROVE  Before(hybrid, d, e)
  BY <1>1, <1>3, MergeAgrees
<1> QED  BY <1>2, <1>3

(* With at most 61 documents those found twice come first.                 *)
LEMMA ApiPutsBothFirst ==
    Cardinality(Docs) <= 61 /\ ApiInv => FoundTwiceComesFirst
<1> SUFFICES ASSUME Cardinality(Docs) <= 61, ApiInv, Found, IsInjective(Semantic),
                    NEW d \in Range(bm25) \cap Range(Semantic),
                    NEW e \in Range(hybrid) \ (Range(bm25) \cap Range(Semantic))
             PROVE  Before(hybrid, d, e)
  BY DEF FoundTwiceComesFirst
<1>1. Merged(bm25, Semantic, hybrid)
  BY FoundIsMerged
<1>2. Range(hybrid) = Range(bm25) \cup Range(Semantic)
  BY <1>1, MergeLists
<1> QED  BY <1>1, <1>2, MergeTwice

(* A query of plain words finds the documents that have them.              *)
LEMMA ApiFindsWords == ApiInv => PlainWordsFindTheirDocuments
<1> SUFFICES ASSUME ApiInv, api = "call", kind = "search",
                    {c \in Range(Behind(query)) : ~IsWordChar(c)} \subseteq {"+", "%20"}
             PROVE  Range(bm25) =
                      {d \in Docs : WordsIn(Behind(query)) \subseteq WordsIn(Text[d])}
  BY DEF PlainWordsFindTheirDocuments
<1>1. /\ query \in Seq(STRING) /\ terms = SplitTerms(query) /\ terms # <<>>
      /\ bm25 \in SearchAndRank(terms)
  BY SearchApiAssumption DEF ApiInv, QueryInv, RankInv
<1>2. Range(bm25) = Matches(SplitTerms(query))
  BY <1>1, RankedAreMatches
<1> QED  BY <1>1, <1>2, PlainMatches

(* A reply that breaks off only loses its end.                             *)
LEMMA ApiLoses == ApiInv => BrokenRepliesOnlyLose
<1> SUFFICES ASSUME ApiInv, api = "merge"
             PROVE  /\ IsPrefix(Semantic, reply)
                    /\ IsPrefix(Kept(SourcesOf(heard), Lines \ {Part}), SourcesOf(reply))
  BY DEF BrokenRepliesOnlyLose
<1>1. /\ kind \in {"search", "ask"} /\ CutOf(heard, reply)
      /\ reply = <<>> \/ ReplyGood(kind, reply)
  BY DEF ApiInv, QueryInv, ReplyInv
<1>2. reply \in Seq(Lines)
  BY <1>1, GoodRepliesAreLines
<1>3. kind = "ask" => IsPrefix(Semantic, reply)
  <2>1. kind = "ask" => Semantic = <<>>
    BY DEF Semantic
  <2> QED  BY <1>2, <2>1, EmptyIsPrefix
<1>4. CASE reply = <<Error>> \/ NamesDocs(reply)
  <2>1. /\ IsPrefix(Kept(heard, Docs), reply)
        /\ SourcesOf(heard) = <<>> /\ SourcesOf(reply) = <<>>
    BY <1>1, <1>4, HitsOnlyLost
  <2>2. Kept(<<>>, Lines \ {Part}) = <<>>
    <3>1. <<>> \in Seq(Lines) /\ \A S : \A i \in 1 .. Len(<<>>) : <<>>[i] \notin S
      OBVIOUS
    <3> QED  BY <3>1, NothingKept
  <2>3. IsPrefix(<<>>, <<>>)
    BY DEF IsPrefix
  <2> QED  BY <1>1, <1>3, <2>1, <2>2, <2>3 DEF Semantic, ParseTsv
<1>5. CASE kind = "ask" /\ GivesAnswer(reply)
  BY <1>1, <1>3, <1>5, SourcesOnlyLost
<1>6. reply = <<>> => NamesDocs(reply)
  BY DEF NamesDocs
<1> QED  BY <1>1, <1>4, <1>5, <1>6 DEF ReplyGood
=============================================================================
