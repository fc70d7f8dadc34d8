------------------------------ MODULE Induction -----------------------------
(***************************************************************************)
(* Induction over the naturals for sets.  The library's theorems take the  *)
(* property to be proved as an operator, which the provers do not          *)
(* instantiate; here it is the set of the numbers that have it, and the    *)
(* principle follows from the well-foundedness of < on Nat.                *)
(***************************************************************************)
EXTENDS Naturals, WellFoundedInduction, TLAPS

(* Every set of naturals that is not empty has a least member.             *)
LEMMA LeastMember ==
    ASSUME NEW T, T \subseteq Nat, T # {}
    PROVE  \E x \in T : \A y \in T : x <= y
<1> DEFINE R == OpToRel(<, Nat)
<1>1. IsWellFoundedOn(R, Nat)
  BY NatLessThanWellFounded, Zenon
<1>2. \A x, y \in Nat : y < x => <<y, x>> \in R
  BY SMT DEF OpToRel
<1> HIDE DEF R
<1>3. PICK x \in T : \A y \in T : ~(<<y, x>> \in R)
  BY <1>1, WFMin
<1>4. \A y \in T : ~(y < x)
  BY <1>2, <1>3
<1>5. \A y \in T : x <= y
  BY <1>4, <1>3, SMT
<1> QED BY <1>5

(* A set of naturals that holds 0 and, with a number, its successor, holds *)
(* them all.                                                               *)
LEMMA SetInduction ==
    ASSUME NEW T, T \subseteq Nat, 0 \in T, \A n \in T : n + 1 \in T
    PROVE  T = Nat
<1>1. SUFFICES ASSUME Nat \ T # {} PROVE FALSE
  OBVIOUS
<1>2. PICK x \in Nat \ T : \A y \in Nat \ T : x <= y
  BY <1>1, LeastMember
<1>3. x # 0 /\ x - 1 \in Nat /\ x - 1 < x
  BY <1>2, SMT
<1>4. x - 1 \in T
  BY <1>2, <1>3, SMT
<1>5. (x - 1) + 1 = x
  BY <1>2
<1> QED BY <1>2, <1>4, <1>5

(* The same up to a bound.                                                 *)
LEMMA BoundedInduction ==
    ASSUME NEW m \in Nat, NEW T, 0 \in T,
           \A n \in 0 .. m : n \in T /\ n < m => n + 1 \in T
    PROVE  \A n \in 0 .. m : n \in T
<1> DEFINE U == {n \in Nat : n <= m => n \in T}
<1>1. 0 \in U
  OBVIOUS
<1>2. \A n \in U : n + 1 \in U
  <2>1. TAKE n \in U
  <2>2. n \in Nat /\ n + 1 \in Nat
    OBVIOUS
  <2>3. n + 1 <= m => n <= m /\ n < m /\ n \in 0 .. m
    BY <2>2, SMT
  <2> QED BY <2>2, <2>3
<1>3. U = Nat
  <2>1. U \subseteq Nat
    OBVIOUS
  <2> HIDE DEF U
  <2> QED BY <1>1, <1>2, <2>1, SetInduction
<1> QED BY <1>3, SMT

(* A set of naturals with a bound that is not empty has a greatest member. *)
LEMMA GreatestMember ==
    ASSUME NEW m \in Nat, NEW T, T \subseteq 0 .. m, T # {}
    PROVE  \E x \in T : \A y \in T : x >= y
<1> DEFINE U == {m - x : x \in T}
<1>1. U \subseteq Nat /\ U # {}
  <2>1. \A x \in T : m - x \in Nat
    BY SMT
  <2>2. PICK x \in T : TRUE
    OBVIOUS
  <2>3. m - x \in U
    BY <2>2
  <2> QED  BY <2>1, <2>3
<1>2. PICK u \in U : \A v \in U : u <= v
  <2> HIDE DEF U
  <2> QED  BY <1>1, LeastMember
<1>3. PICK x \in T : u = m - x
  BY <1>2
<1>4. ASSUME NEW y \in T PROVE x >= y
  <2>1. m - x <= m - y
    BY <1>2, <1>3
  <2> QED  BY <2>1, <1>3
<1> QED  BY <1>4

(* A function on 0 .. m may be defined by recursion: it is b at 0, then    *)
(* what the step g makes of the value before.                              *)
StepsOn(m, S) == [1 .. m -> [S -> S]]

LEMMA Recursion ==
    ASSUME NEW m \in Nat, NEW S, NEW b \in S, NEW g \in StepsOn(m, S)
    PROVE  \E f \in [0 .. m -> S] :
             f[0] = b /\ \A n \in 1 .. m : f[n] = g[n][f[n - 1]]
<1>0. g \in [1 .. m -> [S -> S]]
  BY DEF StepsOn
<1> DEFINE Upto(n, f) == f[0] = b /\ \A i \in 1 .. n : f[i] = g[i][f[i - 1]]
           T == {n \in 0 .. m : \E f \in [0 .. n -> S] : Upto(n, f)}
<1>1. 0 \in T
  <2> DEFINE h == [i \in 0 .. 0 |-> b]
  <2>1. h \in [0 .. 0 -> S] /\ Upto(0, h)
    OBVIOUS
  <2>2. 0 \in 0 .. m
    OBVIOUS
  <2> HIDE DEF h, Upto
  <2> QED  BY <2>1, <2>2
<1>2. ASSUME NEW n \in 0 .. m, n \in T, n < m PROVE n + 1 \in T
  <2>1. PICK f \in [0 .. n -> S] : Upto(n, f)
    BY <1>2
  <2> DEFINE h == [i \in 0 .. n + 1 |->
                    IF i = n + 1 THEN g[n + 1][f[n]] ELSE f[i]]
  <2>2. n + 1 \in 1 .. m /\ f[n] \in S
    BY <1>2
  <2>3. h \in [0 .. n + 1 -> S]
    BY <2>2, <1>0
  <2>4. ASSUME NEW i \in 1 .. n + 1 PROVE h[i] = g[i][h[i - 1]]
    <3>1. CASE i = n + 1
      <4>1. h[i] = g[n + 1][f[n]] /\ h[i - 1] = f[n]
        BY <3>1
      <4> QED  BY <3>1, <4>1
    <3>2. CASE i # n + 1
      <4>1. i \in 1 .. n /\ h[i] = f[i] /\ h[i - 1] = f[i - 1]
        BY <3>2
      <4>2. f[i] = g[i][f[i - 1]]
        BY <2>1, <4>1
      <4> QED  BY <4>1, <4>2
    <3> QED  BY <3>1, <3>2
  <2>5. Upto(n + 1, h)
    <3>1. h[0] = b
      BY <2>1
    <3> HIDE DEF h
    <3> QED  BY <2>4, <3>1
  <2> HIDE DEF h, Upto
  <2> QED  BY <2>2, <2>3, <2>5
<1>3. \A n \in 0 .. m : n \in T
  <2> HIDE DEF T
  <2> QED  BY <1>1, <1>2, BoundedInduction
<1>4. m \in T
  <2> HIDE DEF T
  <2> QED  BY <1>3
<1>5. PICK f \in [0 .. m -> S] : Upto(m, f)
  BY <1>4
<1> QED  BY <1>5
(* What holds of b, and of what a step makes of a value of which it holds, *)
(* holds everywhere.                                                       *)
LEMMA StaysIn ==
    ASSUME NEW m \in Nat, NEW S, NEW k, k[0] \in S,
           \A n \in 1 .. m : k[n - 1] \in S => k[n] \in S
    PROVE  \A n \in 0 .. m : k[n] \in S
<1> DEFINE T == {n \in 0 .. m : k[n] \in S}
<1>1. 0 \in T
  OBVIOUS
<1>2. ASSUME NEW n \in 0 .. m, n \in T, n < m PROVE n + 1 \in T
  <2>1. n + 1 \in 1 .. m /\ n + 1 \in 0 .. m /\ (n + 1) - 1 = n
    BY <1>2
  <2> QED  BY <2>1, <1>2
<1> HIDE DEF T
<1>3. \A n \in 0 .. m : n \in T
  BY <1>1, <1>2, BoundedInduction
<1> QED  BY <1>3 DEF T

(* A map of 1 .. n to itself that is strictly increasing is the identity.  *)
LEMMA IncreasingIsIdentity ==
    ASSUME NEW n \in Nat, NEW p \in [1 .. n -> 1 .. n],
           \A i, j \in 1 .. n : i < j => p[i] < p[j]
    PROVE  \A i \in 1 .. n : p[i] = i
<1> DEFINE Up == {i \in 0 .. n : i > 0 => p[i] >= i}
           Down == {i \in 0 .. n : i < n => p[n - i] <= n - i}
<1>1. 0 \in Up /\ 0 \in Down
  OBVIOUS
<1>2. ASSUME NEW i \in 0 .. n, i \in Up, i < n PROVE i + 1 \in Up
  <2>1. i + 1 \in 1 .. n
    BY <1>2
  <2>2. p[i + 1] \in 1 .. n
    BY <2>1
  <2>3. CASE i > 0
    <3>1. p[i] < p[i + 1] /\ p[i] >= i /\ p[i] \in 1 .. n
      BY <1>2, <2>1, <2>3
    <3> QED  BY <2>1, <2>2, <3>1
  <2>4. CASE i = 0
    BY <2>1, <2>2, <2>4
  <2> QED  BY <1>2, <2>3, <2>4
<1>3. ASSUME NEW i \in 0 .. n, i \in Down, i < n PROVE i + 1 \in Down
  <2>1. CASE i + 1 < n
    <3>1. n - i \in 1 .. n /\ n - (i + 1) \in 1 .. n /\ n - (i + 1) < n - i
      BY <1>3, <2>1
    <3>2. p[n - (i + 1)] < p[n - i] /\ p[n - (i + 1)] \in Int /\ p[n - i] \in Int
      BY <3>1
    <3>3. p[n - i] <= n - i
      BY <1>3
    <3>4. p[n - (i + 1)] <= n - (i + 1)
      BY <1>3, <3>2, <3>3
    <3> QED  BY <1>3, <3>4
  <2>2. CASE ~(i + 1 < n)
    BY <1>3, <2>2
  <2> QED  BY <2>1, <2>2
<1>4. \A i \in 0 .. n : i \in Up
  <2> HIDE DEF Up, Down
  <2> QED  BY <1>1, <1>2, BoundedInduction
<1>5. \A i \in 0 .. n : i \in Down
  <2> HIDE DEF Up, Down
  <2> QED  BY <1>1, <1>3, BoundedInduction
<1>6. ASSUME NEW i \in 1 .. n PROVE p[i] = i
  <2>1. i \in 0 .. n /\ n - i \in 0 .. n /\ n - (n - i) = i /\ n - i < n /\ i > 0
    OBVIOUS
  <2>2. p[i] >= i
    BY <1>4, <2>1
  <2>3. p[n - (n - i)] <= n - (n - i)
    BY <1>5, <2>1
  <2>4. p[i] \in Int
    OBVIOUS
  <2> QED  BY <2>1, <2>2, <2>3, <2>4
<1> QED  BY <1>6

(* The same, with a name for what the function does.                       *)
Follows(f, m, S, b, g) ==
    f \in [0 .. m -> S] /\ f[0] = b /\ \A n \in 1 .. m : f[n] = g[n][f[n - 1]]

LEMMA StepsFollow ==
    ASSUME NEW m \in Nat, NEW S, NEW b \in S, NEW g \in StepsOn(m, S)
    PROVE  \E f : Follows(f, m, S, b, g)
<1>1. PICK f \in [0 .. m -> S] : f[0] = b /\ \A n \in 1 .. m : f[n] = g[n][f[n - 1]]
  BY Recursion
<1> QED  BY <1>1 DEF Follows
=============================================================================
