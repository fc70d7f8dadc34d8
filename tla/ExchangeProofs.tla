--------------------------- MODULE ExchangeProofs ---------------------------
(***************************************************************************)
(* Proofs about Exchange, for every set of requests, documents and bounds: *)
(* what the user is told agrees with what the server stores, the handler   *)
(* gets the body that was sent, only a few things end the server, and the  *)
(* properties of SearchApi hold in every exchange.  The inductive          *)
(* invariant is IInv; NextIsSteps draws the ends of the process together,  *)
(* and for each part of IInv there is one lemma with one case per action.  *)
(***************************************************************************)
EXTENDS Exchange, SearchApiProofs

-----------------------------------------------------------------------------
(* std::stoul: the first character that is no space, and what the digits   *)
(* from there on make.                                                     *)
LEMMA MaxIs ==
    ASSUME NEW I, I \subseteq Nat, NEW p \in I, \A j \in I : j <= p
    PROVE  Max(I) = p
<1>1. Max(I) \in I /\ \A j \in I : Max(I) >= j
  BY DEF Max
<1>2. Max(I) <= p /\ p <= Max(I) /\ Max(I) \in Nat /\ p \in Nat
  BY <1>1
<1> QED  BY <1>2

Chars == STRING \cup Range(Digits) \cup {Space, "headers", "close", "page", "json"}

(* The ten digits are ten characters, none of them a space.                *)
LEMMA DigitsDiffer ==
    /\ Len(Digits) = 10 /\ Digits \in Seq(Range(Digits)) /\ Space \notin Range(Digits)
    /\ \A i, j \in 1 .. 10 : Digits[i] = Digits[j] => i = j
<1> DEFINE Z == {"0", "1", "2", "3", "4", "5", "6", "7", "8", "9"}
<1>1. DOMAIN Digits = 1 .. 10
  BY DEF Digits
<1>7. Digits \in Seq(Z)
  BY DEF Digits
<1> HIDE DEF Z
<1>2. \A i \in 1 .. 10 : i \in {1, 2, 3, 4, 5, 6, 7, 8, 9, 10}
  OBVIOUS
<1>3. \A i \in 1 .. 10 : Digits[i] # Space
  BY <1>2 DEF Digits, Space
<1>4. \A i, j \in 1 .. 10 : Digits[i] = Digits[j] => i = j
  BY <1>2 DEF Digits
<1>5. Len(Digits) = 10
  <2> DEFINE m == Len(Digits)
  <2>1. m \in Nat
    BY <1>7
  <2>4. DOMAIN Digits = 1 .. m
    BY <1>7
  <2> HIDE DEF m
  <2>3. 1 .. 10 = 1 .. m
    BY <1>1, <2>4, Zenon
  <2>2. m = 10
    BY <2>1, <2>3
  <2> QED  BY <2>2 DEF m
<1>6. Digits \in Seq(Range(Digits))
  <2> DEFINE R == Range(Digits)
  <2>1. \A i \in 1 .. 10 : Digits[i] \in R
    BY <1>1 DEF Range
  <2> HIDE DEF R
  <2> DEFINE n == Len(Digits)
  <2>3. n \in Nat /\ Digits = [i \in 1 .. n |-> Digits[i]] /\ 1 .. n = 1 .. 10
    BY <1>5, <1>7
  <2> HIDE DEF n
  <2>4. Digits \in [1 .. n -> R]
    BY <2>1, <2>3, Zenon
  <2>2. Digits \in Seq(R)
    BY <2>3, <2>4
  <2> QED  BY <2>2 DEF R
<1> QED  BY <1>1, <1>3, <1>4, <1>5, <1>6 DEF Range

(* The value of a digit is its place among them.                           *)
LEMMA DigitValueIs ==
    ASSUME NEW n \in 0 .. 9
    PROVE  Digits[n + 1] \in Range(Digits) /\ DigitValue[Digits[n + 1]] = n
<1> DEFINE c == Digits[n + 1]
           I == {i \in 1 .. Len(Digits) : Digits[i] = c}
<1>1. n + 1 \in 1 .. 10 /\ n + 1 \in 1 .. Len(Digits)
  BY DigitsDiffer
<1>2. I \subseteq Nat /\ n + 1 \in I /\ \A j \in I : n + 1 <= j
  BY <1>1, DigitsDiffer
<1>3. Min(I) = n + 1
  <2> HIDE DEF I
  <2> QED  BY <1>2, MinIs
<1>4. I # {}
  BY <1>2
<1>5. c \in Range(Digits)
  BY <1>1, DigitsDiffer DEF Range
<1>6. DigitValue[c] = SelectInSeq(Digits, LAMBDA d : d = c) - 1
  <2> HIDE DEF c
  <2> QED  BY <1>5 DEF DigitValue
<1>7. SelectInSeq(Digits, LAMBDA d : d = c) = n + 1
  BY <1>3, <1>4 DEF SelectInSeq
<1> QED  BY <1>5, <1>6, <1>7

(* It is a number.                                                         *)
LEMMA DigitValueType == \A c \in Range(Digits) : DigitValue[c] \in Int
<1> TAKE c \in Range(Digits)
<1>1. PICK i \in 1 .. 10 : c = Digits[i]
  BY DigitsDiffer DEF Range
<1>2. i - 1 \in 0 .. 9 /\ (i - 1) + 1 = i
  OBVIOUS
<1>3. DigitValue[Digits[(i - 1) + 1]] = i - 1
  BY <1>2, DigitValueIs
<1> QED  BY <1>1, <1>2, <1>3

(* The number starts at the first character that is no space.              *)
LEMMA NumberAtIs ==
    ASSUME NEW C, NEW s \in Seq(C), NEW p \in 1 .. Len(s), s[p] # Space,
           \A i \in 1 .. p - 1 : s[i] = Space
    PROVE  NumberAt(s) = p
<1> DEFINE I == {i \in 1 .. Len(s) : s[i] # Space}
<1>1. I \subseteq Nat /\ p \in I /\ \A j \in I : p <= j
  OBVIOUS
<1>2. Min(I) = p
  <2> HIDE DEF I
  <2> QED  BY <1>1, MinIs
<1>3. I # {}
  BY <1>1
<1> QED  BY <1>2, <1>3 DEF NumberAt, SelectInSeq

(* Where it starts is a place in the text or none.                         *)
LEMMA NumberAtType ==
    ASSUME NEW C, NEW s \in Seq(C), NumberAt(s) > 0
    PROVE  NumberAt(s) \in 1 .. Len(s)
<1> DEFINE I == {i \in 1 .. Len(s) : s[i] # Space}
<1>1. CASE I = {}
  <2>1. NumberAt(s) = 0
    BY <1>1 DEF NumberAt, SelectInSeq
  <2> QED  BY <2>1
<1>2. CASE I # {}
  <2>1. I \subseteq Nat
    OBVIOUS
  <2>2. PICK x \in I : \A j \in I : x <= j
    <3> HIDE DEF I
    <3> QED  BY <1>2, <2>1, LeastMember
  <2>3. Min(I) = x
    <3> HIDE DEF I
    <3> QED  BY <2>1, <2>2, MinIs
  <2>4. NumberAt(s) = Min(I)
    BY <1>2 DEF NumberAt, SelectInSeq
  <2> QED  BY <2>2, <2>3, <2>4
<1> QED  BY <1>1, <1>2

NumberStep(s, n, v) ==
    IF s[n] \in Range(Digits) THEN 10 * v + DigitValue[s[n]] ELSE v

NumberSet(s) == {j \in DOMAIN s : \A k \in NumberAt(s) .. j : s[k] \in Range(Digits)}

NumberRun(f, s) ==
    /\ f \in [0 .. Len(s) -> Int] /\ f[0] = 0
    /\ \A n \in 1 .. Len(s) : f[n] = NumberStep(s, n, f[n - 1])
    /\ Stoul(s) = f[Max(NumberSet(s))]

(* The recursive function of Stoul, one character at a time.               *)
LEMMA NumberSteps ==
    ASSUME NEW C, NEW s \in Seq(C)
    PROVE  \E f : NumberRun(f, s)
<1> DEFINE m == Len(s)
           V == Int
           b == 0
           K(h) == h = [n \in 0 .. m |-> IF n = 0 THEN b ELSE NumberStep(s, n, h[n - 1])]
           k == CHOOSE h : K(h)
           g == [n \in 1 .. m |-> [v \in V |-> NumberStep(s, n, v)]]
<1>1. m \in Nat /\ b \in V
  OBVIOUS
<1>2. \A n \in 1 .. m, v \in V : NumberStep(s, n, v) \in V
  <2> TAKE n \in 1 .. m, v \in V
  <2>1. s[n] \in Range(Digits) => DigitValue[s[n]] \in Int
    BY DigitValueType
  <2> QED  BY <2>1 DEF NumberStep
<1>3. Stoul(s) = k[Max(NumberSet(s))]
  BY Zenon DEF Stoul, NumberStep, NumberSet
<1> HIDE DEF m, V
<1>4. g \in StepsOn(m, V)
  BY <1>2 DEF StepsOn
<1>5. \A n \in 1 .. m, v \in V : g[n][v] = NumberStep(s, n, v)
  OBVIOUS
<1>6. PICK f : Follows(f, m, V, b, g)
  <2> HIDE DEF g, b
  <2> QED  BY <1>1, <1>4, StepsFollow
<1>6b. f \in [0 .. m -> V] /\ f[0] = b /\ \A n \in 1 .. m : f[n] = g[n][f[n - 1]]
  <2> HIDE DEF g, b
  <2> QED  BY <1>6 DEF Follows
<1> HIDE DEF g, b
<1>7. \A n \in 1 .. m : n - 1 \in 0 .. m /\ n # 0 /\ n \in 0 .. m
  BY <1>1
<1>8. \A n \in 1 .. m : f[n] = NumberStep(s, n, f[n - 1])
  BY <1>5, <1>6b, <1>7
<1>9. K(f)
  <2>1. \A n \in 0 .. m : n = 0 \/ n \in 1 .. m
    BY <1>1
  <2>2. f = [n \in 0 .. m |-> f[n]]
    BY <1>6b
  <2> QED  BY <1>6b, <1>8, <2>1, <2>2
<1>10. K(k)
  <2> HIDE DEF K
  <2> QED BY <1>9
<1>11. k[0] = b /\ \A n \in 1 .. m : k[n] = NumberStep(s, n, k[n - 1])
  <2> HIDE DEF k
  <2>1. 0 \in 0 .. m
    BY <1>1
  <2> QED  BY <1>10, <1>7, <2>1
<1>12. \A n \in 0 .. m : k[n] \in V
  <2>1. \A n \in 1 .. m : k[n - 1] \in V => k[n] \in V
    BY <1>2, <1>11
  <2> HIDE DEF k
  <2> QED  BY <1>1, <1>11, <2>1, StaysIn
<1>13. k = [n \in 0 .. m |-> k[n]]
  BY <1>10
<1>14. k \in [0 .. m -> V]
  BY <1>12, <1>13
<1> HIDE DEF k
<1> QED BY <1>14, <1>11, <1>3 DEF m, V, b, NumberRun

(* What std::stoul returns is a number.                                    *)
LEMMA StoulIsInt ==
    ASSUME NEW C, NEW s \in Seq(C), HasNumber(s)
    PROVE  Stoul(s) \in Int
<1> DEFINE T == NumberSet(s)
           p == NumberAt(s)
<1>1. p \in 1 .. Len(s) /\ s[p] \in Range(Digits)
  BY NumberAtType DEF HasNumber
<1>2. p \in T /\ T \subseteq 0 .. Len(s) /\ T \subseteq Nat
  <2>1. \A k \in p .. p : k = p
    BY <1>1
  <2>2. DOMAIN s = 1 .. Len(s)
    OBVIOUS
  <2> QED  BY <1>1, <2>1, <2>2 DEF NumberSet
<1> HIDE DEF T
<1>3. PICK q \in T : \A j \in T : q >= j
  <2>1. Len(s) \in Nat
    OBVIOUS
  <2> QED  BY <1>2, <2>1, GreatestMember
<1>4. Max(T) = q
  <2>1. \A j \in T : j <= q
    BY <1>2, <1>3
  <2> QED  BY <1>2, <2>1, MaxIs
<1>5. PICK f : NumberRun(f, s)
  BY NumberSteps
<1> QED  BY <1>2, <1>3, <1>4, <1>5 DEF NumberRun, T

(* One space in front changes nothing.                                     *)
LEMMA BehindSpace ==
    ASSUME NEW C, NEW s \in Seq(C), Len(s) > 1, s[1] = Space, s[2] # Space, HasNumber(s)
    PROVE  HasNumber(Tail(s)) /\ Stoul(Tail(s)) = Stoul(s)
<1> DEFINE t == Tail(s)
           n == Len(s)
           S == NumberSet(s)
           T == NumberSet(t)
<1>1. t \in Seq(C) /\ Len(t) = n - 1 /\ \A i \in 1 .. n - 1 : t[i] = s[i + 1]
  OBVIOUS
<1>2. n \in Nat /\ n > 1
  OBVIOUS
<1> HIDE DEF t
<1>3. NumberAt(s) = 2 /\ s[2] \in Range(Digits)
  <2>1. NumberAt(s) = 2
    <3>1. \A i \in 1 .. 2 - 1 : i = 1
      OBVIOUS
    <3>2. 2 \in 1 .. Len(s)
      OBVIOUS
    <3> QED  BY <3>1, <3>2, NumberAtIs
  <2> QED  BY <2>1 DEF HasNumber
<1>4. NumberAt(t) = 1 /\ t[1] = s[2]
  <2>1. 1 \in 1 .. Len(t) /\ t[1] = s[2]
    BY <1>1, <1>2
  <2>2. \A i \in 1 .. 1 - 1 : t[i] = Space
    OBVIOUS
  <2> QED  BY <1>1, <2>1, <2>2, NumberAtIs
<1>5. HasNumber(t)
  BY <1>3, <1>4 DEF HasNumber
<1>6. DOMAIN s = 1 .. n /\ DOMAIN t = 1 .. n - 1
  BY <1>1, <1>2
<1>7. 1 \in T /\ T \subseteq 0 .. n /\ T \subseteq Nat /\ S \subseteq Nat
  <2>1. \A k \in 1 .. 1 : k = 1
    OBVIOUS
  <2> QED  BY <1>2, <1>3, <1>4, <1>6, <2>1 DEF NumberSet
<1>8. PICK q \in T : \A j \in T : q >= j
  <2> HIDE DEF T
  <2> QED  BY <1>2, <1>7, GreatestMember
<1>9. q \in 1 .. n - 1 /\ \A k \in 1 .. q : t[k] \in Range(Digits)
  BY <1>4, <1>6, <1>8 DEF NumberSet
<1>10. Max(T) = q
  <2> HIDE DEF T
  <2>1. \A j \in T : j <= q
    BY <1>7, <1>8
  <2> QED  BY <1>7, <2>1, MaxIs
<1>11. q + 1 \in S
  <2>1. q + 1 \in 1 .. n
    BY <1>2, <1>9
  <2>2. ASSUME NEW k \in 2 .. q + 1 PROVE s[k] \in Range(Digits)
    <3>1. k - 1 \in 1 .. q /\ k - 1 \in 1 .. n - 1 /\ (k - 1) + 1 = k
      BY <1>2, <1>9
    <3> QED  BY <1>1, <1>9, <3>1
  <2> QED  BY <1>3, <1>6, <2>1, <2>2 DEF NumberSet
<1>12. ASSUME NEW j \in S PROVE j <= q + 1
  <2>1. j \in 1 .. n /\ \A k \in 2 .. j : s[k] \in Range(Digits)
    BY <1>3, <1>6 DEF NumberSet
  <2>2. CASE j = 1
    BY <1>9, <2>2
  <2>3. CASE j # 1
    <3>1. j - 1 \in 1 .. n - 1
      BY <1>2, <2>1, <2>3
    <3>2. ASSUME NEW k \in 1 .. j - 1 PROVE t[k] \in Range(Digits)
      <4>1. k + 1 \in 2 .. j /\ k \in 1 .. n - 1
        BY <2>1, <1>2
      <4> QED  BY <1>1, <2>1, <4>1
    <3>3. j - 1 \in T
      BY <1>4, <1>6, <3>1, <3>2 DEF NumberSet
    <3>4. j - 1 <= q
      BY <1>7, <1>8, <3>3
    <3> QED  BY <1>9, <2>1, <3>4
  <2> QED  BY <2>2, <2>3
<1>6b. Max(S) = q + 1
  <2> HIDE DEF S
  <2> QED  BY <1>7, <1>11, <1>12, MaxIs
<1>14. PICK f : NumberRun(f, s)
  BY NumberSteps
<1>15. PICK g : NumberRun(g, t)
  BY <1>1, NumberSteps
<1> HIDE DEF n, S, T
<1>16. /\ f[0] = 0 /\ f[0] \in Int /\ \A i \in 1 .. n : f[i] = NumberStep(s, i, f[i - 1])
       /\ Stoul(s) = f[q + 1]
  BY <1>6b, <1>14 DEF NumberRun, n, S
<1>17. /\ g[0] = 0 /\ \A i \in 1 .. n - 1 : g[i] = NumberStep(t, i, g[i - 1])
       /\ Stoul(t) = g[q]
  BY <1>1, <1>10, <1>15 DEF NumberRun, T
<1> DEFINE Q == {i \in 0 .. n - 1 : g[i] = f[i + 1]}
<1>18. 0 \in Q
  <2>1. f[1] = f[0]
    <3>1. 1 \in 1 .. n /\ 1 - 1 = 0
      BY <1>2
    <3>2. f[1] = NumberStep(s, 1, f[0])
      BY <1>16, <3>1
    <3> QED  BY <3>2, DigitsDiffer DEF NumberStep
  <2> QED  BY <1>2, <1>16, <1>17, <2>1
<1>19. ASSUME NEW i \in 0 .. n - 1, i \in Q, i < n - 1 PROVE i + 1 \in Q
  <2>1. i + 1 \in 1 .. n - 1 /\ (i + 1) - 1 = i /\ i + 1 \in 0 .. n - 1
    BY <1>2, <1>19
  <2>2. (i + 1) + 1 \in 1 .. n /\ ((i + 1) + 1) - 1 = i + 1
    BY <1>2, <1>19
  <2>3. g[i + 1] = NumberStep(t, i + 1, g[i])
    BY <1>17, <2>1
  <2>4. f[(i + 1) + 1] = NumberStep(s, (i + 1) + 1, f[i + 1])
    BY <1>16, <2>2
  <2>5. t[i + 1] = s[(i + 1) + 1] /\ g[i] = f[i + 1]
    BY <1>1, <1>19, <2>1
  <2>6. g[i + 1] = f[(i + 1) + 1]
    BY <2>3, <2>4, <2>5 DEF NumberStep
  <2> QED  BY <2>1, <2>6
<1>20. \A i \in 0 .. n - 1 : i \in Q
  <2>1. n - 1 \in Nat
    BY <1>2
  <2> HIDE DEF Q
  <2> QED  BY <1>18, <1>19, <2>1, BoundedInduction
<1>21. g[q] = f[q + 1]
  <2>1. q \in 0 .. n - 1
    BY <1>9
  <2> QED  BY <1>20, <2>1
<1> QED  BY <1>5, <1>16, <1>17, <1>21 DEF t

(* What searchclient writes: a space and one digit.                        *)
LEMMA OneDigit ==
    ASSUME NEW n \in 0 .. 9, NEW s, s = <<Space, Digits[n + 1]>>
    PROVE  /\ s \in Seq(Chars) /\ Len(s) = 2 /\ s[1] = Space /\ s[2] # Space
           /\ HasNumber(s) /\ Stoul(s) = n
<1> DEFINE d == Digits[n + 1]
<1>1. d \in Range(Digits) /\ d # Space /\ DigitValue[d] = n
  <2>1. d \in Range(Digits) /\ DigitValue[d] = n
    BY DigitValueIs
  <2> HIDE DEF d
  <2>2. d # Space
    BY <2>1, DigitsDiffer
  <2> QED  BY <2>1, <2>2
<1>2. s = <<Space, d>>
  OBVIOUS
<1> HIDE DEF d
<1>3. s \in Seq(Chars) /\ Len(s) = 2 /\ s[1] = Space /\ s[2] = d /\ DOMAIN s = 1 .. 2
  <2> DEFINE m == Len(s)
  <2>1. s[1] = Space /\ s[2] = d /\ DOMAIN s = 1 .. 2
    BY <1>2
  <2>2. Space \in Chars /\ d \in Chars
    BY <1>1 DEF Chars
  <2>3. s \in Seq(Chars)
    BY <1>2, <2>2
  <2>4. 1 .. 2 = 1 .. m /\ m \in Nat
    BY <2>1, <2>3
  <2> HIDE DEF m
  <2>5. m = 2
    BY <2>4
  <2> QED  BY <2>1, <2>3, <2>5 DEF m
<1>4. NumberAt(s) = 2
  <2>1. \A i \in 1 .. 2 - 1 : i = 1
    OBVIOUS
  <2>2. 2 \in 1 .. Len(s) /\ s[2] # Space
    <3>1. 2 \in 1 .. 2
      OBVIOUS
    <3> QED  BY <1>1, <1>3, <3>1
  <2> QED  BY <1>3, <2>1, <2>2, NumberAtIs
<1>5. HasNumber(s)
  BY <1>1, <1>3, <1>4 DEF HasNumber
<1>6. Max(NumberSet(s)) = 2
  <2>1. 2 \in NumberSet(s)
    <3>1. \A k \in 2 .. 2 : k = 2
      OBVIOUS
    <3>2. 2 \in 1 .. 2
      OBVIOUS
    <3> QED  BY <1>1, <1>3, <1>4, <3>1, <3>2 DEF NumberSet
  <2>2. NumberSet(s) \subseteq 1 .. 2
    BY <1>3 DEF NumberSet
  <2>3. NumberSet(s) \subseteq Nat /\ \A j \in NumberSet(s) : j <= 2
    BY <2>2
  <2> QED  BY <2>1, <2>3, MaxIs
<1>7. PICK f : NumberRun(f, s)
  BY <1>3, NumberSteps
<1>8. f[0] = 0 /\ f[1] = NumberStep(s, 1, f[0]) /\ f[2] = NumberStep(s, 2, f[1])
  <2>1. 1 \in 1 .. 2 /\ 2 \in 1 .. 2 /\ 1 - 1 = 0 /\ 2 - 1 = 1
    OBVIOUS
  <2> QED  BY <1>3, <1>7, <2>1 DEF NumberRun
<1>9. f[1] = 0
  BY <1>3, <1>8, DigitsDiffer DEF NumberStep
<1>10. f[2] = n
  <2>1. f[2] = 10 * 0 + n
    BY <1>1, <1>3, <1>8, <1>9 DEF NumberStep
  <2> QED  BY <2>1
<1>11. Stoul(s) = n
  BY <1>6, <1>7, <1>10 DEF NumberRun
<1> QED  BY <1>1, <1>3, <1>5, <1>11

-----------------------------------------------------------------------------
(* What every client sends: a body that is not taken for headers, with its *)
(* length stated if the headers are written the usual way.                 *)
HeaderLine == [key : STRING \cup {"content-length", "connection"}, text : Seq(Chars)]
HeaderLines == Seq(HeaderLine)

Sendable(c) ==
    /\ c.body \in Bodies /\ "headers" \notin Range(c.body)
    /\ c.lines \in HeaderLines
    /\ WellFormed(c.lines) /\ ~TooLong(c.lines) => StatesLength(c)
    /\ c.method = "" => c.body = <<>>
    /\ c.target \in {"search", "ask"} => c.query \in Queries

(* Texts over some characters are texts over more.                         *)
LEMMA WiderSeq == ASSUME NEW S, NEW T, S \subseteq T PROVE Seq(S) \subseteq Seq(T)
<1> SUFFICES ASSUME NEW s \in Seq(S) PROVE s \in Seq(T)
  OBVIOUS
<1>1. Len(s) \in Nat /\ \A i \in 1 .. Len(s) : s[i] \in T
  OBVIOUS
<1>2. s = [i \in 1 .. Len(s) |-> s[i]]
  OBVIOUS
<1> DEFINE n == Len(s)
<1> HIDE DEF n
<1>3. s \in [1 .. n -> T] /\ n \in Nat
  BY <1>1, <1>2 DEF n
<1> QED  BY <1>3

(* What is assumed of other clients, in the form that is used.             *)
LEMMA OthersAreSendable == \A c \in Others : Sendable(c)
<1> DEFINE S == STRING
           X == [key : STRING, text : Seq(S)]
<1> TAKE c \in Others
<1>1. c \in ClientRequests
  BY ClientsAssumption
<1>2. c.body \in Bodies /\ c.lines \in Seq(X)
  BY <1>1 DEF ClientRequests, Bodies
<1>3. X \subseteq HeaderLine
  <2>1. S \subseteq Chars
    BY DEF Chars
  <2> HIDE DEF S
  <2>2. Seq(S) \subseteq Seq(Chars)
    BY <2>1, WiderSeq
  <2> QED  BY <2>2 DEF HeaderLine
<1> HIDE DEF X
<1>4. c.lines \in HeaderLines
  BY <1>2, <1>3, WiderSeq DEF HeaderLines
<1> QED  BY <1>2, <1>4, ClientsAssumption DEF Sendable

(* SendHttpRequest states the length of what it sends.                     *)
LEMMA ShellIsSendable ==
    ASSUME NEW m \in {"GET", "DELETE", "POST", "PUT"}, NEW data \in Seq(STRING),
           Len(data) < Len(Digits), "headers" \notin Range(data)
    PROVE  Sendable(ShellRequest(m, data))
<1> DEFINE c == ShellRequest(m, data)
           h == [key |-> "connection", text |-> <<Space, "close">>]
           g == [key |-> "content-length", text |-> <<Space, Digits[Len(data) + 1]>>]
           X == HeaderLine
<1>1. /\ c.method = m /\ c.target = "static" /\ c.body = data
      /\ c.lines = (IF data = <<>> THEN <<>> ELSE <<g>>) \o <<h>>
  BY DEF ShellRequest
<1>2. h \in X /\ h.key = "connection"
  <2>1. Space \in Chars /\ "close" \in Chars
    BY DEF Chars
  <2> QED  BY <2>1 DEF HeaderLine
<1>3. Len(data) \in 0 .. 9
  <2> DEFINE n == Len(data)
             k == Len(Digits)
  <2>1. n \in Nat /\ n < k
    OBVIOUS
  <2>2. k = 10
    BY DigitsDiffer
  <2> HIDE DEF n, k
  <2>3. n \in 0 .. 9
    BY <2>1, <2>2
  <2> QED  BY <2>3 DEF n
<1>4. g \in X /\ g.key = "content-length" /\ Stoul(g.text) = Len(data)
  <2> DEFINE n == Len(data)
             t == <<Space, Digits[n + 1]>>
  <2>1. n \in 0 .. 9
    BY <1>3
  <2> HIDE DEF n
  <2>2. t \in Seq(Chars) /\ Stoul(t) = n
    BY <2>1, OneDigit
  <2>3. g = [key |-> "content-length", text |-> t]
    BY DEF n
  <2> HIDE DEF t, g
  <2>4. g \in X /\ g.key = "content-length" /\ Stoul(g.text) = n
    BY <2>2, <2>3 DEF HeaderLine
  <2> QED  BY <2>4 DEF n
<1> HIDE DEF g, h, c, X
<1>5. CASE data = <<>>
  <2> DEFINE l == c.lines
  <2>1. l = <<h>>
    BY <1>1, <1>2, <1>5
  <2>2. l \in Seq(X) /\ DOMAIN l = {1} /\ l[1] = h
    BY <1>2, <2>1
  <2> HIDE DEF l
  <2>3. StatesLength(c)
    <3>1. ~\E i \in DOMAIN l : l[i].key = "content-length"
      BY <1>2, <2>2
    <3> QED  BY <1>1, <1>5, <3>1 DEF StatesLength, l
  <2> QED  BY <1>1, <2>2, <2>3 DEF Sendable, Bodies, HeaderLines, l, X, c
<1>6. CASE data # <<>>
  <2> DEFINE l == c.lines
  <2>1. l = <<g>> \o <<h>>
    BY <1>1, <1>6
  <2>2. l \in Seq(X) /\ 1 \in DOMAIN l /\ l[1] = g
    BY <1>2, <1>4, <2>1
  <2> HIDE DEF l
  <2>3. StatesLength(c)
    <3>1. l[1].key = "content-length" /\ Stoul(l[1].text) = Len(c.body)
      BY <1>1, <1>4, <2>2
    <3> QED  BY <2>2, <3>1 DEF StatesLength, l
  <2> QED  BY <1>1, <2>2, <2>3 DEF Sendable, Bodies, HeaderLines, l, X, c
<1> QED  BY <1>5, <1>6 DEF c

(* So every request that is sent can be read back.                         *)
LEMMA CommandsAreSendable == \A c \in Commands : Sendable(c)
<1> TAKE c \in Commands
<1>1. CASE c \in Others
  BY <1>1, OthersAreSendable
<1>2. CASE c \in {ShellRequest(m, <<>>) : m \in {"GET", "DELETE"}}
  <2>1. <<>> \in Seq(STRING) /\ Len(<<>>) < Len(Digits) /\ "headers" \notin Range(<<>>)
    BY DigitsDiffer DEF Range
  <2> QED  BY <1>2, <2>1, ShellIsSendable
<1>3. CASE c \in {ShellRequest(m, data) : m \in {"POST", "PUT"}, data \in Uploads}
  <2>1. PICK m \in {"POST", "PUT"}, data \in Uploads : c = ShellRequest(m, data)
    BY <1>3
  <2>2. data \in Seq(STRING) /\ Len(data) < Len(Digits) /\ "headers" \notin Range(data)
    BY ExchangeAssumption
  <2> QED  BY <2>1, <2>2, ShellIsSendable
<1> QED  BY <1>1, <1>2, <1>3 DEF Commands

-----------------------------------------------------------------------------
(* ReadBody's and ParseRequest's reading of the length.                    *)
LEMMA ReadLengthIs ==
    ASSUME NEW lines \in HeaderLines, NEW p \in 1 .. Len(lines), NamesLength(lines[p].key),
           \A i \in 1 .. p - 1 : ~NamesLength(lines[i].key)
    PROVE  ReadLength(lines) = IF HasNumber(lines[p].text) THEN Stoul(lines[p].text) ELSE 0
<1> DEFINE I == {i \in 1 .. Len(lines) : NamesLength(lines[i].key)}
<1>1. I \subseteq Nat /\ p \in I /\ \A j \in I : p <= j
  OBVIOUS
<1>2. Min(I) = p
  <2> HIDE DEF I
  <2> QED  BY <1>1, MinIs
<1>3. I # {}
  BY <1>1
<1>4. SelectInSeq(lines, LAMBDA l : NamesLength(l.key)) = p
  BY <1>2, <1>3 DEF SelectInSeq
<1>5. p # 0
  OBVIOUS
<1> QED  BY <1>4, <1>5 DEF ReadLength

(* ReadBody finds no length where no header names one.                     *)
LEMMA ReadLengthWithout ==
    ASSUME NEW lines \in HeaderLines, \A i \in 1 .. Len(lines) : ~NamesLength(lines[i].key)
    PROVE  ReadLength(lines) = 0
<1>1. SelectInSeq(lines, LAMBDA l : NamesLength(l.key)) = 0
  BY DEF SelectInSeq
<1> QED  BY <1>1 DEF ReadLength

(* The text of a header line is a text.                                    *)
LEMMA TextsAreTexts ==
    ASSUME NEW lines \in HeaderLines, NEW i \in 1 .. Len(lines)
    PROVE  lines[i].text \in Seq(Chars)
<1>1. lines[i] \in HeaderLine
  BY DEF HeaderLines
<1> QED  BY <1>1 DEF HeaderLine

(* What ReadBody takes for the length is a number.                         *)
LEMMA ReadLengthType ==
    ASSUME NEW lines \in HeaderLines
    PROVE  ReadLength(lines) \in Int
<1> DEFINE I == {i \in 1 .. Len(lines) : NamesLength(lines[i].key)}
<1>1. CASE I = {}
  <2>1. ReadLength(lines) = 0
    BY <1>1, ReadLengthWithout
  <2> QED  BY <2>1
<1>2. CASE I # {}
  <2>1. I \subseteq Nat
    BY DEF HeaderLines
  <2>2. PICK p \in I : \A j \in I : p <= j
    <3> HIDE DEF I
    <3> QED  BY <1>2, <2>1, LeastMember
  <2>3. p \in 1 .. Len(lines) /\ NamesLength(lines[p].key) /\ Len(lines) \in Nat
    BY <2>2 DEF HeaderLines
  <2>4. ASSUME NEW i \in 1 .. p - 1 PROVE ~NamesLength(lines[i].key)
    <3>1. i \in 1 .. Len(lines) /\ ~(p <= i)
      BY <2>3
    <3> QED  BY <2>2, <3>1
  <2>5. ReadLength(lines) = IF HasNumber(lines[p].text) THEN Stoul(lines[p].text) ELSE 0
    BY <2>3, <2>4, ReadLengthIs
  <2>6. lines[p].text \in Seq(Chars)
    BY <2>3, TextsAreTexts
  <2> QED  BY <2>5, <2>6, StoulIsInt
<1> QED  BY <1>1, <1>2

(* A field is the text of one line, without its first character.           *)
LEMMA FieldIs ==
    ASSUME NEW lines \in HeaderLines, NEW key, NEW text \in Field(lines, key)
    PROVE  \E i \in 1 .. Len(lines) : lines[i].key = key /\ text = Tail(lines[i].text)
<1>1. DOMAIN lines = 1 .. Len(lines)
  BY DEF HeaderLines
<1> QED  BY <1>1 DEF Field

(* A body that was parsed is a beginning of what was read.                 *)
LEMMA ParsedBodyType ==
    ASSUME NEW lines \in HeaderLines, ~ParseThrows(lines), NEW rest \in Bodies
    PROVE  ParsedBody(lines, rest) \in Bodies
<1> DEFINE F == Field(lines, "content-length")
           x == CHOOSE text \in F : TRUE
           n == Stoul(x)
           k == IF n < Len(rest) THEN n ELSE Len(rest)
<1>1. CASE F = {}
  BY <1>1 DEF ParsedBody, Bodies
<1>2. CASE F # {}
  <2>1. x \in F
    BY <1>2
  <2>2. ParsedBody(lines, rest) = SubSeq(rest, 1, k)
    BY <1>2 DEF ParsedBody
  <2> HIDE DEF x
  <2>3. PICK i \in 1 .. Len(lines) : x = Tail(lines[i].text)
    BY <2>1, FieldIs
  <2>4. x \in Seq(Chars)
    <3>1. lines[i].text \in Seq(Chars) /\ lines[i].text # <<>>
      <4>1. DOMAIN lines = 1 .. Len(lines)
        BY DEF HeaderLines
      <4> QED  BY <4>1, TextsAreTexts DEF ParseThrows
    <3> QED  BY <2>3, <3>1
  <2>5. HasNumber(x)
    BY <2>1 DEF ParseThrows
  <2>6. n \in Int
    BY <2>4, <2>5, StoulIsInt
  <2> HIDE DEF n
  <2>7. k \in Int /\ k <= Len(rest) /\ rest \in Seq(STRING)
    BY <2>6 DEF Bodies
  <2> HIDE DEF k
  <2>8. \A j \in 1 .. k : rest[j] \in STRING
    BY <2>7
  <2>9. SubSeq(rest, 1, k) \in Seq(STRING)
    BY <2>7, <2>8, SubSeqProperties
  <2> QED  BY <2>2, <2>9 DEF Bodies
<1> QED  BY <1>1, <1>2

(* Among headers that are written the usual way the one that names the     *)
(* length is the one that ReadBody reads.                                  *)
LEMMA OneLength ==
    ASSUME NEW lines \in HeaderLines, WellFormed(lines),
           NEW p \in 1 .. Len(lines), NamesLength(lines[p].key)
    PROVE  ReadLength(lines) = Stoul(lines[p].text) /\ HasNumber(lines[p].text)
<1>1. DOMAIN lines = 1 .. Len(lines) /\ Len(lines) \in Nat
  BY DEF HeaderLines
<1>2. HasNumber(lines[p].text) /\ \A i \in DOMAIN lines : NamesLength(lines[i].key) => i = p
  BY <1>1 DEF WellFormed
<1>3. \A i \in 1 .. p - 1 : i \in 1 .. Len(lines) /\ i # p
  BY <1>1
<1>4. ReadLength(lines) = IF HasNumber(lines[p].text) THEN Stoul(lines[p].text) ELSE 0
  BY <1>1, <1>2, <1>3, ReadLengthIs
<1> QED  BY <1>2, <1>4

(* Headers that are written the usual way are understood, by both readers, *)
(* unless the length is beyond every number.                               *)
LEMMA WellFormedIsUnderstood ==
    ASSUME NEW lines \in HeaderLines, WellFormed(lines), ~TooLong(lines)
    PROVE  ~ParseThrows(lines)
<1>1. DOMAIN lines = 1 .. Len(lines) /\ Len(lines) \in Nat
  BY DEF HeaderLines
<1>2. ASSUME NEW i \in DOMAIN lines PROVE lines[i].text # <<>>
  <2>1. Len(lines[i].text) > 1
    BY DEF WellFormed
  <2>2. Len(<<>>) = 0
    OBVIOUS
  <2> QED  BY <2>1, <2>2
<1>3. ASSUME NEW text \in Field(lines, "content-length")
      PROVE  HasNumber(text) /\ ~(Stoul(text) > MaxLong)
  <2>1. PICK i \in 1 .. Len(lines) :
          lines[i].key = "content-length" /\ text = Tail(lines[i].text)
    BY FieldIs
  <2> DEFINE s == lines[i].text
  <2>2. s \in Seq(Chars)
    BY TextsAreTexts
  <2>3. NamesLength(lines[i].key)
    BY <2>1 DEF NamesLength
  <2>4. Len(s) > 1 /\ s[1] = Space /\ s[2] # Space /\ HasNumber(s)
    BY <1>1, <2>3 DEF WellFormed
  <2>5. ~(Stoul(s) > MaxLong)
    BY <2>3, OneLength DEF TooLong
  <2> HIDE DEF s
  <2>6. HasNumber(Tail(s)) /\ Stoul(Tail(s)) = Stoul(s)
    BY <2>2, <2>4, BehindSpace
  <2> QED  BY <2>1, <2>5, <2>6 DEF s
<1> QED  BY <1>2, <1>3 DEF ParseThrows

(* ReadBody and ParseRequest find the length that the client stated.       *)
LEMMA WellFormedBody ==
    ASSUME NEW c, Sendable(c), WellFormed(c.lines), ~TooLong(c.lines)
    PROVE  ReadLength(c.lines) = Len(c.body) /\ ParsedBody(c.lines, c.body) = c.body
<1> DEFINE lines == c.lines
           body == c.body
<1>1. /\ lines \in HeaderLines /\ body \in Seq(STRING) /\ Len(body) \in Nat
      /\ WellFormed(lines) /\ StatesLength(c)
  <2>1. lines \in HeaderLines /\ body \in Bodies /\ WellFormed(lines) /\ StatesLength(c)
    BY DEF Sendable
  <2> HIDE DEF lines, body
  <2>2. body \in Seq(STRING) /\ Len(body) \in Nat
    BY <2>1 DEF Bodies
  <2> QED  BY <2>1, <2>2
<1>2. DOMAIN lines = 1 .. Len(lines) /\ Len(lines) \in Nat
  BY <1>1 DEF HeaderLines
<1>3. CASE \E i \in DOMAIN lines : lines[i].key = "content-length"
  <2>1. PICK p \in DOMAIN lines :
          lines[p].key = "content-length" /\ Stoul(lines[p].text) = Len(body)
    BY <1>1, <1>3 DEF StatesLength
  <2> HIDE DEF lines, body
  <2>2. NamesLength(lines[p].key)
    BY <2>1 DEF NamesLength
  <2>3. \A i \in DOMAIN lines : NamesLength(lines[i].key) => i = p
    BY <1>1, <2>2 DEF WellFormed
  <2> DEFINE s == lines[p].text
  <2>4. s \in Seq(Chars) /\ Len(s) > 1 /\ s[1] = Space /\ s[2] # Space /\ HasNumber(s)
    BY <1>1, <1>2, <2>2, TextsAreTexts DEF WellFormed
  <2>5. Stoul(s) = Len(body)
    BY <2>1
  <2>6. ReadLength(lines) = Len(body)
    BY <1>1, <1>2, <2>2, <2>5, OneLength
  <2> HIDE DEF s
  <2>7. Stoul(Tail(s)) = Len(body)
    BY <2>4, <2>5, BehindSpace
  <2>8. Field(lines, "content-length") = {Tail(s)}
    <3>1. \A i \in DOMAIN lines : lines[i].key = "content-length" <=> i = p
      BY <2>1, <2>3 DEF NamesLength
    <3>2. {j \in DOMAIN lines :
             /\ lines[j].key = "content-length"
             /\ \A k \in DOMAIN lines : k > j => lines[k].key # "content-length"} = {p}
      <4>1. \A k \in DOMAIN lines : k > p => k # p
        BY <1>2
      <4> QED  BY <3>1, <4>1
    <3> QED  BY <3>2 DEF Field, s
  <2>9. (CHOOSE text \in {Tail(s)} : TRUE) = Tail(s)
    OBVIOUS
  <2>10. ParsedBody(lines, body) = SubSeq(body, 1, Len(body))
    <3>1. ~(Len(body) < Len(body))
      BY <1>1
    <3> QED  BY <2>7, <2>8, <2>9, <3>1 DEF ParsedBody
  <2>11. SubSeq(body, 1, Len(body)) = body
    BY <1>1 DEF body
  <2> QED  BY <2>6, <2>10, <2>11 DEF lines, body
<1>4. CASE ~\E i \in DOMAIN lines : lines[i].key = "content-length"
  <2>1. body = <<>>
    BY <1>1, <1>4 DEF StatesLength
  <2>2. \A i \in 1 .. Len(lines) : ~NamesLength(lines[i].key)
    BY <1>1, <1>2, <1>4 DEF WellFormed
  <2>3. ReadLength(lines) = 0
    BY <1>1, <2>2, ReadLengthWithout
  <2>4. Field(lines, "content-length") = {}
    BY <1>4 DEF Field
  <2>5. ParsedBody(lines, body) = <<>>
    BY <2>4 DEF ParsedBody
  <2>6. Len(body) = 0
    BY <2>1
  <2> QED  BY <2>1, <2>3, <2>5, <2>6
<1> QED  BY <1>3, <1>4

-----------------------------------------------------------------------------
(* The inductive invariant.                                                *)
Messages == [status : Nat, body : Seq(Chars)]
Reports ==
    [said : {"nothing", "ok", "error", "failed"}, data : Seq(Chars), whole : BOOLEAN]

ProcessType ==
    /\ running \in BOOLEAN /\ g_done \in BOOLEAN /\ starts \in 1 .. MaxStarts
    /\ ended \in {"none", "killed", "stopped", "exception", "SIGPIPE"}
    /\ running <=> ended = "none"

FileType ==
    /\ file \in Bodies \cup {NoFile} /\ told \in Bodies \cup {NoFile, Unknown}
    /\ report \in Reports

StepType ==
    /\ busy \in BOOLEAN /\ gone \in BOOLEAN /\ piped \in BOOLEAN
    /\ spoilt \in BOOLEAN
    /\ wpc \in {"none", "headers", "body", "route", "api", "send", "closed"}

TextType ==
    /\ unread \in Seq(Chars) /\ raw \in Bodies
    /\ received \in Messages /\ response \in Messages

(* Who is at work on what.                                                 *)
ControlInv ==
    /\ wpc # "none" => cmd \in Commands
    /\ busy => wpc # "none" /\ ~gone
    /\ wpc # "api" => api = "idle"
    /\ wpc = "api" => cmd.method = "GET" /\ cmd.target \in {"search", "ask"}

(* What has been read and what is still to be read make a beginning of     *)
(* what was sent, and what is left behind a request is never the next.     *)
Begins(p, s) == Len(p) <= Len(s) /\ \A i \in 1 .. Len(p) : p[i] = s[i]

Left == "headers" \notin Range(unread)

ReadInv ==
    /\ wpc = "headers" /\ response = Nothing => Begins(unread, <<"headers">> \o cmd.body)
    /\ wpc = "body" => Begins(raw \o unread, cmd.body)
    /\ wpc \in {"route", "api", "send"} => Left
    /\ wpc = "headers" /\ response # Nothing => Left

(* The handler has the client's request, and its body if nothing happened. *)
RouteInv ==
    wpc = "route" =>
        /\ request.body \in Bodies
        /\ request.method = cmd.method
        /\ cmd.method # "" => request.target = cmd.target
        /\ ~spoilt /\ WellFormed(cmd.lines) => request.body = cmd.body /\ unread = <<>>

(* There is a response when it is sent, and some of it when writing goes   *)
(* on.                                                                     *)
SendInv ==
    /\ wpc \in {"body", "route", "api"} => response = Nothing
    /\ wpc = "send" => response # Nothing
    /\ response = Nothing => received = Nothing
    /\ IsPrefix(received.body, response.body)
    /\ wpc = "send" /\ received # Nothing =>
        Chunk <= Len(received.body) /\ Len(received.body) < Len(response.body)

(* What is known of the file, before and after a request that changes it.  *)
Mutates == cmd.target = "static" /\ cmd.method \in {"PUT", "POST", "DELETE"}

StoreInv ==
    /\ response = Nothing \/ ~busy \/ ~Mutates => (told # Unknown => file = told)
    /\ ~busy /\ response = Nothing /\ wpc # "none" /\ Mutates => told = Unknown
    /\ busy /\ response # Nothing /\ Mutates =>
        /\ response.status \in {404, 409} /\ told # Unknown => file = told
        /\ response.status \in 200 .. 299 /\ ~spoilt /\ WellFormed(cmd.lines) =>
            file = IF cmd.method = "DELETE" THEN NoFile ELSE cmd.body

(* What a GET was answered, and what the client made of it.                *)
GetInv ==
    /\ response # Nothing /\ cmd.method = "GET" /\ cmd.target = "static" =>
        \/ response.status = 200 /\ (response.body = file \/ spoilt)
        \/ response.status = 404 /\ file = NoFile
    /\ report.whole => ~busy
    /\ GetGivesWhatWasPut

TypeInv == ProcessType /\ FileType /\ StepType /\ TextType
IInv ==
    /\ TypeInv /\ ApiInv /\ ControlInv /\ ReadInv
    /\ RouteInv /\ SendInv /\ StoreInv /\ GetInv

-----------------------------------------------------------------------------
(* The steps, with the ends of the process drawn together.                 *)
Dies == \E why \in {"killed", "stopped", "exception", "SIGPIPE"} : Die(why)

Parses ==
    /\ wpc = "body" /\ ~TooLong(cmd.lines)
    /\ ~(cmd.method # "" /\ ParseThrows(cmd.lines))
    /\ request' = IF cmd.method = "" THEN Default
                  ELSE [method |-> cmd.method, target |-> cmd.target,
                        body |-> ParsedBody(cmd.lines, raw),
                        close |-> SaysClose(cmd.lines)]
    /\ spoilt' = (Missing > 0)
    /\ wpc' = "route"
    /\ UNCHANGED <<server, file, client, unread, received, raw, response, apiVars>>

Puts == \E m \in {"PUT", "POST"} : StaticPut(m)
SearchWork == Searching \/ ServiceStep

Steps ==
    \/ \E c \in Commands : Type(c)
    \/ Receive
    \/ ReceiveCounted
    \/ HangUp
    \/ Dies
    \/ Stop
    \/ Restart
    \/ ReadHeaders
    \/ NoHeaders
    \/ ReadBody
    \/ Parses
    \/ FixedAnswer
    \/ StaticGet
    \/ Puts
    \/ StaticConflict
    \/ StaticDelete
    \/ StaticFails
    \/ Search
    \/ SearchWork
    \/ SearchAnswer
    \/ Write

(* Every step is one of the grouped steps.                                 *)
LEMMA NextIsSteps == Next => Steps
<1>1. ParseRequest => Parses \/ Dies
  BY DEF ParseRequest, Parses, Dies
<1>2. Kill \/ Exit \/ LengthThrows \/ StaticGetThrows \/ WriteRaises => Dies
  BY DEF Kill, Exit, LengthThrows, StaticGetThrows, WriteRaises, Dies
<1>3. StaticPut("PUT") \/ StaticPut("POST") => Puts
  BY DEF Puts
<1>4. Searching \/ ServiceStep => SearchWork
  BY DEF SearchWork
<1> QED  BY <1>1, <1>2, <1>3, <1>4 DEF Next, WorkerStep, Steps

(* The process ends with a reason.                                        *)
LEMMA ProcessStep == ASSUME IInv, [Next]_vars PROVE ProcessType'
<1>1. CASE \E c \in Commands : Type(c)
  BY <1>1 DEF Type, IInv, TypeInv, ProcessType, server, worker, client
<1>2. CASE Receive
  BY <1>2 DEF Receive, Tell, IInv, TypeInv, ProcessType, server, worker, client
<1>3. CASE ReceiveCounted
  BY <1>3 DEF ReceiveCounted, Tell, IInv, TypeInv, ProcessType, server, worker, client
<1>4. CASE HangUp
  BY <1>4 DEF HangUp, IInv, TypeInv, ProcessType, server, worker, client
<1>5. CASE Dies
  BY <1>5 DEF Dies, Die, Close, IInv, TypeInv, ProcessType, server, worker, client
<1>6. CASE Stop
  BY <1>6 DEF Stop, IInv, TypeInv, ProcessType, server, worker, client
<1>7. CASE Restart
  <2>1. starts \in 1 .. MaxStarts /\ starts < MaxStarts /\ starts' = starts + 1
    BY <1>7 DEF Restart, IInv, TypeInv, ProcessType
  <2>2. starts' \in 1 .. MaxStarts
    BY <2>1, ExchangeAssumption
  <2> QED  BY <1>7, <2>2 DEF Restart, IInv, TypeInv, ProcessType
<1>8. CASE ReadHeaders
  BY <1>8 DEF ReadHeaders, IInv, TypeInv, ProcessType, server, worker, client
<1>9. CASE NoHeaders
  BY <1>9 DEF NoHeaders, Close, IInv, TypeInv, ProcessType, server, worker, client
<1>10. CASE ReadBody
  BY <1>10 DEF ReadBody, IInv, TypeInv, ProcessType, server, worker, client
<1>11. CASE Parses
  BY <1>11 DEF Parses, IInv, TypeInv, ProcessType, server, worker, client
<1>12. CASE FixedAnswer
  BY <1>12 DEF FixedAnswer, Respond, IInv, TypeInv, ProcessType, server, worker, client
<1>13. CASE StaticGet
  BY <1>13 DEF StaticGet, Respond, At, IInv, TypeInv, ProcessType, server, worker, client
<1>14. CASE Puts
  BY <1>14 DEF Puts, StaticPut, Respond, At, IInv, TypeInv, ProcessType, server, worker,
       client
<1>15. CASE StaticConflict
  BY <1>15 DEF StaticConflict, Respond, At, IInv, TypeInv, ProcessType, server, worker,
       client
<1>16. CASE StaticDelete
  BY <1>16 DEF StaticDelete, Respond, At, IInv, TypeInv, ProcessType, server, worker, client
<1>17. CASE StaticFails
  BY <1>17 DEF StaticFails, Respond, At, IInv, TypeInv, ProcessType, server, worker, client
<1>18. CASE Search
  BY <1>18 DEF Search, IInv, TypeInv, ProcessType, server, worker, client
<1>19. CASE SearchWork
  BY <1>19 DEF SearchWork, Searching, ServiceStep, IInv, TypeInv, ProcessType, server,
       worker, client
<1>20. CASE SearchAnswer
  BY <1>20 DEF SearchAnswer, Respond, IInv, TypeInv, ProcessType, server, worker, client
<1>21. CASE Write
  BY <1>21 DEF Write, Close, IInv, TypeInv, ProcessType, server, worker, client
<1>22. CASE UNCHANGED vars
  BY <1>22 DEF vars, server, client, worker, IInv, TypeInv, ProcessType, server, worker,
       client
<1> QED
  BY <1>1, <1>2, <1>3, <1>4, <1>5, <1>6, <1>7, <1>8, <1>9, <1>10, <1>11,
        <1>12, <1>13, <1>14, <1>15, <1>16, <1>17, <1>18, <1>19, <1>20,
        <1>21, <1>22, NextIsSteps DEF Steps

(* HandleClient goes from step to step.                                   *)
LEMMA StepStep == ASSUME IInv, [Next]_vars PROVE StepType'
<1>1. CASE \E c \in Commands : Type(c)
  BY <1>1 DEF Type, IInv, TypeInv, StepType, worker, client
<1>2. CASE Receive
  BY <1>2 DEF Receive, Tell, IInv, TypeInv, StepType, worker, client
<1>3. CASE ReceiveCounted
  BY <1>3 DEF ReceiveCounted, Tell, IInv, TypeInv, StepType, worker, client
<1>4. CASE HangUp
  BY <1>4 DEF HangUp, IInv, TypeInv, StepType, worker, client
<1>5. CASE Dies
  BY <1>5 DEF Dies, Die, Close, IInv, TypeInv, StepType, worker, client
<1>6. CASE Stop
  BY <1>6 DEF Stop, IInv, TypeInv, StepType, worker, client
<1>7. CASE Restart
  BY <1>7 DEF Restart, IInv, TypeInv, StepType, worker, client
<1>8. CASE ReadHeaders
  BY <1>8 DEF ReadHeaders, IInv, TypeInv, StepType, worker, client
<1>9. CASE NoHeaders
  BY <1>9 DEF NoHeaders, Close, IInv, TypeInv, StepType, worker, client
<1>10. CASE ReadBody
  BY <1>10 DEF ReadBody, IInv, TypeInv, StepType, worker, client
<1>11. CASE Parses
  <2>1. /\ wpc' = "route" /\ spoilt' = (Missing > 0) /\ wpc = "body"
        /\ UNCHANGED <<busy, gone, piped>>
    BY <1>11 DEF Parses, client
  <2>2. Missing \in Int
    <3>1. cmd \in Commands /\ raw \in Bodies
      BY <2>1 DEF IInv, ControlInv, TypeInv, TextType
    <3>2. ReadLength(cmd.lines) \in Int
      BY <3>1, CommandsAreSendable, ReadLengthType DEF Sendable
    <3>3. Len(raw) \in Nat
      BY <3>1 DEF Bodies
    <3> QED  BY <3>2, <3>3 DEF Missing
  <2>3. (Missing > 0) \in BOOLEAN
    BY <2>2
  <2> QED  BY <2>1, <2>3 DEF IInv, TypeInv, StepType
<1>12. CASE FixedAnswer
  BY <1>12 DEF FixedAnswer, Respond, IInv, TypeInv, StepType, worker, client
<1>13. CASE StaticGet
  BY <1>13 DEF StaticGet, Respond, At, IInv, TypeInv, StepType, worker, client
<1>14. CASE Puts
  BY <1>14 DEF Puts, StaticPut, Respond, At, IInv, TypeInv, StepType, worker, client
<1>15. CASE StaticConflict
  BY <1>15 DEF StaticConflict, Respond, At, IInv, TypeInv, StepType, worker, client
<1>16. CASE StaticDelete
  BY <1>16 DEF StaticDelete, Respond, At, IInv, TypeInv, StepType, worker, client
<1>17. CASE StaticFails
  BY <1>17 DEF StaticFails, Respond, At, IInv, TypeInv, StepType, worker, client
<1>18. CASE Search
  BY <1>18 DEF Search, IInv, TypeInv, StepType, worker, client
<1>19. CASE SearchWork
  BY <1>19 DEF SearchWork, Searching, ServiceStep, IInv, TypeInv, StepType, worker, client
<1>20. CASE SearchAnswer
  BY <1>20 DEF SearchAnswer, Respond, IInv, TypeInv, StepType, worker, client
<1>21. CASE Write
  BY <1>21 DEF Write, Close, IInv, TypeInv, StepType, worker, client
<1>22. CASE UNCHANGED vars
  BY <1>22 DEF vars, server, client, worker, IInv, TypeInv, StepType, worker, client
<1> QED
  BY <1>1, <1>2, <1>3, <1>4, <1>5, <1>6, <1>7, <1>8, <1>9, <1>10, <1>11,
        <1>12, <1>13, <1>14, <1>15, <1>16, <1>17, <1>18, <1>19, <1>20,
        <1>21, <1>22, NextIsSteps DEF Steps

(* A search is on only while HandleClient is in it.                       *)
LEMMA ControlStep == ASSUME IInv, [Next]_vars PROVE ControlInv'
<1>1. CASE \E c \in Commands : Type(c)
  BY <1>1 DEF Type, IInv, ControlInv, TypeInv, StepType, worker, client, apiVars
<1>2. CASE Receive
  BY <1>2 DEF Receive, Tell, IInv, ControlInv, TypeInv, StepType, worker, client, apiVars
<1>3. CASE ReceiveCounted
  BY <1>3 DEF ReceiveCounted, Tell, IInv, ControlInv, TypeInv, StepType, worker, client,
       apiVars
<1>4. CASE HangUp
  BY <1>4 DEF HangUp, IInv, ControlInv, TypeInv, StepType, worker, client, apiVars
<1>5. CASE Dies
  BY <1>5 DEF Dies, Die, Close, Forget, client, IInv, ControlInv, TypeInv, StepType
<1>6. CASE Stop
  BY <1>6 DEF Stop, IInv, ControlInv, TypeInv, StepType, worker, client, apiVars
<1>7. CASE Restart
  BY <1>7 DEF Restart, IInv, ControlInv, TypeInv, StepType, worker, client, apiVars
<1>8. CASE ReadHeaders
  BY <1>8 DEF ReadHeaders, IInv, ControlInv, TypeInv, StepType, worker, client, apiVars
<1>9. CASE NoHeaders
  BY <1>9 DEF NoHeaders, Close, IInv, ControlInv, TypeInv, StepType, worker, client, apiVars
<1>10. CASE ReadBody
  BY <1>10 DEF ReadBody, IInv, ControlInv, TypeInv, StepType, worker, client, apiVars
<1>11. CASE Parses
  BY <1>11 DEF Parses, IInv, ControlInv, TypeInv, StepType, worker, client, apiVars
<1>12. CASE FixedAnswer
  BY <1>12 DEF FixedAnswer, Respond, IInv, ControlInv, TypeInv, StepType, worker,
       client, apiVars
<1>13. CASE StaticGet
  BY <1>13 DEF StaticGet, Respond, At, IInv, ControlInv, TypeInv, StepType, worker,
       client, apiVars
<1>14. CASE Puts
  BY <1>14 DEF Puts, StaticPut, Respond, At, IInv, ControlInv, TypeInv, StepType,
       worker, client, apiVars
<1>15. CASE StaticConflict
  BY <1>15 DEF StaticConflict, Respond, At, IInv, ControlInv, TypeInv, StepType, worker,
       client, apiVars
<1>16. CASE StaticDelete
  BY <1>16 DEF StaticDelete, Respond, At, IInv, ControlInv, TypeInv, StepType, worker,
       client, apiVars
<1>17. CASE StaticFails
  BY <1>17 DEF StaticFails, Respond, At, IInv, ControlInv, TypeInv, StepType, worker,
       client, apiVars
<1>18. CASE Search
  <2>1. PICK k \in {"search", "ask"} : At("GET", k) /\ BeginSearch(k, cmd.query)
    BY <1>18 DEF Search
  <2>2. wpc' = "api" /\ wpc = "route" /\ UNCHANGED <<busy, gone, cmd>>
    BY <1>18, <2>1 DEF Search, At, client
  <2>3. request.method = "GET" /\ request.target = k
    BY <2>1 DEF At
  <2>4. cmd.method = "GET" /\ cmd.target = k
    BY <2>2, <2>3 DEF IInv, RouteInv
  <2> QED  BY <2>2, <2>4 DEF IInv, ControlInv
<1>19. CASE SearchWork
  <2>1. UNCHANGED <<wpc, busy, gone, cmd>>
    BY <1>19 DEF SearchWork, Searching, ServiceStep, client, worker
  <2>2. wpc = "api"
    <3>1. CASE Searching
      BY <3>1 DEF Searching
    <3>2. CASE ServiceStep
      BY <3>2 DEF ServiceStep, ServiceReplies, IInv, ControlInv
    <3> QED  BY <1>19, <3>1, <3>2 DEF SearchWork
  <2> QED  BY <2>1, <2>2 DEF IInv, ControlInv
<1>20. CASE SearchAnswer
  BY <1>20 DEF SearchAnswer, Respond, EndSearch, Forget, client, IInv, ControlInv
<1>21. CASE Write
  BY <1>21 DEF Write, Close, IInv, ControlInv, TypeInv, StepType, worker, client, apiVars
<1>22. CASE UNCHANGED vars
  BY <1>22 DEF vars, server, client, worker, IInv, ControlInv, TypeInv, StepType,
       worker, client, apiVars
<1> QED
  BY <1>1, <1>2, <1>3, <1>4, <1>5, <1>6, <1>7, <1>8, <1>9, <1>10, <1>11,
        <1>12, <1>13, <1>14, <1>15, <1>16, <1>17, <1>18, <1>19, <1>20,
        <1>21, <1>22, NextIsSteps DEF Steps

(* HandleGetRequest's steps keep the invariant of a search.               *)
LEMMA ApiStepKept == ASSUME IInv, [Next]_vars PROVE ApiInv'
<1>1. CASE \E c \in Commands : Type(c)
  <2>1. UNCHANGED apiVars
    BY <1>1 DEF Type
  <2> QED  BY <2>1, ApiStutters DEF IInv
<1>2. CASE Receive
  <2>1. UNCHANGED apiVars
    BY <1>2 DEF Receive, Tell
  <2> QED  BY <2>1, ApiStutters DEF IInv
<1>3. CASE ReceiveCounted
  <2>1. UNCHANGED apiVars
    BY <1>3 DEF ReceiveCounted, Tell
  <2> QED  BY <2>1, ApiStutters DEF IInv
<1>4. CASE HangUp
  <2>1. UNCHANGED apiVars
    BY <1>4 DEF HangUp
  <2> QED  BY <2>1, ApiStutters DEF IInv
<1>5. CASE Dies
  BY <1>5, ApiForgets DEF Dies, Die
<1>6. CASE Stop
  <2>1. UNCHANGED apiVars
    BY <1>6 DEF Stop, server, worker
  <2> QED  BY <2>1, ApiStutters DEF IInv
<1>7. CASE Restart
  <2>1. UNCHANGED apiVars
    BY <1>7 DEF Restart
  <2> QED  BY <2>1, ApiStutters DEF IInv
<1>8. CASE ReadHeaders
  <2>1. UNCHANGED apiVars
    BY <1>8 DEF ReadHeaders
  <2> QED  BY <2>1, ApiStutters DEF IInv
<1>9. CASE NoHeaders
  <2>1. UNCHANGED apiVars
    BY <1>9 DEF NoHeaders, Close
  <2> QED  BY <2>1, ApiStutters DEF IInv
<1>10. CASE ReadBody
  <2>1. UNCHANGED apiVars
    BY <1>10 DEF ReadBody
  <2> QED  BY <2>1, ApiStutters DEF IInv
<1>11. CASE Parses
  <2>1. UNCHANGED apiVars
    BY <1>11 DEF Parses
  <2> QED  BY <2>1, ApiStutters DEF IInv
<1>12. CASE FixedAnswer
  <2>1. UNCHANGED apiVars
    BY <1>12 DEF FixedAnswer, Respond
  <2> QED  BY <2>1, ApiStutters DEF IInv
<1>13. CASE StaticGet
  <2>1. UNCHANGED apiVars
    BY <1>13 DEF StaticGet, Respond, At
  <2> QED  BY <2>1, ApiStutters DEF IInv
<1>14. CASE Puts
  <2>1. UNCHANGED apiVars
    BY <1>14 DEF Puts, StaticPut, Respond, At
  <2> QED  BY <2>1, ApiStutters DEF IInv
<1>15. CASE StaticConflict
  <2>1. UNCHANGED apiVars
    BY <1>15 DEF StaticConflict, Respond, At
  <2> QED  BY <2>1, ApiStutters DEF IInv
<1>16. CASE StaticDelete
  <2>1. UNCHANGED apiVars
    BY <1>16 DEF StaticDelete, Respond, At
  <2> QED  BY <2>1, ApiStutters DEF IInv
<1>17. CASE StaticFails
  <2>1. UNCHANGED apiVars
    BY <1>17 DEF StaticFails, Respond, At
  <2> QED  BY <2>1, ApiStutters DEF IInv
<1>18. CASE Search
  <2>1. PICK k \in {"search", "ask"} : At("GET", k) /\ BeginSearch(k, cmd.query)
    BY <1>18 DEF Search
  <2>2. cmd \in Commands /\ request.method = cmd.method
        /\ (cmd.method # "" => request.target = cmd.target)
    BY <2>1 DEF At, IInv, ControlInv, RouteInv
  <2>3. cmd.target = k
    BY <2>1, <2>2 DEF At
  <2>4. cmd.query \in Queries
    BY <2>2, <2>3, CommandsAreSendable DEF Sendable
  <2> QED  BY <2>1, <2>4, ApiBegins DEF IInv
<1>19. CASE SearchWork
  BY <1>19, ApiSteps DEF SearchWork, Searching, ServiceStep, IInv
<1>20. CASE SearchAnswer
  BY <1>20, ApiForgets DEF SearchAnswer, EndSearch
<1>21. CASE Write
  <2>1. UNCHANGED apiVars
    BY <1>21 DEF Write, Close
  <2> QED  BY <2>1, ApiStutters DEF IInv
<1>22. CASE UNCHANGED vars
  BY <1>22, ApiStutters DEF vars, IInv
<1> QED
  BY <1>1, <1>2, <1>3, <1>4, <1>5, <1>6, <1>7, <1>8, <1>9, <1>10, <1>11,
        <1>12, <1>13, <1>14, <1>15, <1>16, <1>17, <1>18, <1>19, <1>20,
        <1>21, <1>22, NextIsSteps DEF Steps

(* Lists of texts and their beginnings.                                    *)
LEMMA BodiesAreChars == Bodies \subseteq Seq(Chars)
<1> DEFINE S == STRING
<1>1. S \subseteq Chars
  BY DEF Chars
<1> HIDE DEF S
<1>2. Seq(S) \subseteq Seq(Chars)
  BY <1>1, WiderSeq
<1> QED  BY <1>2 DEF S, Bodies

(* The beginning of a text.                                                *)
LEMMA CutType ==
    ASSUME NEW D, NEW s \in Seq(D), NEW k \in 0 .. Len(s)
    PROVE  /\ SubSeq(s, 1, k) \in Seq(D) /\ Len(SubSeq(s, 1, k)) = k
           /\ \A i \in 1 .. k : SubSeq(s, 1, k)[i] = s[i]
<1>1. \A i \in 1 .. k : s[i] \in D
  OBVIOUS
<1> QED  BY <1>1, SubSeqProperties

(* What is behind it.                                                      *)
LEMMA RestType ==
    ASSUME NEW D, NEW s \in Seq(D), NEW k \in 0 .. Len(s)
    PROVE  /\ SubSeq(s, k + 1, Len(s)) \in Seq(D) /\ Len(SubSeq(s, k + 1, Len(s))) = Len(s) - k
           /\ \A i \in 1 .. Len(s) - k : SubSeq(s, k + 1, Len(s))[i] = s[i + k]
<1>1. \A i \in k + 1 .. Len(s) : s[i] \in D
  OBVIOUS
<1> QED  BY <1>1, SubSeqProperties

(* The file and what is said of it are texts.                             *)
LEMMA FileStep == ASSUME IInv, [Next]_vars PROVE FileType'
<1>1. CASE \E c \in Commands : Type(c)
  <2>1. <<>> \in Seq(Chars)
    OBVIOUS
  <2>2. NoReport \in Reports /\ [NoReport EXCEPT !.said = "failed"] \in Reports
    BY <2>1 DEF NoReport, Reports
  <2>3. report' \in {NoReport, [NoReport EXCEPT !.said = "failed"]} /\ UNCHANGED <<file, told>>
    BY <1>1 DEF Type
  <2> QED  BY <2>2, <2>3 DEF IInv, TypeInv, FileType
<1>2. CASE Receive
  <2>1. file' = file /\ cmd.body \in Bodies
    <3>1. cmd \in Commands
      BY <1>2 DEF Receive, IInv, ControlInv
    <3> QED  BY <1>2, <3>1, CommandsAreSendable DEF Receive, Tell, Sendable
  <2>2. report' \in Reports
    <3>1. received.body \in Seq(Chars) /\ <<>> \in Seq(Chars)
      BY DEF IInv, TypeInv, TextType, Messages
    <3> DEFINE w == Complete /\ ~spoilt
               t == Said(cmd.method, received.status)
               d == received.body
    <3>2. w \in BOOLEAN
      OBVIOUS
    <3>3. t \in {"ok", "error"}
      BY DEF Said
    <3>4. \/ report' = [said |-> "failed", data |-> <<>>, whole |-> FALSE]
          \/ report' = [said |-> t, data |-> d, whole |-> w]
      BY <1>2 DEF Receive, Tell
    <3> HIDE DEF w, t, d
    <3>5. [said |-> t, data |-> d, whole |-> w] \in Reports
      BY <3>1, <3>2, <3>3 DEF Reports, d
    <3>6. [said |-> "failed", data |-> <<>>, whole |-> FALSE] \in Reports
      BY <3>1 DEF Reports
    <3> QED  BY <3>4, <3>5, <3>6
  <2>3. told' \in Bodies \cup {NoFile, Unknown}
    BY <1>2, <2>1 DEF Receive, Tell, IInv, TypeInv, FileType
  <2> QED  BY <2>1, <2>2, <2>3 DEF IInv, TypeInv, FileType
<1>3. CASE ReceiveCounted
  <2>1. file' = file /\ cmd.body \in Bodies
    <3>1. cmd \in Commands
      BY <1>3 DEF ReceiveCounted, IInv, ControlInv
    <3> QED  BY <1>3, <3>1, CommandsAreSendable DEF ReceiveCounted, Tell, Sendable
  <2>2. report' \in Reports
    <3>1. received.body \in Seq(Chars)
      BY DEF IInv, TypeInv, TextType, Messages
    <3>2. (~spoilt) \in BOOLEAN
      OBVIOUS
    <3>3. Said(cmd.method, received.status) \in {"ok", "error"}
      BY DEF Said
    <3> QED  BY <1>3, <3>1, <3>2, <3>3 DEF ReceiveCounted, Tell, Reports
  <2>3. told' \in Bodies \cup {NoFile, Unknown}
    BY <1>3, <2>1 DEF ReceiveCounted, Tell, IInv, TypeInv, FileType
  <2> QED  BY <2>1, <2>2, <2>3 DEF IInv, TypeInv, FileType
<1>4. CASE HangUp
  <2>1. report' = NoReport /\ file' = file /\ told' \in {told, Unknown}
    BY <1>4 DEF HangUp
  <2>2. <<>> \in Seq(Chars)
    OBVIOUS
  <2> QED  BY <2>1, <2>2 DEF IInv, TypeInv, FileType, Reports, NoReport
<1>5. CASE Dies
  BY <1>5 DEF Dies, Die, Close, IInv, TypeInv, FileType, client
<1>6. CASE Stop
  BY <1>6 DEF Stop, IInv, TypeInv, FileType, client
<1>7. CASE Restart
  BY <1>7 DEF Restart, IInv, TypeInv, FileType, client
<1>8. CASE ReadHeaders
  BY <1>8 DEF ReadHeaders, IInv, TypeInv, FileType, client
<1>9. CASE NoHeaders
  BY <1>9 DEF NoHeaders, Close, IInv, TypeInv, FileType, client
<1>10. CASE ReadBody
  BY <1>10 DEF ReadBody, IInv, TypeInv, FileType, client
<1>11. CASE Parses
  BY <1>11 DEF Parses, IInv, TypeInv, FileType, client
<1>12. CASE FixedAnswer
  BY <1>12 DEF FixedAnswer, Respond, IInv, TypeInv, FileType, client
<1>13. CASE StaticGet
  BY <1>13 DEF StaticGet, Respond, At, IInv, TypeInv, FileType, client
<1>14. CASE Puts
  <2>1. PICK m \in {"PUT", "POST"} : StaticPut(m)
    BY <1>14 DEF Puts
  <2>2. PICK k \in 0 .. Len(request.body) : file' = SubSeq(request.body, 1, k)
    BY <2>1 DEF StaticPut
  <2>3. request.body \in Seq(STRING) /\ UNCHANGED <<told, report>>
    BY <2>1 DEF StaticPut, Respond, At, IInv, RouteInv, Bodies, client
  <2>4. file' \in Bodies
    BY <2>2, <2>3, CutType DEF Bodies
  <2> QED  BY <2>3, <2>4 DEF IInv, TypeInv, FileType
<1>15. CASE StaticConflict
  BY <1>15 DEF StaticConflict, Respond, At, IInv, TypeInv, FileType, client
<1>16. CASE StaticDelete
  BY <1>16 DEF StaticDelete, Respond, At, IInv, TypeInv, FileType, client
<1>17. CASE StaticFails
  BY <1>17 DEF StaticFails, Respond, At, IInv, TypeInv, FileType, client
<1>18. CASE Search
  BY <1>18 DEF Search, IInv, TypeInv, FileType, client
<1>19. CASE SearchWork
  BY <1>19 DEF SearchWork, Searching, ServiceStep, IInv, TypeInv, FileType, client
<1>20. CASE SearchAnswer
  BY <1>20 DEF SearchAnswer, Respond, IInv, TypeInv, FileType, client
<1>21. CASE Write
  BY <1>21 DEF Write, Close, IInv, TypeInv, FileType, client
<1>22. CASE UNCHANGED vars
  BY <1>22 DEF vars, server, client, worker, IInv, TypeInv, FileType, client
<1> QED
  BY <1>1, <1>2, <1>3, <1>4, <1>5, <1>6, <1>7, <1>8, <1>9, <1>10, <1>11,
        <1>12, <1>13, <1>14, <1>15, <1>16, <1>17, <1>18, <1>19, <1>20,
        <1>21, <1>22, NextIsSteps DEF Steps

(* A text without its first character, up to some place.                   *)
LEMMA MiddleType ==
    ASSUME NEW D, NEW s \in Seq(D), NEW k \in 1 .. Len(s)
    PROVE  /\ SubSeq(s, 2, k) \in Seq(D) /\ Len(SubSeq(s, 2, k)) = k - 1
           /\ \A i \in 1 .. k - 1 : SubSeq(s, 2, k)[i] = s[i + 1]
<1>1. \A i \in 2 .. k : s[i] \in D
  OBVIOUS
<1> QED  BY <1>1, SubSeqProperties

(* A text is one over the characters it has.                               *)
LEMMA NarrowSeq ==
    ASSUME NEW D, NEW s \in Seq(D), NEW T, \A i \in 1 .. Len(s) : s[i] \in T
    PROVE  s \in Seq(T)
<1>1. s = [i \in 1 .. Len(s) |-> s[i]] /\ Len(s) \in Nat
  OBVIOUS
<1> DEFINE n == Len(s)
<1> HIDE DEF n
<1>2. s \in [1 .. n -> T] /\ n \in Nat
  BY <1>1 DEF n
<1> QED  BY <1>2

(* Reading moves what is unread over, and changes nothing in the whole.    *)
LEMMA MovedOver ==
    ASSUME NEW D, NEW r \in Seq(D), NEW u \in Seq(D), NEW k \in 0 .. Len(u)
    PROVE  LET p == r \o SubSeq(u, 1, k)
           IN  /\ p \in Seq(D) /\ Len(p) <= Len(r \o u)
               /\ \A i \in 1 .. Len(p) : p[i] = (r \o u)[i]
<1> DEFINE v == SubSeq(u, 1, k)
           p == r \o v
<1>1. v \in Seq(D) /\ Len(v) = k /\ \A i \in 1 .. k : v[i] = u[i]
  BY CutType
<1> HIDE DEF v
<1>2. p \in Seq(D) /\ Len(p) = Len(r) + k
  BY <1>1
<1>3. ASSUME NEW i \in 1 .. Len(p) PROVE p[i] = (r \o u)[i]
  <2>1. CASE i <= Len(r)
    BY <1>1, <1>2, <2>1
  <2>2. CASE ~(i <= Len(r))
    <3>1. i - Len(r) \in 1 .. k /\ i \in 1 .. Len(r) + Len(u)
      BY <1>2, <2>2
    <3>2. p[i] = v[i - Len(r)] /\ (r \o u)[i] = u[i - Len(r)]
      BY <1>1, <1>2, <2>2, <3>1
    <3> QED  BY <1>1, <3>1, <3>2
  <2> QED  BY <2>1, <2>2
<1>4. Len(p) <= Len(r \o u)
  BY <1>2
<1> QED  BY <1>2, <1>3, <1>4 DEF v

(* Headers are read once for a request, and before its body.               *)
LEMMA HeadersAreFirst ==
    ASSUME IInv, ReadHeaders
    PROVE  /\ Begins(unread, <<"headers">> \o cmd.body) /\ response = Nothing
           /\ cmd.body \in Bodies /\ cmd \in Commands
<1>1. wpc = "headers" /\ unread # <<>> /\ unread[1] = "headers" /\ unread \in Seq(Chars)
  BY DEF ReadHeaders, IInv, TypeInv, TextType
<1>2. ~Left
  <2>1. 1 \in DOMAIN unread
    BY <1>1
  <2> QED  BY <1>1, <2>1 DEF Left, Range
<1>3. response = Nothing
  BY <1>1, <1>2 DEF IInv, ReadInv
<1>4. cmd \in Commands /\ cmd.body \in Bodies
  BY <1>1, CommandsAreSendable DEF IInv, ControlInv, Sendable
<1> QED  BY <1>1, <1>3, <1>4 DEF IInv, ReadInv

(* What is behind the headers is the body.                                 *)
LEMMA BehindHeaders ==
    ASSUME NEW u \in Seq(Chars), NEW body \in Bodies, Begins(u, <<"headers">> \o body)
    PROVE  /\ Len(u) <= Len(body) + 1
           /\ \A i \in 1 .. Len(u) - 1 : u[i + 1] = body[i] /\ i \in 1 .. Len(body)
<1> DEFINE w == <<"headers">> \o body
<1>1. body \in Seq(Chars) /\ <<"headers">> \in Seq(Chars)
  BY BodiesAreChars DEF Chars
<1>2. /\ w \in Seq(Chars) /\ Len(w) = Len(body) + 1
      /\ \A i \in 1 .. Len(body) : w[i + 1] = body[i]
  BY <1>1
<1>3. Begins(u, w)
  OBVIOUS
<1> HIDE DEF w
<1>4. Len(u) <= Len(body) + 1 /\ Len(u) \in Nat /\ Len(body) \in Nat
  BY <1>1, <1>2, <1>3 DEF Begins
<1>5. ASSUME NEW i \in 1 .. Len(u) - 1 PROVE u[i + 1] = body[i] /\ i \in 1 .. Len(body)
  <2>1. i + 1 \in 1 .. Len(u) /\ i \in 1 .. Len(body)
    BY <1>4
  <2> QED  BY <1>2, <1>3, <2>1 DEF Begins
<1> QED  BY <1>4, <1>5

(* Whoever answers sends a status and a text.                              *)
Statuses == {200, 201, 204, 404, 409, 500, 501}
Answered == \E status \in Statuses, body \in Seq(Chars) : Respond(status, body)

(* All handlers answer in one of these ways.                               *)
LEMMA AnswersAreMessages ==
    ASSUME IInv,
           \/ FixedAnswer \/ StaticGet \/ Puts \/ StaticConflict
           \/ StaticDelete \/ StaticFails \/ SearchAnswer
    PROVE  Answered
<1> DEFINE e == <<>>
           p == <<"page">>
           j == <<"json">>
<1>1. e \in Seq(Chars) /\ p \in Seq(Chars) /\ j \in Seq(Chars)
  BY DEF Chars
<1>2. ASSUME NEW n \in Statuses, NEW b \in Seq(Chars), Respond(n, b)
      PROVE  Answered
  BY <1>2 DEF Answered
<1>3. /\ 200 \in Statuses /\ 201 \in Statuses /\ 204 \in Statuses /\ 404 \in Statuses
      /\ 409 \in Statuses /\ 500 \in Statuses /\ 501 \in Statuses
  BY DEF Statuses
<1>4. \A n \in Statuses : Respond(n, e) => Answered
  BY <1>1, <1>2
<1>5. CASE FixedAnswer
  <2>1. Respond(200, p) \/ Respond(404, e) \/ Respond(501, e)
    BY <1>5 DEF FixedAnswer
  <2>2. Respond(200, p) => Answered
    BY <1>1, <1>2, <1>3
  <2> HIDE DEF e, p
  <2> QED  BY <1>3, <1>4, <2>1, <2>2
<1>6. CASE StaticGet
  <2>1. CASE Respond(404, e)
    <3> HIDE DEF e
    <3> QED  BY <1>3, <1>4, <2>1
  <2>2. CASE file # NoFile /\ \E k \in 0 .. Len(file) : Respond(200, SubSeq(file, 1, k))
    <3>1. PICK k \in 0 .. Len(file) : Respond(200, SubSeq(file, 1, k))
      BY <2>2
    <3>2. file \in Seq(Chars)
      BY <2>2, BodiesAreChars DEF IInv, TypeInv, FileType
    <3>3. SubSeq(file, 1, k) \in Seq(Chars)
      BY <3>2, CutType
    <3> QED  BY <1>2, <1>3, <3>1, <3>3
  <2> QED  BY <1>6, <2>1, <2>2 DEF StaticGet
<1>7. CASE Puts \/ StaticConflict \/ StaticDelete \/ StaticFails
  <2>1. \/ Respond(201, e) \/ Respond(200, e) \/ Respond(409, e)
        \/ Respond(404, e) \/ Respond(204, e) \/ Respond(500, e)
    BY <1>7 DEF Puts, StaticPut, StaticConflict, StaticDelete, StaticFails
  <2> HIDE DEF e
  <2> QED  BY <1>3, <1>4, <2>1
<1>8. CASE SearchAnswer
  <2>1. Respond(200, j)
    BY <1>8 DEF SearchAnswer
  <2> QED  BY <1>1, <1>2, <1>3, <2>1
<1> QED  BY <1>5, <1>6, <1>7, <1>8

(* What a write sends, and where HandleClient goes then.                   *)
Writes(n) ==
    /\ wpc = "send"
    /\ received' = [response EXCEPT !.body = SubSeq(response.body, 1, n)]
    /\ \/ n < Len(response.body) /\ n = Len(received.body) + Chunk /\ wpc' = "send"
       \/ n = Len(response.body) /\ wpc' \in {"headers", IF gone THEN "none" ELSE "closed"}
    /\ UNCHANGED <<server, file, client, unread, raw, request, response, spoilt, apiVars>>

(* SendAll writes some of the body, or all that is left.                   *)
LEMMA WriteWrites ==
    ASSUME IInv, Write
    PROVE  \E n \in 0 .. Len(response.body) : Writes(n)
<1> DEFINE a == Len(received.body) + Chunk
           b == Len(response.body)
           n == Min({a, b})
<1>1. a \in Nat /\ b \in Nat
  BY ExchangeAssumption DEF IInv, TypeInv, TextType, Messages
<1>2. n = (IF a <= b THEN a ELSE b)
  <2> HIDE DEF a, b
  <2>1. {a, b} \subseteq Nat
    BY <1>1
  <2>2. a <= b => Min({a, b}) = a
    BY <1>1, <2>1, MinIs
  <2>3. ~(a <= b) => Min({a, b}) = b
    <3>1. ~(a <= b) => b <= a /\ b <= b
      BY <1>1
    <3> QED  BY <2>1, <3>1, MinIs
  <2> QED  BY <2>2, <2>3
<1>3. /\ wpc = "send"
      /\ received' = [response EXCEPT !.body = SubSeq(response.body, 1, n)]
      /\ IF n < b THEN UNCHANGED wpc ELSE IF request.close THEN Close ELSE wpc' = "headers"
      /\ UNCHANGED <<server, file, client, unread, raw, request, response, spoilt, apiVars>>
  BY DEF Write
<1>4. n \in 0 .. b /\ (n < b => n = a) /\ (~(n < b) => n = b)
  <2> HIDE DEF a, b, n
  <2> QED  BY <1>1, <1>2
<1> HIDE DEF n
<1>5. Writes(n)
  BY <1>3, <1>4 DEF Writes, Close
<1> QED  BY <1>4, <1>5

(* So is what is on its way.                                              *)
LEMMA TextStep == ASSUME IInv, [Next]_vars PROVE TextType'
<1>1. CASE \E c \in Commands : Type(c)
  <2>1. PICK c \in Commands : Type(c)
    BY <1>1
  <2>2. Nothing \in Messages /\ <<>> \in Bodies
    BY DEF Nothing, Messages, Bodies
  <2>3. <<"headers">> \o c.body \in Seq(Chars)
    <3>1. c.body \in Seq(Chars)
      BY CommandsAreSendable, BodiesAreChars DEF Sendable
    <3>2. <<"headers">> \in Seq(Chars)
      BY DEF Chars
    <3> QED  BY <3>1, <3>2
  <2>4. unread' \in {unread, <<"headers">> \o c.body}
    BY <2>1 DEF Type
  <2> QED  BY <2>1, <2>2, <2>3, <2>4 DEF Type, IInv, TypeInv, TextType
<1>2. CASE Receive
  BY <1>2 DEF Receive, Tell, IInv, TypeInv, TextType, client, worker
<1>3. CASE ReceiveCounted
  BY <1>3 DEF ReceiveCounted, Tell, IInv, TypeInv, TextType, client, worker
<1>4. CASE HangUp
  <2>1. PICK k \in 0 .. Len(unread) : unread' = SubSeq(unread, 1, k)
    BY <1>4 DEF HangUp
  <2>2. unread' \in Seq(Chars)
    BY <2>1, CutType DEF IInv, TypeInv, TextType
  <2> QED  BY <1>4, <2>2 DEF HangUp, IInv, TypeInv, TextType
<1>5. CASE Dies
  BY <1>5 DEF Dies, Die, Close, IInv, TypeInv, TextType, client, worker
<1>6. CASE Stop
  BY <1>6 DEF Stop, IInv, TypeInv, TextType, client, worker
<1>7. CASE Restart
  BY <1>7 DEF Restart, IInv, TypeInv, TextType, client, worker
<1>8. CASE ReadHeaders
  <2>1. UNCHANGED <<received, response>>
    BY <1>8 DEF ReadHeaders
  <2>2. PICK k \in 1 .. Len(unread) :
          raw' = SubSeq(unread, 2, k) /\ unread' = SubSeq(unread, k + 1, Len(unread))
    BY <1>8 DEF ReadHeaders
  <2>3. unread \in Seq(Chars) /\ k \in 0 .. Len(unread)
    BY DEF IInv, TypeInv, TextType
  <2>4. unread' \in Seq(Chars)
    BY <2>2, <2>3, RestType
  <2>5. raw' \in Bodies
    <3>1. Begins(unread, <<"headers">> \o cmd.body) /\ cmd.body \in Bodies
      BY <1>8, HeadersAreFirst
    <3>2. raw' \in Seq(Chars) /\ Len(raw') = k - 1 /\ \A i \in 1 .. k - 1 : raw'[i] = unread[i + 1]
      BY <2>2, <2>3, MiddleType
    <3>3. \A i \in 1 .. k - 1 : unread[i + 1] = cmd.body[i] /\ i \in 1 .. Len(cmd.body)
      <4> DEFINE b == cmd.body
                 u == unread
      <4>1. u \in Seq(Chars) /\ b \in Bodies /\ Begins(u, <<"headers">> \o b)
        BY <2>3, <3>1
      <4> HIDE DEF b, u
      <4>2. \A i \in 1 .. Len(u) - 1 : u[i + 1] = b[i] /\ i \in 1 .. Len(b)
        BY <4>1, BehindHeaders
      <4>3. \A i \in 1 .. k - 1 : i \in 1 .. Len(u) - 1
        BY <2>2, <4>1 DEF u
      <4> QED  BY <4>2, <4>3 DEF b, u
    <3>4. \A i \in 1 .. k - 1 : cmd.body[i] \in STRING
      BY <3>1, <3>3 DEF Bodies
    <3> DEFINE r == raw'
    <3>5. r \in Seq(Chars) /\ \A i \in 1 .. Len(r) : r[i] \in STRING
      BY <3>2, <3>3, <3>4
    <3> HIDE DEF r
    <3>6. r \in Bodies
      BY <3>5, NarrowSeq DEF Bodies
    <3> QED  BY <3>6 DEF r
  <2> QED  BY <2>1, <2>4, <2>5 DEF IInv, TypeInv, TextType
<1>9. CASE NoHeaders
  BY <1>9 DEF NoHeaders, Close, IInv, TypeInv, TextType, client, worker
<1>10. CASE ReadBody
  <2>1. UNCHANGED <<received, response, cmd>> /\ wpc = "body"
    BY <1>10 DEF ReadBody, client
  <2>2. PICK k \in 1 .. Len(unread) :
          raw' = raw \o SubSeq(unread, 1, k) /\ unread' = SubSeq(unread, k + 1, Len(unread))
    BY <1>10 DEF ReadBody
  <2>3. unread \in Seq(Chars) /\ k \in 0 .. Len(unread) /\ raw \in Bodies
    BY DEF IInv, TypeInv, TextType
  <2>4. unread' \in Seq(Chars)
    BY <2>2, <2>3, RestType
  <2>5. raw' \in Bodies
    <3>1. cmd.body \in Bodies /\ Begins(raw \o unread, cmd.body)
      BY <2>1, CommandsAreSendable DEF IInv, ControlInv, ReadInv, Sendable
    <3>2. raw \in Seq(Chars)
      BY <2>3, BodiesAreChars
    <3> DEFINE p == raw \o SubSeq(unread, 1, k)
    <3>3. p \in Seq(Chars) /\ Len(p) <= Len(raw \o unread)
          /\ \A i \in 1 .. Len(p) : p[i] = (raw \o unread)[i]
      BY <2>3, <3>2, MovedOver
    <3>4. \A i \in 1 .. Len(p) : p[i] = cmd.body[i] /\ i \in 1 .. Len(cmd.body)
      <4> DEFINE w == raw \o unread
      <4>1. w \in Seq(Chars) /\ Begins(w, cmd.body)
        BY <2>3, <3>1, <3>2
      <4>2. Len(w) \in Nat /\ Len(w) <= Len(cmd.body) /\ Len(cmd.body) \in Nat
        BY <3>1, <4>1 DEF Begins, Bodies
      <4> HIDE DEF w
      <4>3. Len(p) \in Nat /\ Len(p) <= Len(w) /\ \A i \in 1 .. Len(p) : p[i] = w[i]
        BY <3>3 DEF w
      <4> HIDE DEF p
      <4> QED  BY <4>1, <4>2, <4>3 DEF Begins
    <3> HIDE DEF p
    <3>5. \A i \in 1 .. Len(p) : p[i] \in STRING
      BY <3>1, <3>4 DEF Bodies
    <3>6. p \in Bodies
      BY <3>3, <3>5, NarrowSeq DEF Bodies
    <3> QED  BY <2>2, <3>6 DEF p
  <2> QED  BY <2>1, <2>4, <2>5 DEF IInv, TypeInv, TextType
<1>11. CASE Parses
  BY <1>11 DEF Parses, IInv, TypeInv, TextType, client, worker
<1>12. CASE FixedAnswer
  <2>1. PICK status \in Statuses, body \in Seq(Chars) : Respond(status, body)
    BY <1>12, AnswersAreMessages DEF Answered
  <2> QED  BY <2>1 DEF Statuses, Respond, IInv, TypeInv, TextType, Messages, client
<1>13. CASE StaticGet
  <2>1. PICK status \in Statuses, body \in Seq(Chars) : Respond(status, body)
    BY <1>13, AnswersAreMessages DEF Answered
  <2> QED  BY <2>1 DEF Statuses, Respond, IInv, TypeInv, TextType, Messages, client
<1>14. CASE Puts
  <2>1. PICK status \in Statuses, body \in Seq(Chars) : Respond(status, body)
    BY <1>14, AnswersAreMessages DEF Answered
  <2> QED  BY <2>1 DEF Statuses, Respond, IInv, TypeInv, TextType, Messages, client
<1>15. CASE StaticConflict
  <2>1. PICK status \in Statuses, body \in Seq(Chars) : Respond(status, body)
    BY <1>15, AnswersAreMessages DEF Answered
  <2> QED  BY <2>1 DEF Statuses, Respond, IInv, TypeInv, TextType, Messages, client
<1>16. CASE StaticDelete
  <2>1. PICK status \in Statuses, body \in Seq(Chars) : Respond(status, body)
    BY <1>16, AnswersAreMessages DEF Answered
  <2> QED  BY <2>1 DEF Statuses, Respond, IInv, TypeInv, TextType, Messages, client
<1>17. CASE StaticFails
  <2>1. PICK status \in Statuses, body \in Seq(Chars) : Respond(status, body)
    BY <1>17, AnswersAreMessages DEF Answered
  <2> QED  BY <2>1 DEF Statuses, Respond, IInv, TypeInv, TextType, Messages, client
<1>18. CASE Search
  BY <1>18 DEF Search, IInv, TypeInv, TextType, client, worker
<1>19. CASE SearchWork
  BY <1>19 DEF SearchWork, Searching, ServiceStep, IInv, TypeInv, TextType, client, worker
<1>20. CASE SearchAnswer
  <2>1. PICK status \in Statuses, body \in Seq(Chars) : Respond(status, body)
    BY <1>20, AnswersAreMessages DEF Answered
  <2> QED  BY <2>1 DEF Statuses, Respond, IInv, TypeInv, TextType, Messages, client
<1>21. CASE Write
  <2>1. PICK n \in 0 .. Len(response.body) : Writes(n)
    BY <1>21, WriteWrites
  <2>2. received' \in Messages
    <3>1. SubSeq(response.body, 1, n) \in Seq(Chars)
      BY CutType DEF IInv, TypeInv, TextType, Messages
    <3> QED  BY <2>1, <3>1 DEF Writes, IInv, TypeInv, TextType, Messages
  <2> QED  BY <2>1, <2>2 DEF Writes, IInv, TypeInv, TextType
<1>22. CASE UNCHANGED vars
  BY <1>22 DEF vars, server, client, worker, IInv, TypeInv, TextType, client, worker
<1> QED
  BY <1>1, <1>2, <1>3, <1>4, <1>5, <1>6, <1>7, <1>8, <1>9, <1>10, <1>11,
        <1>12, <1>13, <1>14, <1>15, <1>16, <1>17, <1>18, <1>19, <1>20,
        <1>21, <1>22, NextIsSteps DEF Steps

(* IsPrefix, element by element.                                           *)
LEMMA BeginsIsPrefix ==
    ASSUME NEW D, NEW s \in Seq(D), NEW t \in Seq(D), Len(t) <= Len(s),
           \A i \in 1 .. Len(t) : t[i] = s[i]
    PROVE  IsPrefix(t, s)
<1>1. Len(t) \in Nat /\ Len(s) \in Nat
  OBVIOUS
<1>2. \A i \in 1 .. Len(t) : t[i] \in D /\ s[i] \in D
  BY <1>1
<1> DEFINE k == Len(t)
<1>3. SubSeq(s, 1, k) \in Seq(D) /\ Len(SubSeq(s, 1, k)) = k
      /\ \A i \in 1 .. k : SubSeq(s, 1, k)[i] = s[i]
  BY <1>1, CutType
<1>4. SubSeq(t, 1, k) \in Seq(D) /\ Len(SubSeq(t, 1, k)) = k
      /\ \A i \in 1 .. k : SubSeq(t, 1, k)[i] = t[i]
  BY <1>1, CutType
<1>5. SubSeq(t, 1, k) = SubSeq(s, 1, k)
  <2> DEFINE u == SubSeq(t, 1, k)
             v == SubSeq(s, 1, k)
  <2>1. u \in Seq(D) /\ v \in Seq(D) /\ Len(u) = Len(v)
    BY <1>3, <1>4
  <2>2. \A i \in 1 .. Len(u) : u[i] = v[i]
    BY <1>3, <1>4
  <2> HIDE DEF u, v
  <2>3. u = v
    BY <2>1, <2>2
  <2> QED  BY <2>3 DEF u, v
<1> QED  BY <1>5 DEF IsPrefix

(* What answering does, whatever the answer.                               *)
LEMMA AnsweredSends ==
    ASSUME IInv, Answered, wpc \in {"route", "api"}
    PROVE  /\ wpc' = "send" /\ response' # Nothing /\ received' = Nothing
           /\ response'.body \in Seq(Chars) /\ response' \in Messages
           /\ UNCHANGED <<cmd, unread, busy, told, report, gone, raw, request>>
<1>1. PICK status \in Statuses, body \in Seq(Chars) : Respond(status, body)
  BY DEF Answered
<1>2. response' = [status |-> status, body |-> body] /\ wpc' = "send" /\ status # 0 /\ status \in Nat
  BY <1>1 DEF Respond, Statuses
<1>3. response'.status # 0 /\ Nothing.status = 0
  BY <1>2 DEF Nothing
<1>4. received = Nothing
  BY DEF IInv, SendInv
<1> QED  BY <1>1, <1>2, <1>3, <1>4 DEF Respond, client, Messages

(* All handlers hand their answer to SendAll in the same way.              *)
LEMMA AnswersSend ==
    ASSUME IInv,
           \/ FixedAnswer \/ StaticGet \/ Puts \/ StaticConflict
           \/ StaticDelete \/ StaticFails \/ SearchAnswer
    PROVE  /\ wpc' = "send" /\ response' # Nothing /\ received' = Nothing
           /\ response'.body \in Seq(Chars) /\ response' \in Messages
           /\ UNCHANGED <<cmd, unread, busy, told, report, gone, raw, request>>
           /\ wpc \in {"route", "api"}
<1>1. Answered
  BY AnswersAreMessages
<1>2. wpc \in {"route", "api"}
  BY DEF FixedAnswer, StaticGet, Puts, StaticPut, StaticConflict, StaticDelete,
         StaticFails, SearchAnswer, At
<1> QED  BY <1>1, <1>2, AnsweredSends

(* There is a response where one is sent.                                 *)
LEMMA SendStep == ASSUME IInv, [Next]_vars PROVE SendInv'
<1> DEFINE p == IsPrefix(received.body, response.body)
<1>p. SendInv /\ TextType
  BY DEF IInv, TypeInv
<1>q. UNCHANGED <<received, response>> => p'
  BY <1>p DEF SendInv
<1>1. CASE \E c \in Commands : Type(c)
  <2>1. received' = Nothing /\ response' = Nothing /\ wpc' \in {"none", "headers"}
    BY <1>1 DEF Type
  <2>2. <<>> \in Seq(Chars) /\ Nothing.body = <<>>
    BY DEF Nothing
  <2>3. IsPrefix(<<>>, <<>>)
    BY <2>2, EmptyIsPrefix
  <2>4. p'
    BY <2>1, <2>2, <2>3
  <2> HIDE DEF p
  <2> QED  BY <2>1, <2>4 DEF SendInv, p
<1>2. CASE Receive
  <2>1. UNCHANGED <<received, response>> /\ (wpc' = "send" => wpc = "send")
        /\ (wpc' \in {"body", "route", "api"} => wpc \in {"body", "route", "api"})
    BY <1>2 DEF Receive, Tell, client, worker
  <2> HIDE DEF p
  <2> QED  BY <1>p, <1>q, <2>1 DEF SendInv, p
<1>3. CASE ReceiveCounted
  <2>1. UNCHANGED <<received, response>> /\ (wpc' = "send" => wpc = "send")
        /\ (wpc' \in {"body", "route", "api"} => wpc \in {"body", "route", "api"})
    BY <1>3 DEF ReceiveCounted, Tell, client, worker
  <2> HIDE DEF p
  <2> QED  BY <1>p, <1>q, <2>1 DEF SendInv, p
<1>4. CASE HangUp
  <2>1. UNCHANGED <<received, response>> /\ (wpc' = "send" => wpc = "send")
        /\ (wpc' \in {"body", "route", "api"} => wpc \in {"body", "route", "api"})
    BY <1>4 DEF HangUp, client, worker
  <2> HIDE DEF p
  <2> QED  BY <1>p, <1>q, <2>1 DEF SendInv, p
<1>5. CASE Dies
  <2>1. UNCHANGED <<received, response>> /\ (wpc' = "send" => wpc = "send")
        /\ (wpc' \in {"body", "route", "api"} => wpc \in {"body", "route", "api"})
    BY <1>5 DEF Dies, Die, Close, client, worker
  <2> HIDE DEF p
  <2> QED  BY <1>p, <1>q, <2>1 DEF SendInv, p
<1>6. CASE Stop
  <2>1. UNCHANGED <<received, response>> /\ (wpc' = "send" => wpc = "send")
        /\ (wpc' \in {"body", "route", "api"} => wpc \in {"body", "route", "api"})
    BY <1>6 DEF Stop, client, worker
  <2> HIDE DEF p
  <2> QED  BY <1>p, <1>q, <2>1 DEF SendInv, p
<1>7. CASE Restart
  <2>1. UNCHANGED <<received, response>> /\ (wpc' = "send" => wpc = "send")
        /\ (wpc' \in {"body", "route", "api"} => wpc \in {"body", "route", "api"})
    BY <1>7 DEF Restart, client, worker
  <2> HIDE DEF p
  <2> QED  BY <1>p, <1>q, <2>1 DEF SendInv, p
<1>8. CASE ReadHeaders
  <2>1. response = Nothing
    BY <1>8, HeadersAreFirst
  <2> HIDE DEF p
  <2> QED  BY <1>8, <2>1, <1>p, <1>q DEF ReadHeaders, SendInv, p
<1>9. CASE NoHeaders
  <2>1. UNCHANGED <<received, response>> /\ (wpc' = "send" => wpc = "send")
        /\ (wpc' \in {"body", "route", "api"} => wpc \in {"body", "route", "api"})
    BY <1>9 DEF NoHeaders, Close, client, worker
  <2> HIDE DEF p
  <2> QED  BY <1>p, <1>q, <2>1 DEF SendInv, p
<1>10. CASE ReadBody
  <2>1. UNCHANGED <<received, response>> /\ (wpc' = "send" => wpc = "send")
        /\ (wpc' \in {"body", "route", "api"} => wpc \in {"body", "route", "api"})
    BY <1>10 DEF ReadBody, client, worker
  <2> HIDE DEF p
  <2> QED  BY <1>p, <1>q, <2>1 DEF SendInv, p
<1>11. CASE Parses
  <2>1. UNCHANGED <<received, response>> /\ (wpc' = "send" => wpc = "send")
        /\ (wpc' \in {"body", "route", "api"} => wpc \in {"body", "route", "api"})
    BY <1>11 DEF Parses, client, worker
  <2> HIDE DEF p
  <2> QED  BY <1>p, <1>q, <2>1 DEF SendInv, p
<1>12. CASE FixedAnswer
  <2>1. wpc' = "send" /\ response' # Nothing /\ received' = Nothing /\ response'.body \in Seq(Chars)
    BY <1>12, AnswersSend
  <2>2. p'
    BY <2>1, EmptyIsPrefix DEF Nothing
  <2> HIDE DEF p
  <2> QED  BY <2>1, <2>2 DEF SendInv, p
<1>13. CASE StaticGet
  <2>1. wpc' = "send" /\ response' # Nothing /\ received' = Nothing /\ response'.body \in Seq(Chars)
    BY <1>13, AnswersSend
  <2>2. p'
    BY <2>1, EmptyIsPrefix DEF Nothing
  <2> HIDE DEF p
  <2> QED  BY <2>1, <2>2 DEF SendInv, p
<1>14. CASE Puts
  <2>1. wpc' = "send" /\ response' # Nothing /\ received' = Nothing /\ response'.body \in Seq(Chars)
    BY <1>14, AnswersSend
  <2>2. p'
    BY <2>1, EmptyIsPrefix DEF Nothing
  <2> HIDE DEF p
  <2> QED  BY <2>1, <2>2 DEF SendInv, p
<1>15. CASE StaticConflict
  <2>1. wpc' = "send" /\ response' # Nothing /\ received' = Nothing /\ response'.body \in Seq(Chars)
    BY <1>15, AnswersSend
  <2>2. p'
    BY <2>1, EmptyIsPrefix DEF Nothing
  <2> HIDE DEF p
  <2> QED  BY <2>1, <2>2 DEF SendInv, p
<1>16. CASE StaticDelete
  <2>1. wpc' = "send" /\ response' # Nothing /\ received' = Nothing /\ response'.body \in Seq(Chars)
    BY <1>16, AnswersSend
  <2>2. p'
    BY <2>1, EmptyIsPrefix DEF Nothing
  <2> HIDE DEF p
  <2> QED  BY <2>1, <2>2 DEF SendInv, p
<1>17. CASE StaticFails
  <2>1. wpc' = "send" /\ response' # Nothing /\ received' = Nothing /\ response'.body \in Seq(Chars)
    BY <1>17, AnswersSend
  <2>2. p'
    BY <2>1, EmptyIsPrefix DEF Nothing
  <2> HIDE DEF p
  <2> QED  BY <2>1, <2>2 DEF SendInv, p
<1>18. CASE Search
  <2>1. UNCHANGED <<received, response>> /\ (wpc' = "send" => wpc = "send")
        /\ (wpc' \in {"body", "route", "api"} => wpc \in {"body", "route", "api"})
    BY <1>18 DEF Search, At, client, worker
  <2> HIDE DEF p
  <2> QED  BY <1>p, <1>q, <2>1 DEF SendInv, p
<1>19. CASE SearchWork
  <2>1. UNCHANGED <<received, response>> /\ (wpc' = "send" => wpc = "send")
        /\ (wpc' \in {"body", "route", "api"} => wpc \in {"body", "route", "api"})
    BY <1>19 DEF SearchWork, Searching, ServiceStep, client, worker
  <2> HIDE DEF p
  <2> QED  BY <1>p, <1>q, <2>1 DEF SendInv, p
<1>20. CASE SearchAnswer
  <2>1. wpc' = "send" /\ response' # Nothing /\ received' = Nothing /\ response'.body \in Seq(Chars)
    BY <1>20, AnswersSend
  <2>2. p'
    BY <2>1, EmptyIsPrefix DEF Nothing
  <2> HIDE DEF p
  <2> QED  BY <2>1, <2>2 DEF SendInv, p
<1>21. CASE Write
  <2>1. PICK n \in 0 .. Len(response.body) : Writes(n)
    BY <1>21, WriteWrites
  <2>2. response.body \in Seq(Chars) /\ received.body \in Seq(Chars) /\ response \in Messages
    BY <1>p DEF TextType, Messages
  <2>3. received'.body = SubSeq(response.body, 1, n) /\ response' = response
    BY <2>1, <2>2 DEF Writes, Messages
  <2>4. p' /\ Len(received'.body) = n
    <3> DEFINE t == SubSeq(response.body, 1, n)
               s == response.body
    <3>1. /\ t \in Seq(Chars) /\ s \in Seq(Chars) /\ Len(t) = n /\ n <= Len(s)
          /\ \A i \in 1 .. Len(t) : t[i] = s[i]
      BY <2>2, CutType
    <3>2. received'.body = t /\ response'.body = s
      BY <2>3
    <3> HIDE DEF t, s
    <3>3. IsPrefix(t, s)
      BY <3>1, BeginsIsPrefix
    <3> QED  BY <3>1, <3>2, <3>3
  <2>5. response # Nothing
    BY <2>1, <1>p DEF Writes, SendInv
  <2>6. wpc' = "send" => Chunk <= n /\ n < Len(response.body)
    BY <2>1, <2>2, ExchangeAssumption DEF Writes
  <2>7. wpc' \notin {"body", "route", "api"}
    BY <2>1 DEF Writes
  <2> HIDE DEF p
  <2> QED  BY <2>3, <2>4, <2>5, <2>6, <2>7 DEF SendInv, p
<1>22. CASE UNCHANGED vars
  <2> HIDE DEF p
  <2> QED  BY <1>22, <1>p, <1>q DEF vars, worker, SendInv, p
<1> QED
  BY <1>1, <1>2, <1>3, <1>4, <1>5, <1>6, <1>7, <1>8, <1>9, <1>10, <1>11,
        <1>12, <1>13, <1>14, <1>15, <1>16, <1>17, <1>18, <1>19, <1>20,
        <1>21, <1>22, NextIsSteps DEF Steps

(* The handler gets the request that the client sent, and when all went well *)
(* its body with nothing left behind it.                                   *)
LEMMA RouteStep == ASSUME IInv, [Next]_vars PROVE RouteInv'
<1>p. RouteInv /\ unread \in Seq(Chars)
  BY DEF IInv, TypeInv, TextType
<1>q. ASSUME UNCHANGED <<cmd, request, spoilt, unread>>, wpc' = "route" => wpc = "route"
      PROVE RouteInv'
  BY <1>p, <1>q DEF RouteInv
<1>r. wpc' # "route" => RouteInv'
  BY DEF RouteInv
<1>1. CASE \E c \in Commands : Type(c)
  <2>1. wpc' # "route"
    BY <1>1 DEF Type
  <2> QED  BY <1>r, <2>1
<1>2. CASE Receive
  <2>1. UNCHANGED <<cmd, request, spoilt, unread>> /\ (wpc' = "route" => wpc = "route")
    BY <1>2 DEF Receive, Tell, client, worker
  <2> QED  BY <1>q, <2>1
<1>3. CASE ReceiveCounted
  <2>1. UNCHANGED <<cmd, request, spoilt, unread>> /\ (wpc' = "route" => wpc = "route")
    BY <1>3 DEF ReceiveCounted, Tell, client, worker
  <2> QED  BY <1>q, <2>1
<1>4. CASE HangUp
  <2>1. PICK k \in 0 .. Len(unread) : unread' = SubSeq(unread, 1, k)
    BY <1>4 DEF HangUp
  <2>2. unread = <<>> => unread' = <<>>
    BY <1>p, <2>1
  <2> QED  BY <1>4, <1>p, <2>2 DEF HangUp, RouteInv
<1>5. CASE Dies
  <2>1. UNCHANGED <<cmd, request, spoilt, unread>> /\ (wpc' = "route" => wpc = "route")
    BY <1>5 DEF Dies, Die, Close, client, worker
  <2> QED  BY <1>q, <2>1
<1>6. CASE Stop
  <2>1. UNCHANGED <<cmd, request, spoilt, unread>> /\ (wpc' = "route" => wpc = "route")
    BY <1>6 DEF Stop, client, worker
  <2> QED  BY <1>q, <2>1
<1>7. CASE Restart
  <2>1. UNCHANGED <<cmd, request, spoilt, unread>> /\ (wpc' = "route" => wpc = "route")
    BY <1>7 DEF Restart, client, worker
  <2> QED  BY <1>q, <2>1
<1>8. CASE ReadHeaders
  <2>1. wpc' # "route"
    BY <1>8 DEF ReadHeaders
  <2> QED  BY <1>r, <2>1
<1>9. CASE NoHeaders
  <2>1. wpc' # "route"
    BY <1>9 DEF NoHeaders, Close
  <2> QED  BY <1>r, <2>1
<1>10. CASE ReadBody
  <2>1. wpc' # "route"
    BY <1>10 DEF ReadBody
  <2> QED  BY <1>r, <2>1
<1>11. CASE Parses
  <2>1. /\ wpc = "body" /\ UNCHANGED <<cmd, unread>>
        /\ spoilt' = (Missing > 0)
    BY <1>11 DEF Parses, client
  <2>2. /\ Sendable(cmd) /\ cmd.body \in Bodies /\ raw \in Bodies /\ cmd.lines \in HeaderLines
        /\ Begins(raw \o unread, cmd.body)
    BY <2>1, CommandsAreSendable DEF IInv, ControlInv, TypeInv, TextType, ReadInv, Sendable
  <2>3. /\ Len(raw) + Len(unread) <= Len(cmd.body) /\ Len(raw) \in Nat /\ Len(unread) \in Nat
        /\ Len(cmd.body) \in Nat
        /\ \A i \in 1 .. Len(raw) : raw[i] = cmd.body[i]
    <3> DEFINE r == raw
               u == unread
               b == cmd.body
               w == r \o u
    <3>1. r \in Seq(Chars) /\ u \in Seq(Chars) /\ b \in Seq(Chars)
      BY <1>p, <2>2, BodiesAreChars
    <3> HIDE DEF r, u, b
    <3>2. Len(w) = Len(r) + Len(u) /\ \A i \in 1 .. Len(r) : w[i] = r[i] /\ i \in 1 .. Len(w)
      BY <3>1
    <3>3. Begins(w, b)
      BY <2>2 DEF r, u, b
    <3> HIDE DEF w
    <3>4. Len(r) + Len(u) <= Len(b) /\ \A i \in 1 .. Len(r) : r[i] = b[i]
      BY <3>2, <3>3 DEF Begins
    <3>5. Len(r) \in Nat /\ Len(u) \in Nat /\ Len(b) \in Nat
      BY <3>1
    <3> QED  BY <3>4, <3>5 DEF r, u, b
  <2>4. Len(raw) = Len(cmd.body) => raw = cmd.body /\ unread = <<>>
    <3>1. ASSUME Len(raw) = Len(cmd.body) PROVE raw = cmd.body
      BY <2>2, <2>3, <3>1 DEF Bodies
    <3>2. ASSUME Len(raw) = Len(cmd.body) PROVE Len(unread) = 0
      BY <2>3, <3>2
    <3> QED  BY <1>p, <3>1, <3>2
  <2>5. CASE cmd.method = ""
    <3>1. request' = Default /\ cmd.body = <<>>
      BY <1>11, <2>2, <2>5 DEF Parses, Sendable
    <3>2. Len(raw) = Len(cmd.body)
      BY <2>3, <3>1
    <3>3. <<>> \in Bodies
      BY DEF Bodies
    <3> QED  BY <2>1, <2>4, <2>5, <3>1, <3>2, <3>3 DEF RouteInv, Default
  <2>6. CASE cmd.method # ""
    <3>1. /\ request'.method = cmd.method /\ request'.target = cmd.target
          /\ request'.body = ParsedBody(cmd.lines, raw) /\ ~ParseThrows(cmd.lines)
          /\ ~TooLong(cmd.lines)
      BY <1>11, <2>6 DEF Parses
    <3>2. request'.body \in Bodies
      BY <2>2, <3>1, ParsedBodyType
    <3>3. ASSUME ~spoilt', WellFormed(cmd.lines)
          PROVE  request'.body = cmd.body /\ unread = <<>>
      <4>1. ReadLength(cmd.lines) = Len(cmd.body) /\ ParsedBody(cmd.lines, cmd.body) = cmd.body
        BY <2>2, <3>1, <3>3, WellFormedBody
      <4>2. Len(raw) = Len(cmd.body)
        <5>1. ~(Missing > 0)
          BY <2>1, <3>3
        <5>2. ~(Len(cmd.body) - Len(raw) > 0)
          BY <4>1, <5>1 DEF Missing
        <5> DEFINE r == Len(raw)
                   b == Len(cmd.body)
        <5>3. r <= b /\ r \in Nat /\ b \in Nat /\ ~(b - r > 0)
          BY <2>3, <5>2
        <5> HIDE DEF r, b
        <5>4. r = b
          BY <5>3
        <5> QED  BY <5>4 DEF r, b
      <4> QED  BY <2>4, <3>1, <4>1, <4>2
    <3> QED  BY <2>1, <3>1, <3>2, <3>3 DEF RouteInv
  <2> QED  BY <2>5, <2>6
<1>12. CASE FixedAnswer
  <2>1. wpc' # "route"
    BY <1>12, AnswersSend
  <2> QED  BY <1>r, <2>1
<1>13. CASE StaticGet
  <2>1. wpc' # "route"
    BY <1>13, AnswersSend
  <2> QED  BY <1>r, <2>1
<1>14. CASE Puts
  <2>1. wpc' # "route"
    BY <1>14, AnswersSend
  <2> QED  BY <1>r, <2>1
<1>15. CASE StaticConflict
  <2>1. wpc' # "route"
    BY <1>15, AnswersSend
  <2> QED  BY <1>r, <2>1
<1>16. CASE StaticDelete
  <2>1. wpc' # "route"
    BY <1>16, AnswersSend
  <2> QED  BY <1>r, <2>1
<1>17. CASE StaticFails
  <2>1. wpc' # "route"
    BY <1>17, AnswersSend
  <2> QED  BY <1>r, <2>1
<1>18. CASE Search
  <2>1. wpc' # "route"
    BY <1>18 DEF Search
  <2> QED  BY <1>r, <2>1
<1>19. CASE SearchWork
  <2>1. UNCHANGED <<cmd, request, spoilt, unread>> /\ (wpc' = "route" => wpc = "route")
    BY <1>19 DEF SearchWork, Searching, ServiceStep, client, worker
  <2> QED  BY <1>q, <2>1
<1>20. CASE SearchAnswer
  <2>1. wpc' # "route"
    BY <1>20, AnswersSend
  <2> QED  BY <1>r, <2>1
<1>21. CASE Write
  <2>1. wpc' # "route"
    BY <1>21, WriteWrites DEF Writes
  <2> QED  BY <1>r, <2>1
<1>22. CASE UNCHANGED vars
  <2>1. UNCHANGED <<cmd, request, spoilt, unread, wpc>>
    BY <1>22 DEF vars, worker, client
  <2> QED  BY <1>q, <2>1
<1> QED
  BY <1>1, <1>2, <1>3, <1>4, <1>5, <1>6, <1>7, <1>8, <1>9, <1>10, <1>11,
        <1>12, <1>13, <1>14, <1>15, <1>16, <1>17, <1>18, <1>19, <1>20,
        <1>21, <1>22, NextIsSteps DEF Steps

(* Beginnings of beginnings.                                               *)
LEMMA LeftBehind ==
    ASSUME NEW u \in Seq(Chars), NEW v \in Seq(Chars), NEW d \in Nat, "headers" \notin Range(u),
           Len(v) + d <= Len(u), \A i \in 1 .. Len(v) : v[i] = u[i + d]
    PROVE  "headers" \notin Range(v)
<1>1. ASSUME NEW i \in DOMAIN v PROVE v[i] # "headers"
  <2>1. i \in 1 .. Len(v) /\ Len(v) \in Nat /\ Len(u) \in Nat
    OBVIOUS
  <2>2. i + d \in 1 .. Len(u)
    BY <2>1
  <2>3. i + d \in DOMAIN u /\ v[i] = u[i + d]
    BY <2>1, <2>2
  <2> QED  BY <2>3 DEF Range
<1> QED  BY <1>1 DEF Range

(* A beginning of a beginning is one.                                      *)
LEMMA CutBegins ==
    ASSUME NEW u \in Seq(Chars), NEW s \in Seq(Chars), NEW k \in 0 .. Len(u), Begins(u, s)
    PROVE  Begins(SubSeq(u, 1, k), s)
<1> DEFINE v == SubSeq(u, 1, k)
<1>1. v \in Seq(Chars) /\ Len(v) = k /\ \A i \in 1 .. k : v[i] = u[i]
  BY CutType
<1>2. Len(u) \in Nat /\ Len(s) \in Nat /\ k \in Nat /\ k <= Len(u)
  OBVIOUS
<1> HIDE DEF v
<1>3. Begins(v, s)
  BY <1>1, <1>2 DEF Begins
<1> QED  BY <1>3 DEF v

(* Reading divides what is left differently.                               *)
LEMMA ReadOn ==
    ASSUME NEW r \in Seq(Chars), NEW u \in Seq(Chars), NEW k \in 0 .. Len(u)
    PROVE  (r \o SubSeq(u, 1, k)) \o SubSeq(u, k + 1, Len(u)) = r \o u
<1> DEFINE a == SubSeq(u, 1, k)
           b == SubSeq(u, k + 1, Len(u))
<1>1. a \in Seq(Chars) /\ Len(a) = k /\ \A i \in 1 .. k : a[i] = u[i]
  BY CutType
<1>2. b \in Seq(Chars) /\ Len(b) = Len(u) - k /\ \A i \in 1 .. Len(u) - k : b[i] = u[i + k]
  BY RestType
<1>3. Len(u) \in Nat /\ k \in Nat /\ k <= Len(u)
  OBVIOUS
<1> HIDE DEF a, b
<1>4. a \o b = u
  <2> DEFINE w == a \o b
  <2>1. w \in Seq(Chars) /\ Len(w) = Len(u)
    <3>1. w \in Seq(Chars) /\ Len(w) = Len(a) + Len(b)
      BY <1>1, <1>2, ConcatProperties
    <3> DEFINE n == Len(u)
    <3>2. n \in Nat /\ k \in Nat /\ Len(a) = k /\ Len(b) = n - k
      BY <1>1, <1>2, <1>3
    <3> HIDE DEF n
    <3>3. Len(w) = n
      BY <3>1, <3>2
    <3> QED  BY <3>1, <3>3 DEF n
  <2>2. ASSUME NEW i \in 1 .. Len(u) PROVE w[i] = u[i]
    <3>1. CASE i <= k
      BY <1>1, <1>2, <1>3, <3>1
    <3>2. CASE ~(i <= k)
      <4>1. i - k \in 1 .. Len(u) - k /\ i - k + k = i
        BY <1>3, <3>2
      <4>2. w[i] = b[i - k]
        BY <1>1, <1>2, <1>3, <3>2
      <4>3. b[i - k] = u[i - k + k]
        BY <1>2, <4>1
      <4> QED  BY <4>1, <4>2, <4>3
    <3> QED  BY <3>1, <3>2
  <2> HIDE DEF w
  <2>3. w = u
    BY <2>1, <2>2
  <2> QED  BY <2>3 DEF w
<1>5. (r \o a) \o b = r \o (a \o b)
  BY <1>1, <1>2
<1> QED  BY <1>4, <1>5 DEF a, b

(* What has been read and what is left go on being a beginning of what was *)
(* sent, and no header block is ever left behind.                          *)
LEMMA ReadStep == ASSUME IInv, [Next]_vars PROVE ReadInv'
<1>p. ReadInv /\ unread \in Seq(Chars) /\ raw \in Seq(Chars)
  BY BodiesAreChars DEF IInv, TypeInv, TextType
<1>q. ASSUME UNCHANGED <<cmd, raw, unread, response>>, wpc' # wpc => wpc' \in {"none", "closed"}
      PROVE ReadInv'
  BY <1>p, <1>q DEF ReadInv, Left
<1>r. ASSUME wpc' \in {"route", "api", "send"}, Left, unread' = unread
      PROVE ReadInv'
  BY <1>r DEF ReadInv, Left
<1>s. wpc' \in {"none", "closed"} => ReadInv'
  BY DEF ReadInv
<1>1. CASE \E c \in Commands : Type(c)
  <2>1. PICK c \in Commands : Type(c)
    BY <1>1
  <2>2. CASE running /\ ~g_done
    <3> DEFINE w == <<"headers">> \o cmd'.body
    <3>1. wpc' = "headers" /\ response' = Nothing /\ unread' = w /\ cmd' = c
      BY <2>1, <2>2 DEF Type
    <3>2. w \in Seq(Chars)
      <4>1. c.body \in Seq(Chars)
        BY CommandsAreSendable, BodiesAreChars DEF Sendable
      <4>2. <<"headers">> \in Seq(Chars)
        BY DEF Chars
      <4> QED  BY <3>1, <4>1, <4>2
    <3>3. Begins(unread', w)
      <4> DEFINE v == w
      <4>1. v \in Seq(Chars) /\ unread' = v
        BY <3>1, <3>2
      <4> HIDE DEF v
      <4>2. Begins(v, v)
        BY <4>1 DEF Begins
      <4> QED  BY <4>1, <4>2 DEF v
    <3> HIDE DEF w
    <3>4. wpc' = "headers" /\ response' = Nothing
      BY <3>1
    <3> QED  BY <3>3, <3>4 DEF ReadInv, w
  <2>3. CASE ~(running /\ ~g_done)
    BY <2>1, <2>3, <1>s DEF Type
  <2> QED  BY <2>2, <2>3
<1>2. CASE Receive
  <2>1. UNCHANGED <<cmd, raw, unread, response>> /\ (wpc' # wpc => wpc' \in {"none", "closed"})
    BY <1>2 DEF Receive, Tell, worker, client
  <2> QED  BY <1>q, <2>1
<1>3. CASE ReceiveCounted
  <2>1. UNCHANGED <<cmd, raw, unread, response>> /\ (wpc' # wpc => wpc' \in {"none", "closed"})
    BY <1>3 DEF ReceiveCounted, Tell, worker, client
  <2> QED  BY <1>q, <2>1
<1>4. CASE HangUp
  <2>1. PICK k \in 0 .. Len(unread) : unread' = SubSeq(unread, 1, k)
    BY <1>4 DEF HangUp
  <2>2. /\ UNCHANGED <<cmd, raw, response>>
        /\ wpc' # wpc => wpc' = "none"
    BY <1>4 DEF HangUp
  <2>3. CASE wpc' # wpc
    BY <1>s, <2>2, <2>3
  <2>4. CASE wpc' = wpc
    <3>1. Left => Left'
      <4> DEFINE u == unread
                 v == unread'
      <4>1. v \in Seq(Chars) /\ Len(v) + 0 <= Len(u) /\ \A i \in 1 .. Len(v) : v[i] = u[i + 0]
        <5>1. v \in Seq(Chars) /\ Len(v) = k /\ \A i \in 1 .. k : v[i] = u[i]
          BY <1>p, <2>1, CutType
        <5>2. Len(u) \in Nat
          BY <1>p
        <5> HIDE DEF u, v
        <5> QED  BY <5>1, <5>2 DEF u
      <4> HIDE DEF u, v
      <4>2. "headers" \notin Range(u) => "headers" \notin Range(v)
        BY <1>p, <4>1, LeftBehind DEF u
      <4> QED  BY <4>2 DEF Left, u, v
    <3>2. CASE wpc = "headers" /\ response = Nothing
      <4>1. Begins(unread, <<"headers">> \o cmd.body)
        BY <1>p, <3>2 DEF ReadInv
      <4>2. <<"headers">> \o cmd.body \in Seq(Chars)
        <5>1. cmd.body \in Seq(Chars)
          BY <3>2, CommandsAreSendable, BodiesAreChars DEF Sendable, IInv, ControlInv
        <5>2. <<"headers">> \in Seq(Chars)
          BY DEF Chars
        <5> QED  BY <5>1, <5>2
      <4>3. Begins(unread', <<"headers">> \o cmd.body)
        BY <1>p, <2>1, <4>1, <4>2, CutBegins
      <4> QED  BY <2>2, <2>4, <3>2, <4>3 DEF ReadInv
    <3>3. CASE wpc = "body"
      <4>1. cmd.body \in Seq(Chars) /\ Begins(raw \o unread, cmd.body)
        BY <1>p, <3>3, CommandsAreSendable, BodiesAreChars DEF Sendable, IInv,
             ControlInv, ReadInv
      <4> DEFINE p == raw \o unread'
                 w == raw \o unread
                 b == cmd.body
      <4>2. p \in Seq(Chars) /\ Len(p) <= Len(w) /\ \A i \in 1 .. Len(p) : p[i] = w[i]
        BY <1>p, <2>1, MovedOver
      <4>3. w \in Seq(Chars) /\ b \in Seq(Chars) /\ Begins(w, b)
        BY <1>p, <4>1
      <4> HIDE DEF p, w, b
      <4>4. Begins(p, b)
        BY <4>2, <4>3 DEF Begins
      <4>5. Begins(raw \o unread', cmd.body)
        BY <4>4 DEF p, b
      <4> QED  BY <2>2, <2>4, <3>3, <4>5 DEF ReadInv
    <3>4. CASE wpc \in {"route", "api", "send"} \/ (wpc = "headers" /\ response # Nothing)
      <4>1. Left'
        BY <1>p, <3>1, <3>4 DEF ReadInv
      <4> QED  BY <2>2, <2>4, <3>4, <4>1 DEF ReadInv
    <3>5. CASE wpc \in {"none", "closed"}
      BY <1>s, <2>4, <3>5
    <3>6. wpc \in {"none", "headers", "body", "route", "api", "send", "closed"}
      BY DEF IInv, TypeInv, StepType
    <3> QED  BY <3>2, <3>3, <3>4, <3>5, <3>6
  <2> QED  BY <2>3, <2>4
<1>5. CASE Dies
  <2>1. UNCHANGED <<cmd, raw, unread, response>> /\ (wpc' # wpc => wpc' \in {"none", "closed"})
    BY <1>5 DEF Dies, Die, Close, worker, client
  <2> QED  BY <1>q, <2>1
<1>6. CASE Stop
  <2>1. UNCHANGED <<cmd, raw, unread, response>> /\ (wpc' # wpc => wpc' \in {"none", "closed"})
    BY <1>6 DEF Stop, worker, client
  <2> QED  BY <1>q, <2>1
<1>7. CASE Restart
  <2>1. UNCHANGED <<cmd, raw, unread, response>> /\ (wpc' # wpc => wpc' \in {"none", "closed"})
    BY <1>7 DEF Restart, worker, client
  <2> QED  BY <1>q, <2>1
<1>8. CASE ReadHeaders
  <2>1. PICK k \in 1 .. Len(unread) :
          raw' = SubSeq(unread, 2, k) /\ unread' = SubSeq(unread, k + 1, Len(unread))
    BY <1>8 DEF ReadHeaders
  <2>2. wpc' = "body" /\ UNCHANGED cmd
    BY <1>8 DEF ReadHeaders, client
  <2> DEFINE u == unread
             b == cmd.body
             r == raw'
             v == unread'
             w == r \o v
  <2>3. u \in Seq(Chars) /\ b \in Bodies /\ Begins(u, <<"headers">> \o b) /\ k \in 1 .. Len(u)
    BY <1>8, <1>p, HeadersAreFirst
  <2>4. r \in Seq(Chars) /\ Len(r) = k - 1 /\ \A i \in 1 .. k - 1 : r[i] = u[i + 1]
    BY <1>p, <2>1, MiddleType
  <2>5. v \in Seq(Chars) /\ Len(v) = Len(u) - k /\ \A i \in 1 .. Len(u) - k : v[i] = u[i + k]
    BY <1>p, <2>1, RestType
  <2> HIDE DEF u, b, r, v
  <2>6. w \in Seq(Chars) /\ Len(w) = Len(u) - 1
    <3>1. w \in Seq(Chars) /\ Len(w) = Len(r) + Len(v)
      BY <2>4, <2>5, ConcatProperties
    <3> DEFINE n == Len(u)
    <3>2. n \in Nat /\ k \in Nat /\ Len(r) = k - 1 /\ Len(v) = n - k
      BY <2>3, <2>4, <2>5
    <3> HIDE DEF n
    <3>3. Len(w) = n - 1
      BY <3>1, <3>2
    <3> QED  BY <3>1, <3>3 DEF n
  <2>7. ASSUME NEW i \in 1 .. Len(w) PROVE w[i] = u[i + 1]
    <3>1. CASE i <= k - 1
      BY <2>3, <2>4, <2>5, <2>6, <3>1
    <3>2. CASE ~(i <= k - 1)
      <4> DEFINE j == i - (k - 1)
      <4>1. j \in 1 .. Len(u) - k /\ j + k = i + 1
        BY <2>3, <2>6, <3>2
      <4>2. w[i] = v[j]
        BY <2>3, <2>4, <2>5, <2>6, <3>2
      <4>3. v[j] = u[j + k]
        BY <2>5, <4>1
      <4> QED  BY <4>1, <4>2, <4>3
    <3> QED  BY <3>1, <3>2
  <2> HIDE DEF w
  <2>8. Len(u) <= Len(b) + 1 /\ \A i \in 1 .. Len(u) - 1 : u[i + 1] = b[i]
    BY <2>3, BehindHeaders
  <2>9. Len(b) \in Nat
    BY <2>3 DEF Bodies
  <2>10. Len(w) <= Len(b)
    BY <2>3, <2>6, <2>8, <2>9
  <2>11. \A i \in 1 .. Len(w) : w[i] = b[i]
    BY <2>6, <2>7, <2>8
  <2>12. Begins(w, b)
    BY <2>10, <2>11 DEF Begins
  <2>13. Begins(raw' \o unread', cmd'.body)
    BY <2>2, <2>12 DEF w, r, v, b
  <2> QED  BY <2>2, <2>13 DEF ReadInv
<1>9. CASE NoHeaders
  <2>1. UNCHANGED <<cmd, raw, unread, response>> /\ (wpc' # wpc => wpc' \in {"none", "closed"})
    BY <1>9 DEF NoHeaders, Close, worker, client
  <2> QED  BY <1>q, <2>1
<1>10. CASE ReadBody
  <2>1. wpc = "body" /\ UNCHANGED <<wpc, cmd>>
    BY <1>10 DEF ReadBody, client
  <2>2. PICK k \in 1 .. Len(unread) :
          raw' = raw \o SubSeq(unread, 1, k) /\ unread' = SubSeq(unread, k + 1, Len(unread))
    BY <1>10 DEF ReadBody
  <2>3. k \in 0 .. Len(unread)
    BY <1>p
  <2>4. raw' \o unread' = raw \o unread
    BY <1>p, <2>2, <2>3, ReadOn
  <2>5. Begins(raw \o unread, cmd.body)
    BY <1>p, <2>1 DEF ReadInv
  <2>6. Begins(raw' \o unread', cmd.body)
    BY <2>4, <2>5
  <2> QED  BY <2>1, <2>6 DEF ReadInv
<1>11. CASE Parses
  <2>1. wpc = "body" /\ wpc' = "route" /\ UNCHANGED unread
    BY <1>11 DEF Parses
  <2> DEFINE r == raw
             u == unread
             b == cmd.body
             w == r \o u
  <2>2. b \in Bodies /\ "headers" \notin Range(b) /\ Begins(w, b)
    BY <1>p, <2>1, CommandsAreSendable DEF Sendable, IInv, ControlInv, ReadInv
  <2>3. r \in Seq(Chars) /\ u \in Seq(Chars) /\ b \in Seq(Chars)
    BY <1>p, <2>2, BodiesAreChars
  <2> HIDE DEF r, u, b
  <2>4. /\ w \in Seq(Chars) /\ Len(w) = Len(r) + Len(u)
        /\ \A i \in 1 .. Len(u) : w[i + Len(r)] = u[i] /\ i + Len(r) \in 1 .. Len(w)
    BY <2>3
  <2>5. Len(u) \in Nat /\ Len(r) \in Nat /\ Len(b) \in Nat
    BY <2>3
  <2> HIDE DEF w
  <2>6. Len(u) + Len(r) <= Len(b) /\ \A i \in 1 .. Len(u) : u[i] = b[i + Len(r)]
    BY <2>2, <2>4, <2>5 DEF Begins
  <2>7. "headers" \notin Range(u)
    BY <2>2, <2>3, <2>5, <2>6, LeftBehind
  <2>8. Left
    BY <2>7 DEF Left, u
  <2> QED  BY <1>r, <2>1, <2>8
<1>12. CASE FixedAnswer
  <2>1. wpc \in {"route", "api"} /\ wpc' = "send" /\ unread' = unread
    BY <1>12, AnswersSend
  <2>2. Left
    BY <1>p, <2>1 DEF ReadInv
  <2> QED  BY <1>r, <2>1, <2>2
<1>13. CASE StaticGet
  <2>1. wpc \in {"route", "api"} /\ wpc' = "send" /\ unread' = unread
    BY <1>13, AnswersSend
  <2>2. Left
    BY <1>p, <2>1 DEF ReadInv
  <2> QED  BY <1>r, <2>1, <2>2
<1>14. CASE Puts
  <2>1. wpc \in {"route", "api"} /\ wpc' = "send" /\ unread' = unread
    BY <1>14, AnswersSend
  <2>2. Left
    BY <1>p, <2>1 DEF ReadInv
  <2> QED  BY <1>r, <2>1, <2>2
<1>15. CASE StaticConflict
  <2>1. wpc \in {"route", "api"} /\ wpc' = "send" /\ unread' = unread
    BY <1>15, AnswersSend
  <2>2. Left
    BY <1>p, <2>1 DEF ReadInv
  <2> QED  BY <1>r, <2>1, <2>2
<1>16. CASE StaticDelete
  <2>1. wpc \in {"route", "api"} /\ wpc' = "send" /\ unread' = unread
    BY <1>16, AnswersSend
  <2>2. Left
    BY <1>p, <2>1 DEF ReadInv
  <2> QED  BY <1>r, <2>1, <2>2
<1>17. CASE StaticFails
  <2>1. wpc \in {"route", "api"} /\ wpc' = "send" /\ unread' = unread
    BY <1>17, AnswersSend
  <2>2. Left
    BY <1>p, <2>1 DEF ReadInv
  <2> QED  BY <1>r, <2>1, <2>2
<1>18. CASE Search
  <2>1. wpc = "route" /\ wpc' = "api" /\ unread' = unread
    BY <1>18 DEF Search, At
  <2>2. Left
    BY <1>p, <2>1 DEF ReadInv
  <2> QED  BY <1>r, <2>1, <2>2
<1>19. CASE SearchWork
  <2>1. UNCHANGED <<cmd, raw, unread, response>> /\ (wpc' # wpc => wpc' \in {"none", "closed"})
    BY <1>19 DEF SearchWork, Searching, ServiceStep, worker, client
  <2> QED  BY <1>q, <2>1
<1>20. CASE SearchAnswer
  <2>1. wpc \in {"route", "api"} /\ wpc' = "send" /\ unread' = unread
    BY <1>20, AnswersSend
  <2>2. Left
    BY <1>p, <2>1 DEF ReadInv
  <2> QED  BY <1>r, <2>1, <2>2
<1>21. CASE Write
  <2>1. wpc' \in {"send", "headers", "none", "closed"} /\ unread' = unread /\ wpc = "send"
        /\ response' = response
    BY <1>21, WriteWrites DEF Writes
  <2>2. Left /\ response # Nothing
    BY <1>p, <2>1 DEF ReadInv, IInv, SendInv
  <2>3. Left'
    BY <2>1, <2>2 DEF Left
  <2> QED  BY <2>1, <2>2, <2>3 DEF ReadInv
<1>22. CASE UNCHANGED vars
  <2>1. UNCHANGED <<cmd, raw, unread, response, wpc>>
    BY <1>22 DEF vars, worker, client
  <2> QED  BY <1>q, <2>1
<1> QED
  BY <1>1, <1>2, <1>3, <1>4, <1>5, <1>6, <1>7, <1>8, <1>9, <1>10, <1>11,
        <1>12, <1>13, <1>14, <1>15, <1>16, <1>17, <1>18, <1>19, <1>20,
        <1>21, <1>22, NextIsSteps DEF Steps

(* What a handler is asked to do is what the client asked for.             *)
LEMMA Asked ==
    ASSUME IInv, NEW m, NEW t, m # "", At(m, t)
    PROVE  cmd.method = m /\ cmd.target = t /\ response = Nothing /\ wpc = "route"
  BY DEF At, IInv, RouteInv, SendInv

(* StaticPut and StaticDelete run for requests that change the file.       *)
LEMMA AskedToMutate ==
    ASSUME IInv, NEW m \in {"PUT", "POST", "DELETE"}, At(m, "static")
    PROVE  Mutates /\ cmd.method = m /\ response = Nothing /\ wpc = "route"
<1>1. m # ""
  OBVIOUS
<1>2. cmd.method = m /\ cmd.target = "static" /\ response = Nothing /\ wpc = "route"
  BY <1>1, Asked
<1> QED  BY <1>2 DEF Mutates

(* The handlers of other requests, and those that leave the file alone.    *)
LEMMA OthersDoNotMutate ==
    ASSUME IInv, FixedAnswer \/ StaticGet \/ SearchAnswer
    PROVE  ~Mutates /\ file' = file
<1>1. CASE FixedAnswer
  <2>1. wpc = "route" /\ file' = file
    BY <1>1 DEF FixedAnswer
  <2>2. request.method = cmd.method /\ (cmd.method # "" => request.target = cmd.target)
    BY <2>1 DEF IInv, RouteInv
  <2>3. \/ request.method = "GET" \/ request.target # "static"
        \/ request.method \notin {"PUT", "POST", "DELETE"}
    BY <1>1 DEF FixedAnswer
  <2> QED  BY <2>1, <2>2, <2>3 DEF Mutates
<1>2. CASE StaticGet
  <2>1. At("GET", "static") /\ "GET" # "" /\ file' = file
    BY <1>2 DEF StaticGet
  <2>2. cmd.method = "GET"
    BY <2>1, Asked
  <2> QED  BY <2>1, <2>2 DEF Mutates
<1>3. CASE SearchAnswer
  BY <1>3 DEF SearchAnswer, Mutates, IInv, ControlInv
<1> QED  BY <1>1, <1>2, <1>3

(* What the user comes to know, from whole answers and from others.        *)
LEMMA TellsTheTruth ==
    ASSUME IInv, busy,
           NEW said, NEW data, NEW whole \in BOOLEAN, Tell(said, data, whole),
           whole => Complete /\ ~spoilt /\ said = Said(cmd.method, received.status)
    PROVE  told' # Unknown => file' = told'
<1>1. StoreInv /\ file' = file
  BY DEF IInv, Tell
<1>2. CASE ~Mutates
  <2>1. told' = told
    BY <1>2 DEF Tell, Mutates
  <2> QED  BY <1>1, <1>2, <2>1 DEF StoreInv
<1>3. CASE Mutates
  <2>0. cmd.method # "GET"
    BY <1>3 DEF Mutates
  <2>1. CASE whole /\ said = "error" /\ received.status \in {404, 409}
    <3>1. told' = told
      BY <2>1 DEF Tell
    <3>2. response # Nothing /\ response.status \in {404, 409}
      BY <2>1 DEF Complete
    <3> QED  BY <1>1, <1>3, <3>1, <3>2 DEF StoreInv
  <2>2. CASE ~(whole /\ said = "error" /\ received.status \in {404, 409})
    <3>1. told' = IF ~whole \/ said # "ok" \/ ~WellFormed(cmd.lines) THEN Unknown
                  ELSE IF cmd.method = "DELETE" THEN NoFile ELSE cmd.body
      BY <1>3, <2>2 DEF Tell, Mutates
    <3>2. ASSUME told' # Unknown
          PROVE  file' = told'
      <4>1. whole /\ said = "ok" /\ WellFormed(cmd.lines)
        BY <3>1, <3>2
      <4>2. response # Nothing /\ received = response /\ ~spoilt
        BY <4>1 DEF Complete
      <4>3. response.status \in 200 .. 299
        BY <2>0, <4>1, <4>2 DEF Said
      <4>4. file = IF cmd.method = "DELETE" THEN NoFile ELSE cmd.body
        BY <1>1, <1>3, <4>1, <4>2, <4>3 DEF StoreInv
      <4> QED  BY <1>1, <3>1, <4>1, <4>4
    <3> QED  BY <3>2
  <2> QED  BY <2>1, <2>2
<1> QED  BY <1>2, <1>3

(* Between requests what the user knows is true, and during one it is known *)
(* what the answer will say.                                               *)
LEMMA StoreStep == ASSUME IInv, [Next]_vars PROVE StoreInv'
<1>p. StoreInv
  BY DEF IInv
<1>q. ASSUME UNCHANGED <<file, told, busy, cmd, response, spoilt>>, wpc = "none" => wpc' = "none"
      PROVE StoreInv'
  <2>1. Mutates' <=> Mutates
    BY <1>q DEF Mutates
  <2> QED  BY <1>p, <1>q, <2>1 DEF StoreInv
<1>r. ASSUME told' # Unknown => file' = told', ~busy',
             wpc' = "none" \/ response' # Nothing \/ (Mutates' => told' = Unknown)
      PROVE StoreInv'
  BY <1>r DEF StoreInv
<1>s. ASSUME Mutates, response = Nothing, response' # Nothing, UNCHANGED <<cmd, told, busy>>,
             response'.status \in {404, 409} /\ told # Unknown => file' = told,
             response'.status \in 200 .. 299 /\ ~spoilt' /\ WellFormed(cmd.lines) =>
                 file' = IF cmd.method = "DELETE" THEN NoFile ELSE cmd.body,
             wpc = "route"
      PROVE StoreInv'
  <2>1. Mutates'
    BY <1>s DEF Mutates
  <2>2. ~busy => told = Unknown
    BY <1>p, <1>s DEF StoreInv
  <2> QED  BY <1>s, <2>1, <2>2 DEF StoreInv
<1>1. CASE \E c \in Commands : Type(c)
  <2>1. /\ ~busy /\ UNCHANGED <<file, told>> /\ response' = Nothing
        /\ busy' \/ (wpc' = "none" /\ ~busy')
    BY <1>1 DEF Type
  <2>2. told' # Unknown => file' = told'
    BY <1>p, <2>1 DEF StoreInv
  <2> QED  BY <2>1, <2>2 DEF StoreInv
<1>2. CASE Receive
  <2>1. /\ busy /\ ~busy' /\ wpc' = "none"
        /\ \/ Tell("failed", <<>>, FALSE)
           \/ Tell(Said(cmd.method, received.status), received.body, Complete /\ ~spoilt)
    BY <1>2 DEF Receive, Tell
  <2>2. CASE Tell("failed", <<>>, FALSE)
    <3>1. told' # Unknown => file' = told'
      BY <2>1, <2>2, TellsTheTruth
    <3> QED  BY <1>r, <2>1, <3>1
  <2>3. CASE Tell(Said(cmd.method, received.status), received.body, Complete /\ ~spoilt)
    <3> DEFINE w == Complete /\ ~spoilt
               t == Said(cmd.method, received.status)
               d == received.body
    <3>1. /\ w \in BOOLEAN /\ Tell(t, d, w)
          /\ w => Complete /\ ~spoilt /\ t = Said(cmd.method, received.status)
      BY <2>3
    <3> HIDE DEF w, t, d
    <3>2. told' # Unknown => file' = told'
      BY <2>1, <3>1, TellsTheTruth
    <3> QED  BY <1>r, <2>1, <3>2
  <2> QED  BY <2>1, <2>2, <2>3
<1>3. CASE ReceiveCounted
  <2>1. /\ busy /\ ~busy' /\ response' = response /\ response # Nothing
        /\ Tell(Said(cmd.method, received.status), received.body, ~spoilt) /\ Complete
    BY <1>3 DEF ReceiveCounted, Tell, Complete
  <2> DEFINE w == ~spoilt
             t == Said(cmd.method, received.status)
             d == received.body
  <2>2. /\ w \in BOOLEAN /\ Tell(t, d, w)
        /\ w => Complete /\ ~spoilt /\ t = Said(cmd.method, received.status)
    BY <2>1
  <2> HIDE DEF w, t, d
  <2>3. told' # Unknown => file' = told'
    BY <2>1, <2>2, TellsTheTruth
  <2> QED  BY <1>r, <2>1, <2>3
<1>4. CASE HangUp
  <2>1. /\ ~busy' /\ UNCHANGED <<file, cmd>>
        /\ told' = IF cmd.method \in {"PUT", "POST", "DELETE"} THEN Unknown ELSE told
    BY <1>4 DEF HangUp
  <2>2. Mutates' <=> Mutates
    BY <2>1 DEF Mutates
  <2>3. Mutates' => told' = Unknown
    BY <2>1, <2>2 DEF Mutates
  <2>4. told' # Unknown => file' = told'
    BY <1>p, <2>1 DEF StoreInv, Mutates
  <2> QED  BY <1>r, <2>1, <2>3, <2>4
<1>5. CASE Dies
  <2>1. UNCHANGED <<file, told, busy, cmd, response, spoilt>> /\ (wpc = "none" => wpc' = "none")
    BY <1>5 DEF Dies, Die, Close, worker, client
  <2> QED  BY <1>q, <2>1
<1>6. CASE Stop
  <2>1. UNCHANGED <<file, told, busy, cmd, response, spoilt>> /\ (wpc = "none" => wpc' = "none")
    BY <1>6 DEF Stop, worker, client
  <2> QED  BY <1>q, <2>1
<1>7. CASE Restart
  <2>1. UNCHANGED <<file, told, busy, cmd, response, spoilt>> /\ (wpc = "none" => wpc' = "none")
    BY <1>7 DEF Restart, worker, client
  <2> QED  BY <1>q, <2>1
<1>8. CASE ReadHeaders
  <2>1. UNCHANGED <<file, told, busy, cmd, response, spoilt>> /\ (wpc = "none" => wpc' = "none")
    BY <1>8 DEF ReadHeaders, worker, client
  <2> QED  BY <1>q, <2>1
<1>9. CASE NoHeaders
  <2>1. UNCHANGED <<file, told, busy, cmd, response, spoilt>> /\ (wpc = "none" => wpc' = "none")
    BY <1>9 DEF NoHeaders, Close, worker, client
  <2> QED  BY <1>q, <2>1
<1>10. CASE ReadBody
  <2>1. UNCHANGED <<file, told, busy, cmd, response, spoilt>> /\ (wpc = "none" => wpc' = "none")
    BY <1>10 DEF ReadBody, worker, client
  <2> QED  BY <1>q, <2>1
<1>11. CASE Parses
  <2>1. UNCHANGED <<file, told, busy, cmd, response>> /\ wpc = "body"
    BY <1>11 DEF Parses, client
  <2>2. response = Nothing
    BY <2>1 DEF IInv, SendInv
  <2>3. Mutates' <=> Mutates
    BY <2>1 DEF Mutates
  <2> QED  BY <1>p, <2>1, <2>2, <2>3 DEF StoreInv
<1>12. CASE FixedAnswer
  <2>1. ~Mutates /\ file' = file /\ UNCHANGED <<cmd, told, busy>> /\ response' # Nothing
    BY <1>12, OthersDoNotMutate, AnswersSend
  <2>2. ~Mutates'
    BY <2>1 DEF Mutates
  <2> QED  BY <1>p, <2>1, <2>2 DEF StoreInv
<1>13. CASE StaticGet
  <2>1. ~Mutates /\ file' = file /\ UNCHANGED <<cmd, told, busy>> /\ response' # Nothing
    BY <1>13, OthersDoNotMutate, AnswersSend
  <2>2. ~Mutates'
    BY <2>1 DEF Mutates
  <2> QED  BY <1>p, <2>1, <2>2 DEF StoreInv
<1>14. CASE Puts
  <2>1. PICK m \in {"PUT", "POST"} : StaticPut(m)
    BY <1>14 DEF Puts
  <2>2. /\ At(m, "static") /\ response'.status = (IF file = NoFile THEN 201 ELSE 200)
    BY <2>1 DEF StaticPut, Respond
  <2>3. PICK k \in 0 .. Len(request.body) :
          /\ file' = SubSeq(request.body, 1, k)
          /\ spoilt' = (spoilt \/ k < Len(request.body))
    BY <2>1 DEF StaticPut
  <2>4. Mutates /\ response = Nothing /\ wpc = "route" /\ cmd.method = m
    <3>1. m \in {"PUT", "POST", "DELETE"}
      OBVIOUS
    <3> QED  BY <2>2, <3>1, AskedToMutate
  <2>5. UNCHANGED <<cmd, told, busy>> /\ response' # Nothing
    BY <1>14, AnswersSend
  <2>6. ASSUME ~spoilt', WellFormed(cmd.lines) PROVE file' = cmd.body
    <3>1. ~spoilt /\ ~(k < Len(request.body))
      BY <2>3, <2>6
    <3>2. request.body \in Seq(STRING) /\ request.body = cmd.body
      BY <2>4, <2>6, <3>1 DEF IInv, RouteInv, Bodies
    <3> DEFINE b == request.body
    <3>3. b \in Seq(STRING) /\ k = Len(b)
      BY <3>1, <3>2
    <3> HIDE DEF b
    <3>4. SubSeq(b, 1, k) = b
      BY <3>3
    <3> QED  BY <2>3, <3>2, <3>4 DEF b
  <2>7. response'.status \notin {404, 409}
    BY <2>2
  <2>8. cmd.method # "DELETE"
    BY <2>4
  <2> QED  BY <1>s, <2>4, <2>5, <2>6, <2>7, <2>8
<1>15. CASE StaticConflict
  <2>1. At("POST", "static") /\ file' = file /\ response'.status = 409
    BY <1>15 DEF StaticConflict, Respond
  <2>2. Mutates /\ response = Nothing /\ wpc = "route"
    BY <2>1, AskedToMutate
  <2>3. response' # Nothing /\ UNCHANGED <<cmd, told, busy>>
    BY <1>15, AnswersSend
  <2>4. told # Unknown => file' = told
    BY <1>p, <2>1, <2>2 DEF StoreInv
  <2>5. ~(409 \in 200 .. 299)
    OBVIOUS
  <2> QED  BY <1>s, <2>1, <2>2, <2>3, <2>4, <2>5
<1>16. CASE StaticDelete
  <2>1. At("DELETE", "static") /\ file' = NoFile
        /\ response'.status = IF file = NoFile THEN 404 ELSE 204
    BY <1>16 DEF StaticDelete, Respond
  <2>2. Mutates /\ cmd.method = "DELETE" /\ response = Nothing /\ wpc = "route"
    BY <2>1, AskedToMutate
  <2>3. response' # Nothing /\ UNCHANGED <<cmd, told, busy>>
    BY <1>16, AnswersSend
  <2>4. response'.status \in {404, 409} => file = NoFile
    BY <2>1
  <2>5. told # Unknown => file = told
    BY <1>p, <2>2 DEF StoreInv
  <2> QED  BY <1>s, <2>1, <2>2, <2>3, <2>4, <2>5
<1>17. CASE StaticFails
  <2>1. PICK m \in {"PUT", "POST", "DELETE"} : At(m, "static")
    BY <1>17 DEF StaticFails
  <2>2. file' = file /\ response'.status = 500
    BY <1>17 DEF StaticFails, Respond
  <2>3. Mutates /\ response = Nothing /\ wpc = "route"
    BY <2>1, AskedToMutate
  <2>4. response' # Nothing /\ UNCHANGED <<cmd, told, busy>>
    BY <1>17, AnswersSend
  <2>5. ~(500 \in 200 .. 299) /\ 500 \notin {404, 409}
    OBVIOUS
  <2> QED  BY <1>s, <2>2, <2>3, <2>4, <2>5
<1>18. CASE Search
  <2>1. UNCHANGED <<file, told, busy, cmd, response, spoilt>> /\ (wpc = "none" => wpc' = "none")
    BY <1>18 DEF Search, At, worker, client
  <2> QED  BY <1>q, <2>1
<1>19. CASE SearchWork
  <2>1. UNCHANGED <<file, told, busy, cmd, response, spoilt>> /\ (wpc = "none" => wpc' = "none")
    BY <1>19 DEF SearchWork, Searching, ServiceStep, worker, client
  <2> QED  BY <1>q, <2>1
<1>20. CASE SearchAnswer
  <2>1. ~Mutates /\ file' = file /\ UNCHANGED <<cmd, told, busy>> /\ response' # Nothing
    BY <1>20, OthersDoNotMutate, AnswersSend
  <2>2. ~Mutates'
    BY <2>1 DEF Mutates
  <2> QED  BY <1>p, <2>1, <2>2 DEF StoreInv
<1>21. CASE Write
  <2>1. UNCHANGED <<file, told, busy, cmd, response, spoilt>> /\ wpc # "none"
    BY <1>21, WriteWrites DEF Writes, client
  <2> QED  BY <1>q, <2>1
<1>22. CASE UNCHANGED vars
  <2>1. UNCHANGED <<file, told, busy, cmd, response, spoilt, wpc>>
    BY <1>22 DEF vars, worker, client
  <2> QED  BY <1>q, <2>1
<1> QED
  BY <1>1, <1>2, <1>3, <1>4, <1>5, <1>6, <1>7, <1>8, <1>9, <1>10, <1>11,
        <1>12, <1>13, <1>14, <1>15, <1>16, <1>17, <1>18, <1>19, <1>20,
        <1>21, <1>22, NextIsSteps DEF Steps

(* A get reports what the file holds, if the answer came whole.            *)
LEMMA TellsWhatIsStored ==
    ASSUME IInv, busy,
           NEW said, NEW data, NEW whole \in BOOLEAN, Tell(said, data, whole),
           whole => /\ Complete /\ ~spoilt /\ said = Said(cmd.method, received.status)
                    /\ data = received.body
    PROVE  GetInv'
<1>1. GetInv /\ StoreInv /\ UNCHANGED <<file, cmd, response, spoilt>> /\ ~busy'
  BY DEF IInv, Tell
<1>2. report'.whole = whole /\ report'.said = said /\ report'.data = data
  BY DEF Tell
<1>3. ASSUME whole, cmd.method = "GET", cmd.target = "static", told' # Unknown
      PROVE  IF said = "ok" THEN data = told' ELSE told' = NoFile
  <2>1. told' = told /\ file = told
    <3>1. told' = told
      BY <1>3 DEF Tell
    <3>2. ~Mutates
      BY <1>3 DEF Mutates
    <3> QED  BY <1>1, <1>3, <3>1, <3>2 DEF StoreInv
  <2>2. received = response /\ response # Nothing
    BY <1>3 DEF Complete
  <2>3. \/ response.status = 200 /\ response.body = file
        \/ response.status = 404 /\ file = NoFile
    BY <1>1, <1>3, <2>2 DEF GetInv
  <2>4. CASE response.status = 200 /\ response.body = file
    <3>1. said = "ok" /\ data = file
      BY <1>3, <2>2, <2>4 DEF Said
    <3> QED  BY <2>1, <3>1
  <2>5. CASE response.status = 404 /\ file = NoFile
    <3>1. said = "error"
      BY <1>3, <2>2, <2>5 DEF Said
    <3> QED  BY <2>1, <2>5, <3>1
  <2> QED  BY <2>3, <2>4, <2>5
<1>4. GetGivesWhatWasPut'
  BY <1>1, <1>2, <1>3 DEF GetGivesWhatWasPut
<1> QED  BY <1>1, <1>4 DEF GetInv

(* What a GET is answered is in the file, and remains there.              *)
LEMMA GetStep == ASSUME IInv, [Next]_vars PROVE GetInv'
<1> DEFINE Gets == cmd.method = "GET" /\ cmd.target = "static"
<1>p. GetInv
  BY DEF IInv
<1>q. ASSUME UNCHANGED <<file, cmd, response, report, told, busy>>,
             response = Nothing \/ UNCHANGED spoilt
      PROVE  GetInv'
  BY <1>p, <1>q DEF GetInv, GetGivesWhatWasPut
<1>r. ASSUME ~Gets', ~report'.whole \/ UNCHANGED <<report, busy>>
      PROVE  GetInv'
  BY <1>p, <1>r DEF GetInv, GetGivesWhatWasPut
<1>1. CASE \E c \in Commands : Type(c)
  <2>1. report' \in {NoReport, [NoReport EXCEPT !.said = "failed"]} /\ response' = Nothing
    BY <1>1 DEF Type
  <2>2. ~report'.whole
    BY <2>1 DEF NoReport
  <2> QED  BY <2>1, <2>2 DEF GetInv, GetGivesWhatWasPut
<1>2. CASE Receive
  <2>1. /\ busy
        /\ \/ Tell("failed", <<>>, FALSE)
           \/ Tell(Said(cmd.method, received.status), received.body, Complete /\ ~spoilt)
    BY <1>2 DEF Receive
  <2>2. CASE Tell("failed", <<>>, FALSE)
    BY <2>1, <2>2, TellsWhatIsStored
  <2>3. CASE Tell(Said(cmd.method, received.status), received.body, Complete /\ ~spoilt)
    <3> DEFINE w == Complete /\ ~spoilt
               t == Said(cmd.method, received.status)
               d == received.body
    <3>1. /\ w \in BOOLEAN /\ Tell(t, d, w)
          /\ w => Complete /\ ~spoilt /\ t = Said(cmd.method, received.status) /\ d = received.body
      BY <2>3
    <3> HIDE DEF w, t, d
    <3> QED  BY <2>1, <3>1, TellsWhatIsStored
  <2> QED  BY <2>1, <2>2, <2>3
<1>3. CASE ReceiveCounted
  <2>1. /\ busy /\ Complete
        /\ Tell(Said(cmd.method, received.status), received.body, ~spoilt)
    BY <1>3 DEF ReceiveCounted
  <2> DEFINE w == ~spoilt
             t == Said(cmd.method, received.status)
             d == received.body
  <2>2. /\ w \in BOOLEAN /\ Tell(t, d, w)
        /\ w => Complete /\ ~spoilt /\ t = Said(cmd.method, received.status) /\ d = received.body
    BY <2>1
  <2> HIDE DEF w, t, d
  <2> QED  BY <2>1, <2>2, TellsWhatIsStored
<1>4. CASE HangUp
  <2>1. report' = NoReport /\ UNCHANGED <<file, cmd, response, spoilt>>
    BY <1>4 DEF HangUp
  <2>2. ~report'.whole
    BY <2>1 DEF NoReport
  <2> QED  BY <1>p, <2>1, <2>2 DEF GetInv, GetGivesWhatWasPut
<1>5. CASE Dies
  <2>1. UNCHANGED <<file, cmd, response, report, told, busy, spoilt>>
    BY <1>5 DEF Dies, Die, Close, worker, client
  <2> QED  BY <1>q, <2>1
<1>6. CASE Stop
  <2>1. UNCHANGED <<file, cmd, response, report, told, busy, spoilt>>
    BY <1>6 DEF Stop, worker, client
  <2> QED  BY <1>q, <2>1
<1>7. CASE Restart
  <2>1. UNCHANGED <<file, cmd, response, report, told, busy, spoilt>>
    BY <1>7 DEF Restart, worker, client
  <2> QED  BY <1>q, <2>1
<1>8. CASE ReadHeaders
  <2>1. UNCHANGED <<file, cmd, response, report, told, busy, spoilt>>
    BY <1>8 DEF ReadHeaders, worker, client
  <2> QED  BY <1>q, <2>1
<1>9. CASE NoHeaders
  <2>1. UNCHANGED <<file, cmd, response, report, told, busy, spoilt>>
    BY <1>9 DEF NoHeaders, Close, worker, client
  <2> QED  BY <1>q, <2>1
<1>10. CASE ReadBody
  <2>1. UNCHANGED <<file, cmd, response, report, told, busy, spoilt>>
    BY <1>10 DEF ReadBody, worker, client
  <2> QED  BY <1>q, <2>1
<1>11. CASE Parses
  <2>1. wpc = "body" /\ UNCHANGED <<file, cmd, response, report, told, busy>>
    BY <1>11 DEF Parses, worker, client
  <2>2. response = Nothing
    BY <2>1 DEF IInv, SendInv
  <2> QED  BY <1>q, <2>1, <2>2
<1>12. CASE FixedAnswer
  <2>1. UNCHANGED <<cmd, report, told, busy>>
    BY <1>12, AnswersSend
  <2>2. wpc = "route" /\ ~(request.method = "GET" /\ request.target = "static")
    BY <1>12 DEF FixedAnswer
  <2>3. request.method = cmd.method /\ (cmd.method # "" => request.target = cmd.target)
    BY <2>2 DEF IInv, RouteInv
  <2>4. ~Gets'
    BY <2>1, <2>2, <2>3
  <2> QED  BY <1>r, <2>1, <2>4
<1>13. CASE StaticGet
  <2>1. /\ file' = file
        /\ IF file = NoFile THEN response'.status = 404
           ELSE response'.status = 200 /\ (response'.body = file \/ spoilt')
    <3>1. CASE file = NoFile
      BY <1>13, <3>1 DEF StaticGet, Respond
    <3>2. CASE file # NoFile
      <4>1. PICK k \in 0 .. Len(file) : /\ Respond(200, SubSeq(file, 1, k))
                                        /\ spoilt' = (spoilt \/ k < Len(file))
        BY <1>13, <3>2 DEF StaticGet
      <4>2. file \in Seq(STRING)
        BY <3>2 DEF IInv, TypeInv, FileType, Bodies
      <4>3. CASE k < Len(file)
        BY <1>13, <3>2, <4>1, <4>3 DEF StaticGet, Respond
      <4>4. CASE k = Len(file)
        <5>1. SubSeq(file, 1, k) = file
          BY <4>2, <4>4
        <5> QED  BY <1>13, <3>2, <4>1, <5>1 DEF StaticGet, Respond
      <4> QED  BY <4>1, <4>2, <4>3, <4>4
    <3> QED  BY <3>1, <3>2
  <2>2. UNCHANGED <<cmd, report, told, busy>>
    BY <1>13, AnswersSend
  <2> QED  BY <1>p, <2>1, <2>2 DEF GetInv, GetGivesWhatWasPut
<1>14. CASE Puts
  <2>1. UNCHANGED <<cmd, report, told, busy>>
    BY <1>14, AnswersSend
  <2>2. \E m \in {"PUT", "POST", "DELETE"} : At(m, "static")
    BY <1>14 DEF Puts, StaticPut
  <2>3. Mutates
    BY <2>2, AskedToMutate
  <2>4. ~Gets'
    BY <2>1, <2>3 DEF Mutates
  <2> QED  BY <1>r, <2>1, <2>4
<1>15. CASE StaticConflict
  <2>1. UNCHANGED <<cmd, report, told, busy>>
    BY <1>15, AnswersSend
  <2>2. \E m \in {"PUT", "POST", "DELETE"} : At(m, "static")
    BY <1>15 DEF StaticConflict
  <2>3. Mutates
    BY <2>2, AskedToMutate
  <2>4. ~Gets'
    BY <2>1, <2>3 DEF Mutates
  <2> QED  BY <1>r, <2>1, <2>4
<1>16. CASE StaticDelete
  <2>1. UNCHANGED <<cmd, report, told, busy>>
    BY <1>16, AnswersSend
  <2>2. \E m \in {"PUT", "POST", "DELETE"} : At(m, "static")
    BY <1>16 DEF StaticDelete
  <2>3. Mutates
    BY <2>2, AskedToMutate
  <2>4. ~Gets'
    BY <2>1, <2>3 DEF Mutates
  <2> QED  BY <1>r, <2>1, <2>4
<1>17. CASE StaticFails
  <2>1. UNCHANGED <<cmd, report, told, busy>>
    BY <1>17, AnswersSend
  <2>2. \E m \in {"PUT", "POST", "DELETE"} : At(m, "static")
    BY <1>17 DEF StaticFails
  <2>3. Mutates
    BY <2>2, AskedToMutate
  <2>4. ~Gets'
    BY <2>1, <2>3 DEF Mutates
  <2> QED  BY <1>r, <2>1, <2>4
<1>18. CASE Search
  <2>1. UNCHANGED <<file, cmd, response, report, told, busy, spoilt>>
    BY <1>18 DEF Search, worker, client
  <2> QED  BY <1>q, <2>1
<1>19. CASE SearchWork
  <2>1. UNCHANGED <<file, cmd, response, report, told, busy, spoilt>>
    BY <1>19 DEF SearchWork, Searching, ServiceStep, worker, client
  <2> QED  BY <1>q, <2>1
<1>20. CASE SearchAnswer
  <2>1. UNCHANGED <<cmd, report, told, busy>>
    BY <1>20, AnswersSend
  <2>2. cmd.target # "static"
    BY <1>20 DEF SearchAnswer, IInv, ControlInv
  <2> QED  BY <1>r, <2>1, <2>2
<1>21. CASE Write
  <2>1. UNCHANGED <<file, cmd, response, report, told, busy, spoilt>>
    BY <1>21, WriteWrites DEF Writes, client
  <2> QED  BY <1>q, <2>1
<1>22. CASE UNCHANGED vars
  <2>1. UNCHANGED <<file, cmd, response, report, told, busy, spoilt>>
    BY <1>22 DEF vars, worker, client
  <2> QED  BY <1>q, <2>1
<1> QED
  BY <1>1, <1>2, <1>3, <1>4, <1>5, <1>6, <1>7, <1>8, <1>9, <1>10, <1>11,
        <1>12, <1>13, <1>14, <1>15, <1>16, <1>17, <1>18, <1>19, <1>20,
        <1>21, <1>22, NextIsSteps DEF Steps

(* Before the first request nothing has happened.                          *)
LEMMA InvStarts == Init => IInv
<1> SUFFICES ASSUME Init PROVE IInv
  OBVIOUS
<1>1. ApiInv
  BY ApiStarts DEF Init
<1>2. ProcessType
  <2>1. 1 \in 1 .. MaxStarts
    BY ExchangeAssumption
  <2> QED  BY <2>1 DEF Init, ProcessType
<1>3. <<>> \in Seq(Chars) /\ <<>> \in Bodies
  BY DEF Bodies
<1>4. NoReport \in Reports /\ Nothing \in Messages
  BY <1>3 DEF NoReport, Reports, Nothing, Messages
<1>5. FileType /\ StepType /\ TextType
  BY <1>3, <1>4 DEF Init, FileType, StepType, TextType
<1>6. ControlInv
  BY DEF Init, ApiInit, ControlInv
<1>7. ReadInv /\ RouteInv
  BY DEF Init, ReadInv, RouteInv
<1>8. SendInv
  <2>1. received = Nothing /\ response = Nothing /\ wpc = "none" /\ Nothing.body = <<>>
    BY DEF Init, Nothing
  <2> DEFINE b == Nothing.body
  <2>2. IsPrefix(b, b)
    <3>1. IsPrefix(<<>>, <<>>)
      BY <1>3, EmptyIsPrefix
    <3> QED  BY <2>1, <3>1
  <2> HIDE DEF b
  <2>3. IsPrefix(received.body, response.body)
    BY <2>1, <2>2 DEF b
  <2> QED  BY <2>1, <2>3 DEF SendInv
<1>9. StoreInv /\ GetInv
  BY DEF Init, StoreInv, GetInv, GetGivesWhatWasPut, NoReport, Mutates
<1> QED  BY <1>1, <1>2, <1>5, <1>6, <1>7, <1>8, <1>9 DEF IInv, TypeInv

(* Every step keeps the inductive invariant.                               *)
LEMMA InvStep == IInv /\ [Next]_vars => IInv'
<1> SUFFICES ASSUME IInv, [Next]_vars PROVE IInv'
  OBVIOUS
<1>1. TypeInv'
  BY ProcessStep, FileStep, StepStep, TextStep DEF TypeInv
<1>2. ApiInv'
  BY ApiStepKept
<1>3. ControlInv' /\ ReadInv' /\ RouteInv'
  BY ControlStep, ReadStep, RouteStep
<1>4. SendInv' /\ StoreInv' /\ GetInv'
  BY SendStep, StoreStep, GetStep
<1> QED  BY <1>1, <1>2, <1>3, <1>4 DEF IInv

(* The inductive invariant of requests and reports.                        *)
THEOREM InvHolds == Spec => []IInv
<1> QED  BY InvStarts, InvStep, PTL DEF Spec

(* Every variable of the exchange has its type, and of a response the      *)
(* client has a beginning.                                                 *)
THEOREM Typed == Spec => []TypeOK
<1>1. IInv => TypeOK
  <2> SUFFICES ASSUME IInv PROVE TypeOK
    OBVIOUS
  <2>1. ApiTypeOK
    BY ApiTyped DEF IInv
  <2>2. report.said \in {"nothing", "ok", "error", "failed"}
    BY DEF IInv, TypeInv, FileType, Reports
  <2>3. IsPrefix(received.body, response.body)
    BY DEF IInv, SendInv
  <2>4. raw \in Bodies
    BY DEF IInv, TypeInv, TextType
  <2>5. file = NoFile \/ file \in Bodies
    BY DEF IInv, TypeInv, FileType
  <2>6. told \in {NoFile, Unknown} \/ told \in Bodies
    BY DEF IInv, TypeInv, FileType
  <2>7. busy => cmd \in Commands /\ wpc # "none"
    BY DEF IInv, ControlInv
  <2>8. wpc # "api" => api = "idle"
    BY DEF IInv, ControlInv
  <2> QED
    BY <2>1, <2>2, <2>3, <2>4, <2>5, <2>6, <2>7, <2>8
    DEF TypeOK, IInv, TypeInv, ProcessType, StepType
<1> QED  BY <1>1, InvHolds, PTL

(* HandleGetRequest and VectorClient, in every exchange: without the       *)
(* embedding service a search answers what the inverted index finds.       *)
THEOREM SearchesWithoutService == Spec => []HybridWithoutServiceIsBm25
<1>1. IInv => HybridWithoutServiceIsBm25
  BY ApiKeepsBm25 DEF IInv
<1> QED  BY <1>1, InvHolds, PTL

(* The fusion never orders two documents against both rankings.            *)
THEOREM SearchesFuse == Spec => []FusionRespectsAgreement
<1>1. IInv => FusionRespectsAgreement
  BY ApiAgrees DEF IInv
<1> QED  BY <1>1, InvHolds, PTL

(* With at most 61 documents what both rankings found stands before what   *)
(* one found.                                                              *)
THEOREM SearchesPutBothFirst ==
    Cardinality(Docs) <= 61 => (Spec => []FoundTwiceComesFirst)
<1> SUFFICES ASSUME Cardinality(Docs) <= 61 PROVE Spec => []FoundTwiceComesFirst
  OBVIOUS
<1>1. IInv => FoundTwiceComesFirst
  BY ApiPutsBothFirst DEF IInv
<1> QED  BY <1>1, InvHolds, PTL

(* SplitTerms and Tokenize agree on plain words.                           *)
THEOREM SearchesFindWords == Spec => []PlainWordsFindTheirDocuments
<1>1. IInv => PlainWordsFindTheirDocuments
  BY ApiFindsWords DEF IInv
<1> QED  BY <1>1, InvHolds, PTL

(* A reply that was cut or garbled only loses entries.                     *)
THEOREM SearchesOnlyLose == Spec => []BrokenRepliesOnlyLose
<1>1. IInv => BrokenRepliesOnlyLose
  BY ApiLoses DEF IInv
<1> QED  BY <1>1, InvHolds, PTL

(* ReadRawRequest, ReadBody and ParseRequest together: over any division   *)
(* into reads the handler gets the body that was sent.                     *)
THEOREM BodiesArrive == Spec => []BodyIsWhatWasSent
<1>1. IInv => BodyIsWhatWasSent
  BY DEF IInv, RouteInv, BodyIsWhatWasSent
<1> QED  BY <1>1, InvHolds, PTL

(* StaticPut, StaticDelete and the client's reports: between requests the  *)
(* file is what the last report said of it.                                *)
THEOREM StoresWhatItTells == Spec => []StoredAsTold
<1>1. IInv => StoredAsTold
  <2> SUFFICES ASSUME IInv, wpc = "none", told # Unknown PROVE file = told
    BY DEF StoredAsTold
  <2>1. ~busy
    BY DEF IInv, ControlInv
  <2> QED  BY <2>1 DEF IInv, StoreInv
<1> QED  BY <1>1, InvHolds, PTL

(* StaticGet and the client's get: a whole answer gives what was put.      *)
THEOREM GetsWhatWasPut == Spec => []GetGivesWhatWasPut
<1>1. IInv => GetGivesWhatWasPut
  BY DEF IInv, GetInv
<1> QED  BY <1>1, InvHolds, PTL

(* HandleClient ends the process only for headers that it throws at, an    *)
(* error under GET, and a client that left with something to be written.   *)
Outlives ==
    running /\ ~running' =>
        \/ ended' \in {"killed", "stopped"}
        \/ /\ ended' = "exception"
           /\ WellFormed(cmd.lines) => At("GET", "static") \/ TooLong(cmd.lines)
        \/ /\ ended' = "SIGPIPE"
           /\ gone /\ (Len(response.body) > Chunk \/ piped)

(* No other step ends the process.                                         *)
LEMMA OutlivesStep == IInv /\ [Next]_vars => Outlives
<1> SUFFICES ASSUME IInv, [Next]_vars, running, ~running' PROVE Outlives
  BY DEF Outlives
<1>1. CASE Kill \/ Exit
  BY <1>1 DEF Kill, Exit, Die, Outlives
<1>2. CASE ParseRequest
  <2>1. wpc = "body"
    BY <1>2 DEF ParseRequest
  <2>2. Die("exception") /\ ParseThrows(cmd.lines)
    BY <1>2 DEF ParseRequest, server
  <2>3. cmd.lines \in HeaderLines
    BY <2>1, CommandsAreSendable DEF IInv, ControlInv, Sendable
  <2>4. ~WellFormed(cmd.lines) \/ TooLong(cmd.lines)
    BY <2>2, <2>3, WellFormedIsUnderstood
  <2> QED  BY <2>2, <2>4 DEF Die, Outlives
<1>3. CASE StaticGetThrows \/ LengthThrows
  BY <1>3 DEF StaticGetThrows, LengthThrows, Die, Outlives
<1>4. CASE WriteRaises
  <2>1. /\ ended' = "SIGPIPE" /\ gone /\ wpc = "send"
        /\ received # Nothing \/ piped
    BY <1>4 DEF WriteRaises, Die
  <2>2. CASE received # Nothing
    <3>1. Chunk <= Len(received.body) /\ Len(received.body) < Len(response.body)
      BY <2>1, <2>2 DEF IInv, SendInv
    <3>2. Len(received.body) \in Nat /\ Len(response.body) \in Nat /\ Chunk \in Nat
      BY ExchangeAssumption DEF IInv, TypeInv, TextType, Messages
    <3>3. Len(response.body) > Chunk
      BY <3>1, <3>2
    <3> QED  BY <2>1, <3>3 DEF Outlives
  <2>3. CASE piped
    BY <2>1, <2>3 DEF Outlives
  <2> QED  BY <2>1, <2>2, <2>3
<1>5. CASE \/ \E c \in Commands : Type(c)
           \/ Receive \/ ReceiveCounted \/ HangUp
  BY <1>5 DEF Type, Receive, ReceiveCounted, Tell, HangUp, server
<1>6. CASE Stop \/ Restart
  BY <1>6 DEF Stop, Restart
<1>7. CASE ReadHeaders \/ NoHeaders \/ ReadBody \/ Search \/ Searching \/ ServiceStep \/ Write
  BY <1>7 DEF ReadHeaders, NoHeaders, ReadBody, Search, Searching, ServiceStep, Write,
       server
<1>8. CASE FixedAnswer \/ StaticGet \/ StaticConflict \/ StaticDelete \/ StaticFails
           \/ StaticPut("PUT") \/ StaticPut("POST") \/ SearchAnswer
  <2>1. Answered
    BY <1>8, AnswersAreMessages DEF Puts
  <2> QED  BY <2>1 DEF Answered, Respond, server
<1>9. CASE UNCHANGED vars
  BY <1>9 DEF vars, server
<1> QED
  BY <1>1, <1>2, <1>3, <1>4, <1>5, <1>6, <1>7, <1>8, <1>9 DEF Next, WorkerStep

(* HandleClient and the handlers do not end the process but in four ways:  *)
(* headers that ParseRequest throws at, a length beyond every number, an   *)
(* error of the file system under GET, and a client that leaves before all *)
(* of a long response, or of several responses, is written.                *)
THEOREM ServerOutlives == Spec => ServerOutlivesItsRequests
<1>1. IInv /\ [Next]_vars => [Outlives]_vars
  BY OutlivesStep
<1>2. Spec => [][Outlives]_vars
  BY <1>1, InvHolds, PTL DEF Spec
<1> QED  BY <1>2 DEF Outlives, ServerOutlivesItsRequests
=============================================================================
