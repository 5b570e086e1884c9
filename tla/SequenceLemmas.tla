--------------------------- MODULE SequenceLemmas ---------------------------
(***************************************************************************)
(* What the sequence operators of the models do, for every sequence: the   *)
(* members of a flattened one, of one with a member removed. What they     *)
(* rest on is the least number of a set of numbers, and with it induction  *)
(* over a set.                                                             *)
(***************************************************************************)
EXTENDS SequencesExt, SequenceTheorems, WellFoundedInduction, TLAPS

\* A set of numbers has a least member.
LEMMA LeastNatural ==
  ASSUME NEW T, T \subseteq Nat, T # {}
  PROVE  \E n \in T : \A m \in T : n <= m
<1>. DEFINE R == OpToRel(<, Nat)
<1>1. IsWellFoundedOn(R, Nat)
  BY NatLessThanWellFounded
<1>2. \A x, y \in Nat : x < y => <<x, y>> \in R
  BY DEF OpToRel
<1>. HIDE DEF R
<1>3. PICK x \in T : \A y \in T : ~ (<<y, x>> \in R)
  BY <1>1, WFMin
<1>4. \A y \in T : ~(y < x)
  BY <1>2, <1>3
<1>. QED BY <1>4

\* A set of numbers with a bound has a greatest member.
LEMMA GreatestNatural ==
  ASSUME NEW n \in Nat, NEW T, T \subseteq 1..n, T # {}
  PROVE  \E k \in T : \A j \in T : j <= k
<1>. DEFINE D == {n - k : k \in T}
<1>1. D \subseteq Nat /\ D # {}
  <2>1. \A k \in T : n - k \in Nat
    OBVIOUS
  <2>2. PICK k \in T : TRUE
    OBVIOUS
  <2>3. n - k \in D
    OBVIOUS
  <2>. QED BY <2>1, <2>3
<1>2. PICK d \in D : \A m \in D : d <= m
  BY <1>1, LeastNatural
<1>3. PICK k \in T : d = n - k
  OBVIOUS
<1>4. \A j \in T : n - j \in D /\ j \in Nat /\ k \in Nat
  OBVIOUS
<1>. HIDE DEF D
<1>5. \A j \in T : j <= k
  BY <1>2, <1>3, <1>4
<1>. QED BY <1>5

\* Without member k, the others keep their order.
LEMMA Removed ==
  ASSUME NEW S, NEW s \in Seq(S), NEW k \in DOMAIN s
  PROVE  /\ RemoveAt(s, k) \in Seq(S) /\ Len(RemoveAt(s, k)) = Len(s) - 1
         /\ \A i \in DOMAIN RemoveAt(s, k) :
              i + 1 \in DOMAIN s /\ RemoveAt(s, k)[i] = IF i < k THEN s[i] ELSE s[i + 1]
<1>. DEFINE n == Len(s)
            a == SubSeq(s, 1, k - 1)
            b == SubSeq(s, k + 1, n)
<1>1. k \in 1..n /\ n \in Nat
  OBVIOUS
<1>2. a \in Seq(S) /\ Len(a) = k - 1 /\ \A i \in 1..(k - 1) : a[i] = s[i]
  BY <1>1
<1>3. b \in Seq(S) /\ Len(b) = n - k /\ \A i \in 1..(n - k) : b[i] = s[k + i]
  <2>1. k + 1 \in Int /\ n \in Int /\ \A i \in (k + 1)..n : s[i] \in S
    BY <1>1
  <2>2. /\ b \in Seq(S)
        /\ Len(b) = IF k + 1 <= n THEN n - (k + 1) + 1 ELSE 0
        /\ \A i \in 1..(n - (k + 1) + 1) : b[i] = s[(k + 1) + i - 1]
    BY <2>1, SubSeqProperties
  <2>3. n - (k + 1) + 1 = n - k /\ \A i \in 1..(n - k) : (k + 1) + i - 1 = k + i
    BY <1>1
  <2>. HIDE DEF b, n
  <2>4. Len(b) = n - k
    BY <1>1, <2>2
  <2>. QED BY <2>2, <2>3, <2>4
<1>4. RemoveAt(s, k) = a \o b
  BY DEF RemoveAt
<1>. HIDE DEF a, b
<1>5. /\ a \o b \in Seq(S) /\ Len(a \o b) = n - 1
      /\ \A i \in 1..(n - 1) : (a \o b)[i] = IF i < k THEN s[i] ELSE s[i + 1]
  <2>1. /\ a \o b \in Seq(S) /\ Len(a \o b) = (k - 1) + (n - k)
        /\ \A i \in 1..((k - 1) + (n - k)) : (a \o b)[i] = IF i <= k - 1 THEN a[i] ELSE b[i - (k - 1)]
    <3>1. /\ a \o b \in Seq(S) /\ Len(a \o b) = Len(a) + Len(b)
          /\ \A i \in 1..(Len(a) + Len(b)) : (a \o b)[i] = IF i <= Len(a) THEN a[i] ELSE b[i - Len(a)]
      BY <1>2, <1>3, ConcatProperties
    <3>. QED BY <1>2, <1>3, <3>1
  <2>2. (k - 1) + (n - k) = n - 1
    BY <1>1
  <2>3. \A i \in 1..(n - 1) : i <= k - 1 => i \in 1..(k - 1) /\ i < k
    BY <1>1
  <2>4. \A i \in 1..(n - 1) : ~(i <= k - 1) => i - (k - 1) \in 1..(n - k) /\ ~(i < k) /\ k + (i - (k - 1)) = i + 1
    BY <1>1
  <2>. QED BY <1>2, <1>3, <2>1, <2>2, <2>3, <2>4
<1>6. \A i \in 1..(n - 1) : i + 1 \in DOMAIN s
  BY <1>1
<1>7. DOMAIN (a \o b) = 1..(n - 1)
  BY <1>5
<1>. QED BY <1>4, <1>5, <1>6, <1>7

\* The sums of a flattened sequence exist: FlattenSeq is defined by a recursive function.
LEMMA FlattenExists ==
  ASSUME NEW s, NEW n \in Nat
  PROVE  \E f : f = [i \in 1..n |-> IF i = 1 THEN s[i] ELSE f[i - 1] \o s[i]]
<1>. DEFINE Ok(m) == \E f : f = [i \in 1..m |-> IF i = 1 THEN s[i] ELSE f[i - 1] \o s[i]]
            T == {m \in Nat : ~Ok(m)}
<1>1. ASSUME T # {} PROVE FALSE
  <2>1. PICK m \in T : \A k \in T : m <= k
    BY <1>1, LeastNatural
  <2>2. m # 0
    <3>1. <<>> = [i \in 1..0 |-> IF i = 1 THEN s[i] ELSE <<>>[i - 1] \o s[i]]
      OBVIOUS
    <3>. QED BY <3>1, <2>1
  <2>3. Ok(m - 1)
    <3>. HIDE DEF Ok
    <3>. QED BY <2>1, <2>2
  <2>4. PICK f : f = [i \in 1..(m - 1) |-> IF i = 1 THEN s[i] ELSE f[i - 1] \o s[i]]
    BY <2>3
  <2>. DEFINE g == [i \in 1..m |-> IF i < m THEN f[i] ELSE IF i = 1 THEN s[i] ELSE f[m - 1] \o s[m]]
  <2>5. g = [i \in 1..m |-> IF i = 1 THEN s[i] ELSE g[i - 1] \o s[i]]
    <3>1. ASSUME NEW i \in 1..m PROVE g[i] = IF i = 1 THEN s[i] ELSE g[i - 1] \o s[i]
      <4>1. m \in Nat
        BY <2>1
      <4>2. CASE i < m
        <5>1. i \in 1..(m - 1) /\ (i # 1 => i - 1 \in 1..m /\ i - 1 < m)
          BY <4>1, <4>2
        <5>2. f[i] = IF i = 1 THEN s[i] ELSE f[i - 1] \o s[i]
          BY <2>4, <5>1
        <5>3. g[i] = f[i] /\ (i # 1 => g[i - 1] = f[i - 1])
          BY <4>2, <5>1
        <5>. QED BY <5>2, <5>3
      <4>3. CASE i = m
        <5>1. i # 1 => i - 1 \in 1..m /\ i - 1 < m
          BY <4>1, <4>3
        <5>. QED BY <4>3, <5>1
      <4>. QED BY <4>1, <4>2, <4>3
    <3>. QED BY <3>1
  <2>6. Ok(m)
    BY <2>5
  <2>. QED BY <2>1, <2>6
<1>. QED BY <1>1

\* What is true of 0 and of n + 1 when it is true of n holds of every number: stated of
\* a set of numbers.
LEMMA SetInduction ==
  ASSUME NEW T, 0 \in T, \A n \in Nat : n \in T => n + 1 \in T
  PROVE  Nat \subseteq T
<1>. DEFINE U == {n \in Nat : n \notin T}
<1>1. ASSUME U # {} PROVE FALSE
  <2>1. PICK n \in U : \A m \in U : n <= m
    BY <1>1, LeastNatural
  <2>2. n # 0 /\ n - 1 \in Nat /\ n - 1 \notin U
    BY <2>1
  <2>. QED BY <2>1, <2>2
<1>. QED BY <1>1

\* The parts of a flattened sequence are the parts of its members, and no others.
LEMMA FlattenFacts ==
  ASSUME NEW S, NEW s \in Seq(Seq(S))
  PROVE  /\ FlattenSeq(s) \in Seq(S)
         /\ \A k \in DOMAIN FlattenSeq(s) :
              \E i \in DOMAIN s : \E j \in DOMAIN s[i] : FlattenSeq(s)[k] = s[i][j]
         /\ \A i \in DOMAIN s : \A j \in DOMAIN s[i] :
              \E k \in DOMAIN FlattenSeq(s) : FlattenSeq(s)[k] = s[i][j]
<1>1. CASE Len(s) = 0
  <2>1. s = <<>> /\ FlattenSeq(s) = s
    BY <1>1 DEF FlattenSeq
  <2>2. <<>> \in Seq(S) /\ DOMAIN <<>> = {}
    OBVIOUS
  <2>. QED BY <2>1, <2>2
<1>2. CASE Len(s) # 0
  <2>. DEFINE n == Len(s)
              f == CHOOSE g : g = [i \in 1..n |-> IF i = 1 THEN s[i] ELSE g[i - 1] \o s[i]]
  <2>1. n \in Nat \ {0} /\ DOMAIN s = 1..n
    BY <1>2
  <2>2. FlattenSeq(s) = f[n]
    BY <1>2 DEF FlattenSeq
  <2>3. f = [i \in 1..n |-> IF i = 1 THEN s[i] ELSE f[i - 1] \o s[i]]
    <3>1. \E g : g = [i \in 1..n |-> IF i = 1 THEN s[i] ELSE g[i - 1] \o s[i]]
      BY <2>1, FlattenExists
    <3>. QED BY <3>1
  <2>. HIDE DEF f, n
  <2>4. f[1] = s[1] /\ \A m \in 2..n : f[m] = f[m - 1] \o s[m]
    <3>1. 1 \in 1..n /\ \A m \in 2..n : m \in 1..n /\ m # 1
      BY <2>1
    <3>. QED BY <2>3, <3>1
  <2>. DEFINE Sound(m) == /\ f[m] \in Seq(S)
                          /\ \A k \in DOMAIN f[m] :
                               \E i \in 1..m : \E j \in DOMAIN s[i] : f[m][k] = s[i][j]
                          /\ \A i \in 1..m : \A j \in DOMAIN s[i] :
                               \E k \in DOMAIN f[m] : f[m][k] = s[i][j]
              T == {m \in Nat : m \in 1..n => Sound(m)}
  <2>5. Sound(1)
    BY <2>1, <2>4
  <2>6. ASSUME NEW m \in Nat, m \in 1..n, m + 1 \in 1..n, Sound(m) PROVE Sound(m + 1)
    <3>. DEFINE a == f[m]
                b == s[m + 1]
                c == a \o b
    <3>1. f[m + 1] = c
      <4>1. m + 1 \in 2..n /\ (m + 1) - 1 = m
        BY <2>1, <2>6
      <4>. QED BY <2>4, <4>1
    <3>2. a \in Seq(S) /\ b \in Seq(S)
      BY <2>1, <2>6
    <3>3. /\ \A k \in DOMAIN a : \E i \in 1..m : \E j \in DOMAIN s[i] : a[k] = s[i][j]
          /\ \A i \in 1..m : \A j \in DOMAIN s[i] : \E k \in DOMAIN a : a[k] = s[i][j]
      BY <2>6
    <3>. HIDE DEF a
    <3>4. /\ c \in Seq(S)
          /\ \A k \in DOMAIN a : k \in DOMAIN c /\ c[k] = a[k]
          /\ \A j \in DOMAIN b : Len(a) + j \in DOMAIN c /\ c[Len(a) + j] = b[j]
          /\ \A k \in DOMAIN c : k \in DOMAIN a \/ (k - Len(a) \in DOMAIN b /\ c[k] = b[k - Len(a)])
      BY <3>2
    <3>. HIDE DEF c
    <3>5. \A k \in DOMAIN c : \E i \in 1..(m + 1) : \E j \in DOMAIN s[i] : c[k] = s[i][j]
      <4>. TAKE k \in DOMAIN c
      <4>1. CASE k \in DOMAIN a
        <5>1. PICK i \in 1..m : \E j \in DOMAIN s[i] : a[k] = s[i][j]
          BY <3>3, <4>1
        <5>2. i \in 1..(m + 1)
          BY <2>6
        <5>. QED BY <3>4, <4>1, <5>1, <5>2
      <4>2. CASE k - Len(a) \in DOMAIN b /\ c[k] = b[k - Len(a)]
        <5>1. m + 1 \in 1..(m + 1)
          BY <2>6
        <5>. QED BY <4>2, <5>1
      <4>. QED BY <3>4, <4>1, <4>2
    <3>6. \A i \in 1..(m + 1) : \A j \in DOMAIN s[i] : \E k \in DOMAIN c : c[k] = s[i][j]
      <4>. TAKE i \in 1..(m + 1)
      <4>. TAKE j \in DOMAIN s[i]
      <4>1. CASE i = m + 1
        BY <3>4, <4>1
      <4>2. CASE i # m + 1
        <5>1. i \in 1..m
          BY <2>6, <4>2
        <5>2. PICK k \in DOMAIN a : a[k] = s[i][j]
          BY <3>3, <5>1
        <5>. QED BY <3>4, <5>2
      <4>. QED BY <4>1, <4>2
    <3>. QED BY <3>1, <3>4, <3>5, <3>6
  <2>. HIDE DEF Sound
  <2>7. \A m \in Nat : m \in T => m + 1 \in T
    <3>. TAKE m \in Nat
    <3>1. CASE m = 0
      BY <2>5, <3>1
    <3>2. CASE m # 0 /\ m + 1 \in 1..n
      <4>1. m \in 1..n
        BY <2>1, <3>2
      <4>. QED BY <2>6, <3>2, <4>1
    <3>3. CASE m + 1 \notin 1..n
      BY <3>3
    <3>. QED BY <3>1, <3>2, <3>3
  <2>8. 0 \in T
    BY <2>1
  <2>. HIDE DEF T
  <2>9. Nat \subseteq T
    BY <2>7, <2>8, SetInduction
  <2>10. Sound(n)
    BY <2>1, <2>9 DEF T
  <2>11. /\ f[n] \in Seq(S)
         /\ \A k \in DOMAIN f[n] : \E i \in 1..n : \E j \in DOMAIN s[i] : f[n][k] = s[i][j]
         /\ \A i \in 1..n : \A j \in DOMAIN s[i] : \E k \in DOMAIN f[n] : f[n][k] = s[i][j]
    BY <2>10 DEF Sound
  <2>. DEFINE r == FlattenSeq(s)
  <2>12. r = f[n]
    BY <2>2
  <2>. HIDE DEF r
  <2>13. r \in Seq(S)
    BY <2>11, <2>12
  <2>15. \A k \in DOMAIN r : \E i \in DOMAIN s : \E j \in DOMAIN s[i] : r[k] = s[i][j]
    <3>. TAKE k \in DOMAIN r
    <3>1. PICK i \in 1..n : \E j \in DOMAIN s[i] : r[k] = s[i][j]
      BY <2>11, <2>12
    <3>. QED BY <2>1, <3>1
  <2>14. \A i \in DOMAIN s : \A j \in DOMAIN s[i] : \E k \in DOMAIN r : r[k] = s[i][j]
    BY <2>1, <2>11, <2>12
  <2>. QED BY <2>13, <2>14, <2>15 DEF r
<1>. QED BY <1>1, <1>2
=============================================================================
