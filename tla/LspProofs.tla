----------------------------- MODULE LspProofs -----------------------------
(***************************************************************************)
(* Proof that the server follows the buffers, that a version number names  *)
(* one text, and that no wait is left without what ends it, for any        *)
(* documents, texts, edits, requests, sessions, crashes and restarts, and  *)
(* any length of inbox and queue: what LspSync promises.                   *)
(***************************************************************************)
EXTENDS LspSync, SequenceLemmas, FiniteSetTheorems

-----------------------------------------------------------------------------
(***************************************************************************)
(* Folds.  The module folds several operators over lists; what a fold is,  *)
(* prefix by prefix, is shown once for all of them.                        *)
(***************************************************************************)

\* What a process holds after a request: a start replaces it.
Hears(p, r) == IF r.t = "start" THEN NewProcess ELSE ServerReads(p, r)

\* The operators that are folded, by name.
Do(o, a, x) ==
  CASE o.op = "hears"    -> Hears(a, x)
    [] o.op = "reads"    -> ServerReads(a, x)
    [] o.op = "outgoing" -> Outgoing(a, x)
    [] o.op = "forward"  -> Forward(a, x)
    [] o.op = "sync"     -> SyncDoc(a, x)
    [] o.op = "change"   -> DidChange(a, x, o.doc)

\* The function that a fold over the first n members of s is defined by.
IsFold(f, o, base, s, n) ==
  f = [S \in SUBSET (1..n) |->
         IF S = {} THEN base ELSE Do(o, f[S \ {Max(S)}], s[Max(S)])]

\* The greatest member of a set of the first numbers.
LEMMA MaxOfNumbers ==
  ASSUME NEW n \in Nat, NEW S \in SUBSET (1..n), S # {}
  PROVE  Max(S) \in S /\ \A j \in S : j <= Max(S)
<1>1. PICK k \in S : \A j \in S : j <= k
  BY GreatestNatural
<1>2. \A j \in S : j \in Nat
  OBVIOUS
<1>. QED BY <1>1, <1>2 DEF Max

\* That function exists, for a list of any length.
LEMMA FoldExists ==
  ASSUME NEW o, NEW base, NEW s, NEW n \in Nat
  PROVE  \E f : IsFold(f, o, base, s, n)
<1>. DEFINE T == {m \in Nat : \E f : IsFold(f, o, base, s, m)}
<1>1. 0 \in T
  <2>. DEFINE f == [S \in SUBSET (1..0) |-> base]
  <2>1. f = [S \in SUBSET (1..0) |->
               IF S = {} THEN base ELSE Do(o, f[S \ {Max(S)}], s[Max(S)])]
    <3>1. \A S \in SUBSET (1..0) : S = {}
      OBVIOUS
    <3>. QED BY <3>1
  <2>. QED BY <2>1 DEF IsFold
<1>2. ASSUME NEW m \in Nat, m \in T PROVE m + 1 \in T
  <2>1. PICK f : IsFold(f, o, base, s, m)
    BY <1>2
  <2>. DEFINE g == [S \in SUBSET (1..(m + 1)) |->
                      IF m + 1 \in S THEN Do(o, f[S \ {m + 1}], s[m + 1]) ELSE f[S]]
  <2>2. ASSUME NEW S \in SUBSET (1..(m + 1))
        PROVE  g[S] = IF S = {} THEN base ELSE Do(o, g[S \ {Max(S)}], s[Max(S)])
    <3>1. CASE m + 1 \in S
      <4>1. Max(S) = m + 1
        <5>1. m + 1 \in Nat /\ S # {} /\ \A j \in S : j \in Nat /\ j <= m + 1
          BY <3>1
        <5>2. Max(S) \in S /\ \A j \in S : j <= Max(S)
          BY <5>1, MaxOfNumbers
        <5>3. Max(S) \in Nat /\ Max(S) <= m + 1 /\ m + 1 <= Max(S)
          BY <3>1, <5>1, <5>2
        <5>. QED BY <5>1, <5>3
      <4>2. S \ {m + 1} \in SUBSET (1..(m + 1)) /\ m + 1 \notin S \ {m + 1} /\ S # {}
        BY <3>1
      <4>3. g[S \ {m + 1}] = f[S \ {m + 1}]
        BY <4>2
      <4>4. g[S] = Do(o, f[S \ {m + 1}], s[m + 1])
        BY <3>1
      <4>. HIDE DEF g
      <4>. QED BY <4>1, <4>2, <4>3, <4>4
    <3>2. CASE m + 1 \notin S
      <4>1. S \in SUBSET (1..m)
        BY <3>2
      <4>2. f[S] = IF S = {} THEN base ELSE Do(o, f[S \ {Max(S)}], s[Max(S)])
        BY <2>1, <4>1 DEF IsFold
      <4>3. S \ {Max(S)} \in SUBSET (1..(m + 1)) /\ m + 1 \notin S \ {Max(S)}
        BY <3>2
      <4>4. g[S] = f[S] /\ g[S \ {Max(S)}] = f[S \ {Max(S)}]
        BY <3>2, <4>3
      <4>. HIDE DEF g
      <4>. QED BY <4>2, <4>4
    <3>. QED BY <3>1, <3>2
  <2>3. g = [S \in SUBSET (1..(m + 1)) |->
               IF S = {} THEN base ELSE Do(o, g[S \ {Max(S)}], s[Max(S)])]
    <3>1. g = [S \in SUBSET (1..(m + 1)) |-> g[S]]
      OBVIOUS
    <3>. HIDE DEF g
    <3>. QED BY <2>2, <3>1
  <2>4. IsFold(g, o, base, s, m + 1)
    BY <2>3 DEF IsFold
  <2>. QED BY <2>4
<1>. HIDE DEF T
<1>3. Nat \subseteq T
  BY <1>1, <1>2, SetInduction
<1>. QED BY <1>3 DEF T

\* The values of a fold, prefix by prefix.
IsRun(at, o, base, s, n) ==
  /\ at[0] = base
  /\ \A k \in 1..n : at[k] = Do(o, at[k - 1], s[k])

\* What such a function is worth at the prefixes.
LEMMA FoldRun ==
  ASSUME NEW o, NEW base, NEW s, NEW n \in Nat, NEW f, IsFold(f, o, base, s, n)
  PROVE  \E at : IsRun(at, o, base, s, n) /\ at[n] = f[1..n]
<1>. DEFINE at == [k \in 0..n |-> f[1..k]]
<1>1. at[0] = base
  <2>1. {} \in SUBSET (1..n) /\ 1..0 = {} /\ 0 \in 0..n
    OBVIOUS
  <2>2. f[{}] = base
    BY <2>1 DEF IsFold
  <2>. QED BY <2>1, <2>2
<1>2. ASSUME NEW k \in 1..n PROVE at[k] = Do(o, at[k - 1], s[k])
  <2>. DEFINE S == 1..k
  <2>1. S \in SUBSET (1..n) /\ k \in S /\ S \ {k} = 1..(k - 1) /\ (\A j \in S : j <= k)
        /\ k \in 0..n /\ k - 1 \in 0..n
    OBVIOUS
  <2>2. at[k] = f[S] /\ at[k - 1] = f[1..(k - 1)]
    BY <2>1
  <2>. HIDE DEF S, at
  <2>3. Max(S) \in S /\ \A j \in S : j <= Max(S)
    BY <2>1, MaxOfNumbers
  <2>4. Max(S) = k
    BY <2>1, <2>3 DEF S
  <2>5. f[S] = Do(o, f[S \ {k}], s[k])
    BY <2>1, <2>4 DEF IsFold
  <2>. QED BY <2>1, <2>2, <2>5
<1>3. at[n] = f[1..n]
  OBVIOUS
<1>. HIDE DEF at
<1>. QED BY <1>1, <1>2, <1>3 DEF IsRun

\* The operators, by name.
LEMMA DoFacts ==
  ASSUME NEW a, NEW x, NEW d
  PROVE  /\ Do([op |-> "hears"], a, x) = Hears(a, x)
         /\ Do([op |-> "reads"], a, x) = ServerReads(a, x)
         /\ Do([op |-> "outgoing"], a, x) = Outgoing(a, x)
         /\ Do([op |-> "forward"], a, x) = Forward(a, x)
         /\ Do([op |-> "sync"], a, x) = SyncDoc(a, x)
         /\ Do([op |-> "change", doc |-> d], a, x) = DidChange(a, x, d)
BY DEF Do

\* A list: a sequence, whatever its members are.
List(s) == s \in Seq({s[k] : k \in DOMAIN s})

\* A sequence of any kind is one.
LEMMA SequencesAreLists ==
  ASSUME NEW C, NEW s \in Seq(C)
  PROVE  List(s)
<1>. DEFINE D == {s[k] : k \in DOMAIN s}
<1>1. s = [k \in 1..Len(s) |-> s[k]] /\ Len(s) \in Nat
  OBVIOUS
<1>2. \A k \in 1..Len(s) : s[k] \in D
  OBVIOUS
<1>. HIDE DEF D
<1>3. s \in Seq(D)
  BY <1>1, <1>2
<1>. QED BY <1>3 DEF List, D

\* What a list is made of, and what lists are made from lists.
LEMMA ListFacts ==
  ASSUME NEW s, List(s), NEW x
  PROVE  /\ List(<<>>) /\ List(<<x>>) /\ List(Append(s, x))
         /\ Len(s) \in Nat /\ DOMAIN s = 1..Len(s)
         /\ Len(Append(s, x)) = Len(s) + 1 /\ Append(s, x)[Len(s) + 1] = x
         /\ \A k \in 1..Len(s) : Append(s, x)[k] = s[k]
         /\ s # <<>> => /\ List(Tail(s)) /\ s = <<Head(s)>> \o Tail(s)
                        /\ \A k \in DOMAIN Tail(s) : k + 1 \in DOMAIN s /\ Tail(s)[k] = s[k + 1]
                        /\ Head(s) = s[1] /\ 1 \in DOMAIN s
<1>. DEFINE C == {s[k] : k \in DOMAIN s}
            E == C \cup {x}
<1>1. s \in Seq(C)
  BY DEF List
<1>. HIDE DEF C
<1>2. s \in Seq(E) /\ <<>> \in Seq(E) /\ <<x>> \in Seq(E) /\ Append(s, x) \in Seq(E)
  BY <1>1
<1>3. s # <<>> => Tail(s) \in Seq(E)
  BY <1>1
<1>. HIDE DEF E
<1>4. List(<<>>) /\ List(<<x>>) /\ List(Append(s, x)) /\ (s # <<>> => List(Tail(s)))
  BY <1>2, <1>3, SequencesAreLists
<1>. QED BY <1>1, <1>4

\* The end of a run.
Fold(o, base, s) ==
  CHOOSE v : \E at : IsRun(at, o, base, s, Len(s)) /\ v = at[Len(s)]

\* Two runs over the same list agree.
LEMMA RunsAgree ==
  ASSUME NEW o, NEW base, NEW s, NEW t, NEW n \in Nat, NEW f, NEW g,
         IsRun(f, o, base, s, n), \E m \in Nat : m >= n /\ IsRun(g, o, base, t, m),
         \A k \in 1..n : t[k] = s[k]
  PROVE  f[n] = g[n]
<1>1. PICK m \in Nat : m >= n /\ IsRun(g, o, base, t, m)
  OBVIOUS
<1>2. f[0] = g[0]
  BY <1>1 DEF IsRun
<1>3. \A k \in 1..n : f[k] = Do(o, f[k - 1], s[k])
  BY DEF IsRun
<1>4. \A k \in 1..n : g[k] = Do(o, g[k - 1], t[k])
  <2>1. \A k \in 1..n : k \in 1..m
    BY <1>1
  <2>. QED BY <1>1, <2>1 DEF IsRun
<1>. DEFINE T == {k \in Nat : k <= n => f[k] = g[k]}
<1>5. 0 \in T
  BY <1>2
<1>6. ASSUME NEW k \in Nat, k \in T PROVE k + 1 \in T
  <2>1. CASE k + 1 <= n
    <3>1. k + 1 \in 1..n /\ (k + 1) - 1 = k /\ k <= n
      BY <2>1
    <3>2. f[k + 1] = Do(o, f[k], s[k + 1]) /\ g[k + 1] = Do(o, g[k], t[k + 1])
      BY <1>3, <1>4, <3>1
    <3>3. f[k] = g[k] /\ t[k + 1] = s[k + 1]
      BY <1>6, <3>1
    <3>. QED BY <3>2, <3>3
  <2>. QED BY <2>1
<1>. HIDE DEF T
<1>7. Nat \subseteq T
  BY <1>5, <1>6, SetInduction
<1>8. n \in T
  BY <1>7
<1>. QED BY <1>8 DEF T

\* A fold is the end of every run over its list.
LEMMA FoldIs ==
  ASSUME NEW o, NEW base, NEW s, List(s)
  PROVE  /\ \E at : IsRun(at, o, base, s, Len(s)) /\ Fold(o, base, s) = at[Len(s)]
         /\ \A at : IsRun(at, o, base, s, Len(s)) => Fold(o, base, s) = at[Len(s)]
<1>1. Len(s) \in Nat
  BY ListFacts
<1>2. \E at : IsRun(at, o, base, s, Len(s))
  BY <1>1, FoldExists, FoldRun
<1>3. \E v : \E at : IsRun(at, o, base, s, Len(s)) /\ v = at[Len(s)]
  BY <1>2
<1>4. \E at : IsRun(at, o, base, s, Len(s)) /\ Fold(o, base, s) = at[Len(s)]
  BY <1>3 DEF Fold
<1>5. PICK f : IsRun(f, o, base, s, Len(s)) /\ Fold(o, base, s) = f[Len(s)]
  BY <1>4
<1>6. ASSUME NEW g, IsRun(g, o, base, s, Len(s)) PROVE Fold(o, base, s) = g[Len(s)]
  <2>1. \E m \in Nat : m >= Len(s) /\ IsRun(g, o, base, s, m)
    BY <1>1, <1>6
  <2>. QED BY <1>1, <1>5, <2>1, RunsAgree
<1>. QED BY <1>4, <1>6

\* Nothing to fold, and one member more.
LEMMA FoldFacts ==
  ASSUME NEW o, NEW base, NEW s, List(s), NEW x
  PROVE  /\ Fold(o, base, <<>>) = base
         /\ Fold(o, base, Append(s, x)) = Do(o, Fold(o, base, s), x)
<1>. DEFINE n == Len(s)
            t == Append(s, x)
<1>1. List(<<>>) /\ List(t) /\ n \in Nat /\ Len(t) = n + 1 /\ t[n + 1] = x
      /\ \A k \in 1..n : t[k] = s[k]
  <2>1. List(<<>>)
    BY ListFacts
  <2>2. List(t) /\ n \in Nat
    BY ListFacts
  <2>3. Len(t) = n + 1 /\ t[n + 1] = x
    BY ListFacts
  <2>4. \A k \in 1..n : t[k] = s[k]
    BY ListFacts
  <2>. QED BY <2>1, <2>2, <2>3, <2>4
<1>. HIDE DEF n, t
<1>2. Fold(o, base, <<>>) = base
  <2>1. Len(<<>>) = 0
    OBVIOUS
  <2>2. PICK at : IsRun(at, o, base, <<>>, Len(<<>>)) /\ Fold(o, base, <<>>) = at[Len(<<>>)]
    BY <1>1, FoldIs
  <2>. QED BY <2>1, <2>2 DEF IsRun
<1>3. PICK f : IsRun(f, o, base, s, n) /\ Fold(o, base, s) = f[n]
  BY FoldIs DEF n
<1>4. PICK g : IsRun(g, o, base, t, n + 1) /\ Fold(o, base, t) = g[n + 1]
  <2>1. PICK g : IsRun(g, o, base, t, Len(t)) /\ Fold(o, base, t) = g[Len(t)]
    BY <1>1, FoldIs
  <2>. QED BY <1>1, <2>1
<1>5. f[n] = g[n]
  <2>1. n + 1 \in Nat /\ n + 1 >= n
    BY <1>1
  <2>2. \E m \in Nat : m >= n /\ IsRun(g, o, base, t, m)
    BY <1>4, <2>1
  <2>. QED BY <1>1, <1>3, <2>2, RunsAgree
<1>6. g[n + 1] = Do(o, g[n], x)
  <2>1. n + 1 \in 1..(n + 1) /\ (n + 1) - 1 = n
    BY <1>1
  <2>. QED BY <1>1, <1>4, <2>1 DEF IsRun
<1>. QED BY <1>2, <1>3, <1>4, <1>5, <1>6 DEF t

\* A list after another.
LEMMA FoldConcat ==
  ASSUME NEW o, NEW base, NEW s, List(s), NEW t, List(t)
  PROVE  List(s \o t) /\ Fold(o, base, s \o t) = Fold(o, Fold(o, base, s), t)
<1>. DEFINE C == {s[k] : k \in DOMAIN s} \cup {t[k] : k \in DOMAIN t}
            Ok(u) == Fold(o, base, s \o u) = Fold(o, Fold(o, base, s), u)
            T == {n \in Nat : \A u \in Seq(C) : Len(u) = n => Ok(u)}
<1>1. s \in Seq(C) /\ t \in Seq(C)
  BY DEF List
<1>. HIDE DEF C
<1>2. 0 \in T
  <2>1. ASSUME NEW u \in Seq(C), Len(u) = 0 PROVE Ok(u)
    <3>. DEFINE b == Fold(o, base, s)
    <3>1. u = <<>> /\ s \o u = s
      BY <1>1, <2>1
    <3>. HIDE DEF b
    <3>2. Fold(o, b, <<>>) = b
      BY FoldFacts
    <3>. QED BY <3>1, <3>2 DEF b
  <2>. HIDE DEF Ok
  <2>. QED BY <2>1
<1>3. ASSUME NEW n \in Nat, n \in T PROVE n + 1 \in T
  <2>1. ASSUME NEW u \in Seq(C), Len(u) = n + 1 PROVE Ok(u)
    <3>. DEFINE v == Front(u)
                y == Last(u)
    <3>1. v \in Seq(C) /\ Len(v) = n /\ u = Append(v, y)
      BY <2>1 DEF Front, Last
    <3>. HIDE DEF v, y
    <3>2. Ok(v)
      <4>. HIDE DEF Ok
      <4>. QED BY <1>3, <3>1
    <3>3. s \o v \in Seq(C) /\ s \o u = Append(s \o v, y)
      BY <1>1, <3>1
    <3>4. List(v) /\ List(s \o v)
      BY <3>1, <3>3, SequencesAreLists
    <3>5. Fold(o, base, Append(s \o v, y)) = Do(o, Fold(o, base, s \o v), y)
      BY <3>4, FoldFacts
    <3>6. Fold(o, Fold(o, base, s), Append(v, y)) = Do(o, Fold(o, Fold(o, base, s), v), y)
      BY <3>4, FoldFacts
    <3>. QED BY <3>1, <3>2, <3>3, <3>5, <3>6
  <2>. HIDE DEF Ok
  <2>. QED BY <2>1
<1>. HIDE DEF T, Ok
<1>4. Nat \subseteq T
  BY <1>2, <1>3, SetInduction
<1>5. Ok(t)
  <2>1. Len(t) \in T /\ Len(t) \in Nat
    BY <1>1, <1>4
  <2>. QED BY <1>1, <2>1 DEF T
<1>6. s \o t \in Seq(C)
  BY <1>1
<1>. QED BY <1>5, <1>6, SequencesAreLists DEF Ok

\* The first member of a list, folded before the others.
LEMMA FoldHead ==
  ASSUME NEW o, NEW base, NEW s, List(s), s # <<>>
  PROVE  Fold(o, base, s) = Fold(o, Do(o, base, Head(s)), Tail(s))
<1>1. List(<<>>) /\ List(<<Head(s)>>) /\ List(Tail(s)) /\ s = <<Head(s)>> \o Tail(s)
  BY ListFacts
<1>2. Append(<<>>, Head(s)) = <<Head(s)>>
  OBVIOUS
<1>3. Fold(o, base, <<Head(s)>>) = Do(o, base, Head(s))
  <2>. DEFINE e == <<>>
              h == Head(s)
  <2>1. List(e)
    BY <1>1
  <2>4. Append(e, h) = <<h>>
    BY <1>2
  <2>2. Fold(o, base, e) = base
    BY <1>1, FoldFacts
  <2>. HIDE DEF e, h
  <2>3. Fold(o, base, Append(e, h)) = Do(o, Fold(o, base, e), h)
    BY <2>1, FoldFacts
  <2>. QED BY <2>2, <2>3, <2>4 DEF h
<1>4. Fold(o, base, <<Head(s)>> \o Tail(s)) = Fold(o, Fold(o, base, <<Head(s)>>), Tail(s))
  BY <1>1, FoldConcat
<1>. QED BY <1>1, <1>3, <1>4

\* A fold of what a process reads.
LEMMA FoldOfServerReads ==
  ASSUME NEW base, NEW s, List(s)
  PROVE  FoldLeft(ServerReads, base, s) = Fold([op |-> "reads"], base, s)
<1>. DEFINE D == DOMAIN s
            o == [op |-> "reads"]
            f == CHOOSE g : g = [S \in SUBSET D |->
                   IF S = {} THEN base ELSE ServerReads(g[S \ {Max(S)}], s[Max(S)])]
<1>1. D = 1..Len(s) /\ Len(s) \in Nat
  BY ListFacts
<1>2. FoldLeft(ServerReads, base, s) = f[D]
  BY DEF FoldLeft, MapThenFoldSet
<1>3. \A a, x : Do(o, a, x) = ServerReads(a, x)
  BY DoFacts
<1>. HIDE DEF D, o
<1>4. PICK g : IsFold(g, o, base, s, Len(s))
  BY <1>1, FoldExists
<1>5. g = [S \in SUBSET D |-> IF S = {} THEN base ELSE ServerReads(g[S \ {Max(S)}], s[Max(S)])]
  BY <1>1, <1>3, <1>4 DEF IsFold
<1>6. f = [S \in SUBSET D |-> IF S = {} THEN base ELSE ServerReads(f[S \ {Max(S)}], s[Max(S)])]
  BY <1>5
<1>. HIDE DEF f
<1>7. IsFold(f, o, base, s, Len(s))
  BY <1>1, <1>3, <1>6 DEF IsFold
<1>8. PICK at : IsRun(at, o, base, s, Len(s)) /\ at[Len(s)] = f[1..Len(s)]
  BY <1>1, <1>7, FoldRun
<1>9. Fold(o, base, s) = at[Len(s)]
  BY <1>8, FoldIs
<1>. QED BY <1>1, <1>2, <1>8, <1>9 DEF o

\* A fold of what a translator sends.
LEMMA FoldOfOutgoing ==
  ASSUME NEW base, NEW s, List(s)
  PROVE  FoldLeft(Outgoing, base, s) = Fold([op |-> "outgoing"], base, s)
<1>. DEFINE D == DOMAIN s
            o == [op |-> "outgoing"]
            f == CHOOSE g : g = [S \in SUBSET D |->
                   IF S = {} THEN base ELSE Outgoing(g[S \ {Max(S)}], s[Max(S)])]
<1>1. D = 1..Len(s) /\ Len(s) \in Nat
  BY ListFacts
<1>2. FoldLeft(Outgoing, base, s) = f[D]
  BY DEF FoldLeft, MapThenFoldSet
<1>3. \A a, x : Do(o, a, x) = Outgoing(a, x)
  BY DoFacts
<1>. HIDE DEF D, o
<1>4. PICK g : IsFold(g, o, base, s, Len(s))
  BY <1>1, FoldExists
<1>5. g = [S \in SUBSET D |-> IF S = {} THEN base ELSE Outgoing(g[S \ {Max(S)}], s[Max(S)])]
  BY <1>1, <1>3, <1>4 DEF IsFold
<1>6. f = [S \in SUBSET D |-> IF S = {} THEN base ELSE Outgoing(f[S \ {Max(S)}], s[Max(S)])]
  BY <1>5
<1>. HIDE DEF f
<1>7. IsFold(f, o, base, s, Len(s))
  BY <1>1, <1>3, <1>6 DEF IsFold
<1>8. PICK at : IsRun(at, o, base, s, Len(s)) /\ at[Len(s)] = f[1..Len(s)]
  BY <1>1, <1>7, FoldRun
<1>9. Fold(o, base, s) = at[Len(s)]
  BY <1>8, FoldIs
<1>. QED BY <1>1, <1>2, <1>8, <1>9 DEF o

\* A fold of what the main loop forwards.
LEMMA FoldOfForward ==
  ASSUME NEW base, NEW s, List(s)
  PROVE  FoldLeft(Forward, base, s) = Fold([op |-> "forward"], base, s)
<1>. DEFINE D == DOMAIN s
            o == [op |-> "forward"]
            f == CHOOSE g : g = [S \in SUBSET D |->
                   IF S = {} THEN base ELSE Forward(g[S \ {Max(S)}], s[Max(S)])]
<1>1. D = 1..Len(s) /\ Len(s) \in Nat
  BY ListFacts
<1>2. FoldLeft(Forward, base, s) = f[D]
  BY DEF FoldLeft, MapThenFoldSet
<1>3. \A a, x : Do(o, a, x) = Forward(a, x)
  BY DoFacts
<1>. HIDE DEF D, o
<1>4. PICK g : IsFold(g, o, base, s, Len(s))
  BY <1>1, FoldExists
<1>5. g = [S \in SUBSET D |-> IF S = {} THEN base ELSE Forward(g[S \ {Max(S)}], s[Max(S)])]
  BY <1>1, <1>3, <1>4 DEF IsFold
<1>6. f = [S \in SUBSET D |-> IF S = {} THEN base ELSE Forward(f[S \ {Max(S)}], s[Max(S)])]
  BY <1>5
<1>. HIDE DEF f
<1>7. IsFold(f, o, base, s, Len(s))
  BY <1>1, <1>3, <1>6 DEF IsFold
<1>8. PICK at : IsRun(at, o, base, s, Len(s)) /\ at[Len(s)] = f[1..Len(s)]
  BY <1>1, <1>7, FoldRun
<1>9. Fold(o, base, s) = at[Len(s)]
  BY <1>8, FoldIs
<1>. QED BY <1>1, <1>2, <1>8, <1>9 DEF o

\* A fold of the documents that are synchronised.
LEMMA FoldOfSyncDoc ==
  ASSUME NEW base, NEW s, List(s)
  PROVE  FoldLeft(SyncDoc, base, s) = Fold([op |-> "sync"], base, s)
<1>. DEFINE D == DOMAIN s
            o == [op |-> "sync"]
            f == CHOOSE g : g = [S \in SUBSET D |->
                   IF S = {} THEN base ELSE SyncDoc(g[S \ {Max(S)}], s[Max(S)])]
<1>1. D = 1..Len(s) /\ Len(s) \in Nat
  BY ListFacts
<1>2. FoldLeft(SyncDoc, base, s) = f[D]
  BY DEF FoldLeft, MapThenFoldSet
<1>3. \A a, x : Do(o, a, x) = SyncDoc(a, x)
  BY DoFacts
<1>. HIDE DEF D, o
<1>4. PICK g : IsFold(g, o, base, s, Len(s))
  BY <1>1, FoldExists
<1>5. g = [S \in SUBSET D |-> IF S = {} THEN base ELSE SyncDoc(g[S \ {Max(S)}], s[Max(S)])]
  BY <1>1, <1>3, <1>4 DEF IsFold
<1>6. f = [S \in SUBSET D |-> IF S = {} THEN base ELSE SyncDoc(f[S \ {Max(S)}], s[Max(S)])]
  BY <1>5
<1>. HIDE DEF f
<1>7. IsFold(f, o, base, s, Len(s))
  BY <1>1, <1>3, <1>6 DEF IsFold
<1>8. PICK at : IsRun(at, o, base, s, Len(s)) /\ at[Len(s)] = f[1..Len(s)]
  BY <1>1, <1>7, FoldRun
<1>9. Fold(o, base, s) = at[Len(s)]
  BY <1>8, FoldIs
<1>. QED BY <1>1, <1>2, <1>8, <1>9 DEF o

\* A fold of the changes of one document.
LEMMA FoldOfDidChange ==
  ASSUME NEW base, NEW s, List(s), NEW d
  PROVE  FoldLeft(LAMBDA a, c : DidChange(a, c, d), base, s) = Fold([op |-> "change", doc |-> d], base, s)
<1>. DEFINE D == DOMAIN s
            o == [op |-> "change", doc |-> d]
            f == CHOOSE g : g = [S \in SUBSET D |->
                   IF S = {} THEN base ELSE DidChange(g[S \ {Max(S)}], s[Max(S)], d)]
<1>1. D = 1..Len(s) /\ Len(s) \in Nat
  BY ListFacts
<1>2. FoldLeft(LAMBDA a, c : DidChange(a, c, d), base, s) = f[D]
  BY DEF FoldLeft, MapThenFoldSet
<1>3. \A a, x : Do(o, a, x) = DidChange(a, x, d)
  BY DoFacts
<1>. HIDE DEF D, o
<1>4. PICK g : IsFold(g, o, base, s, Len(s))
  BY <1>1, FoldExists
<1>5. g = [S \in SUBSET D |-> IF S = {} THEN base ELSE DidChange(g[S \ {Max(S)}], s[Max(S)], d)]
  BY <1>1, <1>3, <1>4 DEF IsFold
<1>6. f = [S \in SUBSET D |-> IF S = {} THEN base ELSE DidChange(f[S \ {Max(S)}], s[Max(S)], d)]
  BY <1>5
<1>. HIDE DEF f
<1>7. IsFold(f, o, base, s, Len(s))
  BY <1>1, <1>3, <1>6 DEF IsFold
<1>8. PICK at : IsRun(at, o, base, s, Len(s)) /\ at[Len(s)] = f[1..Len(s)]
  BY <1>1, <1>7, FoldRun
<1>9. Fold(o, base, s) = at[Len(s)]
  BY <1>8, FoldIs
<1>. QED BY <1>1, <1>2, <1>8, <1>9 DEF o

\* The members of a finite set, in some order.
LEMMA SetToSeqFacts ==
  ASSUME NEW S, IsFiniteSet(S)
  PROVE  /\ SetToSeq(S) \in Seq(S)
         /\ \A x \in S : \E k \in 1..Len(SetToSeq(S)) : SetToSeq(S)[k] = x
<1>. DEFINE n == Cardinality(S)
            q == SetToSeq(S)
<1>1. n \in Nat /\ \E f : f \in Bijection(1..n, S)
  BY FS_CardinalityType DEF ExistsBijection
<1>2. \E f \in [1..n -> S] : IsInjective(f)
  BY <1>1 DEF Bijection, Injection
<1>3. q \in [1..n -> S] /\ IsInjective(q)
  BY <1>2 DEF SetToSeq
<1>. HIDE DEF q
<1>4. q \in Injection(1..n, S)
  BY <1>3 DEF Injection
<1>5. Cardinality(1..n) = n
  BY <1>1, FS_Interval
<1>6. q \in Surjection(1..n, S)
  BY <1>4, <1>5, FS_Injection
<1>7. \A x \in S : \E k \in 1..n : q[k] = x
  BY <1>6 DEF Surjection
<1>. HIDE DEF n
<1>8. q \in Seq(S) /\ Len(q) = n
  BY <1>1, <1>3
<1>. QED BY <1>7, <1>8 DEF q

-----------------------------------------------------------------------------
(***************************************************************************)
(* What the model sends, and what a process that hears it comes to hold.   *)
(***************************************************************************)

\* What a process has heard after a list of requests.
Heard(p, s) == Fold([op |-> "hears"], p, s)

\* The changes that fit the text they were made for.
Changes ==
  {c \in [len : Nat, at : Nat, del : Nat, ins : Seq(Chars)] : c.at + c.del <= c.len}

\* An edit of some of the documents.
IsEdit(e) ==
  /\ {"changes", "waiting"} \subseteq DOMAIN e
  /\ DOMAIN e.changes \subseteq Docs
  /\ \A d \in DOMAIN e.changes : e.changes[d] \in Changes

ModelFields == {"text", "pend", "reads", "restored", "started", "load", "open", "next", "synced",
                "active", "nextId", "diag", "edit", "out"}
Requests == {"start", "open", "change", "close", "ask", "cancel"}

\* No session was started yet.
NoneStarted == \A i \in 1..MaxSessions : sessions[i] = NoSession

\* The number of a version is a positive one.
Numbered(r) == r.t \in {"open", "change"} => r.version \in Nat \ {0}

\* The model, with the requests of the handler that is under way: a start is the first of
\* them and finds room for a session; until the recipe is started no document is open.
IsModel(m) ==
  /\ ModelFields \subseteq DOMAIN m
  /\ m.text \in [Docs -> Seq(Chars) \cup {None}]
  /\ m.pend \in [Docs -> Seq(Changes)]
  /\ m.open \in [Docs -> Nat] /\ m.next \in Nat
  /\ \A d \in Docs : m.open[d] <= m.next
  /\ m.synced \in [Docs -> Seq(Chars)]
  /\ DOMAIN m.diag = Docs
  /\ m.edit # None => IsEdit(m.edit)
  /\ ~m.started => m.out = <<>> /\ NoneStarted /\ \A d \in Docs : m.open[d] = 0
  /\ List(m.out)
  /\ \A k \in 1..Len(m.out) :
       /\ m.out[k].t \in Requests /\ (m.out[k].t = "start" => k = 1 /\ Used < MaxSessions)
       /\ Numbered(m.out[k])

\* A process holds what the model lists as open, d left aside: it holds nothing of d.
AgreeBut(m, p, D) ==
  /\ {"copy", "seen", "misled", "owes"} \subseteq DOMAIN p
  /\ p.copy = [x \in Docs |-> IF x \in D \/ m.open[x] = 0 THEN None ELSE m.synced[x]]
  /\ p.seen \in [Docs -> Nat]
  /\ \A x \in Docs : p.seen[x] <= m.next /\ (x \notin D /\ m.open[x] # 0 => p.seen[x] = m.open[x])
  /\ ~p.misled

\* What the process hears leaves it with the documents of the model.
Sim(m, p) == IsModel(m) /\ AgreeBut(m, Heard(p, m.out), {})

\* The buffer's text is the one that was sent, unless changes of it wait.
IsSettled(m, d) ==
  m.text[d] # None /\ m.pend[d] = <<>> => m.open[d] # 0 /\ m.synced[d] = m.text[d]

\* Only what is said of d was changed, and nothing of the buffers.
Kept(m, w, d) ==
  /\ w.text = m.text /\ w.pend = m.pend /\ w.edit = m.edit /\ w.started = m.started
  /\ w.diag = m.diag
  /\ \A x \in Docs : x # d => w.open[x] = m.open[x] /\ w.synced[x] = m.synced[x]

\* There is room for a first session.
LEMMA RoomForTheFirst ==
  ASSUME NoneStarted
  PROVE  Used < MaxSessions
<1>1. {i \in 1..MaxSessions : sessions[i] # NoSession} = {}
  BY DEF NoneStarted
<1>2. Used = 0
  BY <1>1, FS_EmptySet DEF Used
<1>. QED BY <1>2, LspBounds

\* A change that fits a text turns it into a text.
LEMMA ReplaceIsText ==
  ASSUME NEW t \in Seq(Chars), NEW c \in Changes, c.len = Len(t)
  PROVE  Replace(t, c) \in Seq(Chars)
<1>. DEFINE n == Len(t)
            a == SubSeq(t, 1, c.at)
            b == SubSeq(t, c.at + c.del + 1, n)
<1>1. n \in Nat /\ c.at \in Nat /\ c.del \in Nat /\ c.ins \in Seq(Chars) /\ c.at + c.del <= n
  BY DEF Changes
<1>2. a \in Seq(Chars)
  BY <1>1
<1>3. b \in Seq(Chars)
  <2>. DEFINE i == c.at + c.del + 1
  <2>1. i \in Int /\ n \in Int /\ \A k \in i..n : t[k] \in Chars
    BY <1>1
  <2>. HIDE DEF i, n
  <2>2. SubSeq(t, i, n) \in Seq(Chars)
    BY <2>1, SubSeqProperties
  <2>. QED BY <2>2 DEF i
<1>. HIDE DEF a, b
<1>4. a \o c.ins \o b \in Seq(Chars)
  BY <1>1, <1>2, <1>3
<1>. QED BY <1>4 DEF Replace, a, b, n

\* w is m with one more request, which p hears last.
IsPush(m, w, r, p) ==
  /\ ModelFields \subseteq DOMAIN w
  /\ List(w.out)
  /\ Heard(p, w.out) = Hears(Heard(p, m.out), r)
  /\ \A k \in 1..Len(w.out) : \/ k \in 1..Len(m.out) /\ w.out[k] = m.out[k]
                              \/ k = Len(m.out) + 1 /\ w.out[k] = r
  /\ \A f \in ModelFields : f # "out" => w[f] = m[f]

\* One more request: what the model says, and what the process hears.
LEMMA PushFacts ==
  ASSUME NEW m, ModelFields \subseteq DOMAIN m, NEW r, List(m.out), NEW p
  PROVE  IsPush(m, Push(m, r), r, p)
<1>. DEFINE w == Push(m, r)
<1>1. /\ DOMAIN w = DOMAIN m /\ w.out = Append(m.out, r)
      /\ \A f \in DOMAIN m : f # "out" => w[f] = m[f]
  BY DEF Push, ModelFields
<1>. HIDE DEF w
<1>2. List(w.out)
  <2>1. List(Append(m.out, r))
    BY ListFacts
  <2>. QED BY <1>1, <2>1
<1>3. Heard(p, w.out) = Hears(Heard(p, m.out), r)
  <2>. DEFINE o == [op |-> "hears"]
              s == m.out
  <2>1. List(s) /\ \A a, x : Do(o, a, x) = Hears(a, x)
    BY DoFacts
  <2>. HIDE DEF o, s
  <2>2. Fold(o, p, Append(s, r)) = Do(o, Fold(o, p, s), r)
    BY <2>1, FoldFacts
  <2>. QED BY <1>1, <2>1, <2>2 DEF Heard, o, s
<1>4. \A k \in 1..Len(w.out) : \/ k \in 1..Len(m.out) /\ w.out[k] = m.out[k]
                               \/ k = Len(m.out) + 1 /\ w.out[k] = r
  BY <1>1, ListFacts
<1>. QED BY <1>1, <1>2, <1>3, <1>4 DEF w, IsPush

\* What an open, a change and a close do to a process that is told in order.
LEMMA HearsOpen ==
  ASSUME NEW p, {"copy", "seen", "misled", "owes"} \subseteq DOMAIN p, NEW d \in Docs,
         NEW v \in Nat, NEW x, p.seen \in [Docs -> Nat], DOMAIN p.copy = Docs,
         p.copy[d] = None, p.seen[d] < v, ~p.misled,
         NEW q, q = Hears(p, [t |-> "open", doc |-> d, version |-> v, text |-> x])
  PROVE  /\ {"copy", "seen", "misled", "owes"} \subseteq DOMAIN q
         /\ q.copy = [p.copy EXCEPT ![d] = x] /\ q.seen = [p.seen EXCEPT ![d] = v] /\ ~q.misled
<1>1. q = [p EXCEPT !.copy[d] = x, !.seen[d] = v,
                    !.misled = @ \/ p.copy[d] # None \/ v <= p.seen[d]]
  BY DEF Hears, ServerReads
<1>2. DOMAIN q = DOMAIN p /\ q.copy = [p.copy EXCEPT ![d] = x]
      /\ q.seen = [p.seen EXCEPT ![d] = v]
  BY <1>1
<1>3. q.misled = (p.misled \/ p.copy[d] # None \/ v <= p.seen[d])
  BY <1>1
<1>4. ~(v <= p.seen[d])
  OBVIOUS
<1>. QED BY <1>2, <1>3, <1>4

\* A change.
LEMMA HearsChange ==
  ASSUME NEW p, {"copy", "seen", "misled", "owes"} \subseteq DOMAIN p, NEW d \in Docs,
         NEW v \in Nat, NEW c \in Changes, p.seen \in [Docs -> Nat], DOMAIN p.copy = Docs,
         p.copy[d] # None, p.seen[d] < v, ~p.misled, c.len = Len(p.copy[d]),
         NEW q, q = Hears(p, [t |-> "change", doc |-> d, version |-> v, change |-> c])
  PROVE  /\ {"copy", "seen", "misled", "owes"} \subseteq DOMAIN q
         /\ q.copy = [p.copy EXCEPT ![d] = Replace(@, c)]
         /\ q.seen = [p.seen EXCEPT ![d] = v] /\ ~q.misled
<1>1. q = [p EXCEPT !.copy[d] = Replace(@, c), !.seen[d] = v,
                    !.misled = @ \/ v <= p.seen[d] \/ c.at + c.del > Len(p.copy[d])]
  BY DEF Hears, ServerReads
<1>2. DOMAIN q = DOMAIN p /\ q.copy = [p.copy EXCEPT ![d] = Replace(@, c)]
      /\ q.seen = [p.seen EXCEPT ![d] = v]
  BY <1>1
<1>3. q.misled = (p.misled \/ v <= p.seen[d] \/ c.at + c.del > Len(p.copy[d]))
  BY <1>1
<1>4. ~(v <= p.seen[d])
  OBVIOUS
<1>5. ~(c.at + c.del > Len(p.copy[d]))
  BY DEF Changes
<1>. QED BY <1>2, <1>3, <1>4, <1>5

\* A close.
LEMMA HearsClose ==
  ASSUME NEW p, {"copy", "seen", "misled", "owes"} \subseteq DOMAIN p, NEW d \in Docs,
         DOMAIN p.copy = Docs, p.copy[d] # None, ~p.misled,
         NEW q, q = Hears(p, [t |-> "close", doc |-> d])
  PROVE  /\ {"copy", "seen", "misled", "owes"} \subseteq DOMAIN q
         /\ q.copy = [p.copy EXCEPT ![d] = None] /\ q.seen = p.seen /\ ~q.misled
<1>1. q = [p EXCEPT !.copy[d] = None, !.misled = @ \/ p.copy[d] = None]
  BY DEF Hears, ServerReads
<1>2. DOMAIN q = DOMAIN p /\ q.copy = [p.copy EXCEPT ![d] = None] /\ q.seen = p.seen
  BY <1>1
<1>3. q.misled = (p.misled \/ p.copy[d] = None)
  BY <1>1
<1>. QED BY <1>2, <1>3

\* An open of a document the process does not hold.
LEMMA OpenSims ==
  ASSUME NEW m, IsModel(m), NEW p, NEW d \in Docs, AgreeBut(m, Heard(p, m.out), {d}),
         m.started, m.text[d] # None, NEW w, w = DidOpen(m, d)
  PROVE  Sim(w, p) /\ Kept(m, w, d) /\ w.open[d] # 0 /\ w.synced[d] = m.text[d]
<1>. DEFINE n == m.next + 1
            r == [t |-> "open", doc |-> d, version |-> n, text |-> m.text[d]]
            b == [m EXCEPT !.next = @ + 1, !.open[d] = m.next + 1, !.synced[d] = m.text[d]]
            q == Heard(p, m.out)
<1>1. /\ ModelFields \subseteq DOMAIN m
      /\ m.text \in [Docs -> Seq(Chars) \cup {None}] /\ m.open \in [Docs -> Nat]
      /\ m.next \in Nat /\ m.synced \in [Docs -> Seq(Chars)] /\ List(m.out)
      /\ \A x \in Docs : m.open[x] <= m.next
  BY DEF IsModel
<1>2. /\ DOMAIN b = DOMAIN m /\ b.next = n
      /\ b.open = [m.open EXCEPT ![d] = n] /\ b.synced = [m.synced EXCEPT ![d] = m.text[d]]
      /\ b.out = m.out /\ b.text = m.text /\ b.pend = m.pend /\ b.edit = m.edit
      /\ b.started = m.started /\ b.diag = m.diag
  BY <1>1 DEF ModelFields
<1>3. w = Push(b, r)
  BY DEF DidOpen
<1>. HIDE DEF b
<1>4. ModelFields \subseteq DOMAIN b /\ List(b.out)
  BY <1>1, <1>2
<1>. HIDE DEF r
<1>5. /\ ModelFields \subseteq DOMAIN w /\ List(w.out)
      /\ Heard(p, w.out) = Hears(q, r)
      /\ \A k \in 1..Len(w.out) : \/ k \in 1..Len(m.out) /\ w.out[k] = m.out[k]
                                  \/ k = Len(m.out) + 1 /\ w.out[k] = r
      /\ \A f \in ModelFields : f # "out" => w[f] = b[f]
  <2>1. IsPush(b, w, r, p)
    BY <1>3, <1>4, PushFacts
  <2>. QED BY <1>2, <2>1 DEF IsPush
<1>6. /\ w.next = n /\ w.open = [m.open EXCEPT ![d] = n]
      /\ w.synced = [m.synced EXCEPT ![d] = m.text[d]]
      /\ w.text = m.text /\ w.pend = m.pend /\ w.edit = m.edit /\ w.started = m.started
      /\ w.diag = m.diag
  BY <1>2, <1>5 DEF ModelFields
<1>7. IsModel(w)
  <2>1. m.text[d] \in Seq(Chars) /\ n \in Nat /\ n > m.next
    BY <1>1
  <2>2. w.open \in [Docs -> Nat] /\ w.synced \in [Docs -> Seq(Chars)] /\ w.next \in Nat
        /\ \A x \in Docs : w.open[x] <= w.next
    BY <1>1, <1>6, <2>1
  <2>3. r.t = "open" /\ Numbered(r)
    BY <1>1 DEF r, Numbered
  <2>4. \A k \in 1..Len(w.out) : w.out[k].t \in Requests /\ Numbered(w.out[k])
          /\ (w.out[k].t = "start" => k = 1 /\ Used < MaxSessions)
    <3>1. \A k \in 1..Len(m.out) : m.out[k].t \in Requests /\ Numbered(m.out[k])
            /\ (m.out[k].t = "start" => k = 1 /\ Used < MaxSessions)
      BY DEF IsModel
    <3>2. r.t \in Requests /\ Numbered(r) /\ r.t # "start"
      BY <2>3 DEF Requests
    <3>. QED BY <1>5, <3>1, <3>2
  <2>. QED BY <1>5, <1>6, <2>2, <2>4 DEF IsModel
<1>8. /\ {"copy", "seen", "misled", "owes"} \subseteq DOMAIN q
      /\ q.copy = [x \in Docs |-> IF x \in {d} \/ m.open[x] = 0 THEN None ELSE m.synced[x]]
      /\ q.seen \in [Docs -> Nat]
      /\ \A x \in Docs : q.seen[x] <= m.next /\ (x \notin {d} /\ m.open[x] # 0 => q.seen[x] = m.open[x])
      /\ ~q.misled
  BY DEF AgreeBut
<1>. HIDE DEF q
<1>9. AgreeBut(w, Heard(p, w.out), {})
  <2>. DEFINE z == Heard(p, w.out)
  <2>0. n \in Nat /\ q.seen[d] < n /\ n # 0 /\ \A x \in Docs : q.seen[x] <= n
    BY <1>1, <1>8
  <2>1. /\ {"copy", "seen", "misled", "owes"} \subseteq DOMAIN z
        /\ z.copy = [q.copy EXCEPT ![d] = m.text[d]] /\ z.seen = [q.seen EXCEPT ![d] = n] /\ ~z.misled
    <3>1. DOMAIN q.copy = Docs /\ q.copy[d] = None
      BY <1>8
    <3>2. z = Hears(q, [t |-> "open", doc |-> d, version |-> n, text |-> m.text[d]])
      BY <1>5 DEF r
    <3>3. {"copy", "seen", "misled", "owes"} \subseteq DOMAIN q /\ q.seen \in [Docs -> Nat]
          /\ ~q.misled
      BY <1>8
    <3>. HIDE DEF z, n
    <3>. QED BY <2>0, <3>1, <3>2, <3>3, HearsOpen
  <2>. HIDE DEF z, n
  <2>2. z.copy = [x \in Docs |-> IF x \in {} \/ w.open[x] = 0 THEN None ELSE w.synced[x]]
    <3>1. DOMAIN m.open = Docs /\ DOMAIN m.synced = Docs
      BY <1>1
    <3>2. ASSUME NEW x \in Docs, x # d
          PROVE  w.open[x] = m.open[x] /\ w.synced[x] = m.synced[x]
      BY <1>6, <3>1, <3>2
    <3>3. w.open[d] = n /\ w.synced[d] = m.text[d] /\ n # 0
      BY <1>6, <2>0, <3>1
    <3>4. ASSUME NEW x \in Docs
          PROVE  (IF x = d THEN m.text[d] ELSE IF m.open[x] = 0 THEN None ELSE m.synced[x])
                   = (IF w.open[x] = 0 THEN None ELSE w.synced[x])
      BY <3>2, <3>3
    <3>5. z.copy = [x \in Docs |->
                      IF x = d THEN m.text[d] ELSE IF m.open[x] = 0 THEN None ELSE m.synced[x]]
      BY <1>8, <2>1
    <3>. QED BY <3>4, <3>5
  <2>3. z.seen \in [Docs -> Nat] /\ \A x \in Docs : z.seen[x] <= w.next
          /\ (x \notin {} /\ w.open[x] # 0 => z.seen[x] = w.open[x])
    BY <1>1, <1>6, <1>8, <2>0, <2>1
  <2>. QED BY <2>1, <2>2, <2>3 DEF AgreeBut, z
<1>10. w.open[d] # 0 /\ w.synced[d] = m.text[d] /\ Kept(m, w, d)
  BY <1>1, <1>6 DEF Kept
<1>. QED BY <1>7, <1>9, <1>10 DEF Sim

\* An open of a document that is not listed as open.
LEMMA DidOpenSims ==
  ASSUME NEW m, NEW p, Sim(m, p), NEW d \in Docs, m.open[d] = 0,
         m.started, m.text[d] # None, NEW w, w = DidOpen(m, d)
  PROVE  Sim(w, p) /\ Kept(m, w, d) /\ w.open[d] # 0 /\ w.synced[d] = m.text[d]
<1>. DEFINE q == Heard(p, m.out)
<1>1. IsModel(m) /\ AgreeBut(m, q, {})
  BY DEF Sim
<1>. HIDE DEF q
<1>2. AgreeBut(m, q, {d})
  <2>1. q.copy = [x \in Docs |-> IF x \in {} \/ m.open[x] = 0 THEN None ELSE m.synced[x]]
    BY <1>1 DEF AgreeBut
  <2>2. q.copy = [x \in Docs |-> IF x \in {d} \/ m.open[x] = 0 THEN None ELSE m.synced[x]]
    BY <2>1
  <2>. QED BY <1>1, <2>2 DEF AgreeBut
<1>. QED BY <1>1, <1>2, OpenSims DEF q

\* A close takes the document from the process.
LEMMA CloseSims ==
  ASSUME NEW m, NEW p, Sim(m, p), NEW d \in Docs, m.open[d] # 0, NEW w, w = DidClose(m, d)
  PROVE  /\ IsModel(w) /\ AgreeBut(w, Heard(p, w.out), {d})
         /\ \A f \in ModelFields : f # "out" => w[f] = m[f]
<1>. DEFINE q == Heard(p, m.out)
            r == [t |-> "close", doc |-> d]
            z == Heard(p, w.out)
<1>1. IsModel(m) /\ AgreeBut(m, q, {})
  BY DEF Sim
<1>2. ModelFields \subseteq DOMAIN m /\ List(m.out) /\ m.started
      /\ m.synced \in [Docs -> Seq(Chars)]
  BY <1>1 DEF IsModel
<1>3. w = Push(m, r)
  BY DEF DidClose
<1>4. r.t = "close" /\ Numbered(r)
  BY DEF Numbered
<1>. HIDE DEF r
<1>5. IsPush(m, w, r, p)
  BY <1>2, <1>3, PushFacts
<1>6. /\ ModelFields \subseteq DOMAIN w /\ List(w.out) /\ z = Hears(q, r)
      /\ \A k \in 1..Len(w.out) : \/ k \in 1..Len(m.out) /\ w.out[k] = m.out[k]
                                  \/ k = Len(m.out) + 1 /\ w.out[k] = r
      /\ \A f \in ModelFields : f # "out" => w[f] = m[f]
  BY <1>5 DEF IsPush
<1>7. /\ w.text = m.text /\ w.pend = m.pend /\ w.open = m.open /\ w.next = m.next
      /\ w.synced = m.synced /\ w.edit = m.edit /\ w.started = m.started
      /\ w.diag = m.diag
  BY <1>6 DEF ModelFields
<1>. HIDE DEF q, z
<1>8. IsModel(w)
  <2>1. \A k \in 1..Len(w.out) : w.out[k].t \in Requests /\ Numbered(w.out[k])
          /\ (w.out[k].t = "start" => k = 1 /\ Used < MaxSessions)
    BY <1>1, <1>4, <1>6 DEF IsModel, Requests
  <2>. QED BY <1>1, <1>2, <1>6, <1>7, <2>1 DEF IsModel
<1>9. /\ {"copy", "seen", "misled", "owes"} \subseteq DOMAIN q /\ ~q.misled
      /\ q.copy = [x \in Docs |-> IF m.open[x] = 0 THEN None ELSE m.synced[x]]
  BY <1>1 DEF AgreeBut
<1>10. DOMAIN q.copy = Docs /\ q.copy[d] # None
  BY <1>2, <1>9, LspBounds
<1>11. /\ {"copy", "seen", "misled", "owes"} \subseteq DOMAIN z
       /\ z.copy = [q.copy EXCEPT ![d] = None] /\ z.seen = q.seen /\ ~z.misled
  <2>1. z = Hears(q, [t |-> "close", doc |-> d])
    BY <1>6 DEF r
  <2>2. {"copy", "seen", "misled", "owes"} \subseteq DOMAIN q /\ ~q.misled
    BY <1>9
  <2>. QED BY <1>10, <2>1, <2>2, HearsClose
<1>12. z.copy = [x \in Docs |-> IF x \in {d} \/ w.open[x] = 0 THEN None ELSE w.synced[x]]
  BY <1>7, <1>9, <1>11
<1>13. z.seen \in [Docs -> Nat] /\ \A x \in Docs : z.seen[x] <= w.next
         /\ (x \notin {d} /\ w.open[x] # 0 => z.seen[x] = w.open[x])
  BY <1>1, <1>7, <1>11 DEF AgreeBut
<1>14. AgreeBut(w, z, {d})
  BY <1>11, <1>12, <1>13 DEF AgreeBut
<1>. QED BY <1>6, <1>8, <1>14 DEF z

\* A document is closed and opened again.
LEMMA ReopenSims ==
  ASSUME NEW m, NEW p, Sim(m, p), NEW d \in Docs, m.open[d] # 0, m.text[d] # None,
         NEW w, w = DidOpen(DidClose(m, d), d)
  PROVE  Sim(w, p) /\ Kept(m, w, d) /\ w.open[d] # 0 /\ w.synced[d] = m.text[d]
<1>. DEFINE b == DidClose(m, d)
<1>1. /\ IsModel(b) /\ AgreeBut(b, Heard(p, b.out), {d})
      /\ \A f \in ModelFields : f # "out" => b[f] = m[f]
  BY CloseSims
<1>2. w = DidOpen(b, d)
  OBVIOUS
<1>. HIDE DEF b
<1>3. /\ b.text = m.text /\ b.pend = m.pend /\ b.open = m.open
      /\ b.synced = m.synced /\ b.edit = m.edit /\ b.started = m.started
      /\ b.diag = m.diag
  BY <1>1 DEF ModelFields
<1>4. m.started
  BY DEF Sim, IsModel
<1>5. Sim(w, p) /\ Kept(b, w, d) /\ w.open[d] # 0 /\ w.synced[d] = b.text[d]
  <2>1. b.started /\ b.text[d] # None
    BY <1>3, <1>4
  <2>2. IsModel(b) /\ AgreeBut(b, Heard(p, b.out), {d})
    BY <1>1
  <2>. QED BY <1>2, <2>1, <2>2, OpenSims
<1>. QED BY <1>3, <1>5 DEF Kept

\* One queued transaction of a document that is open.
LEMMA DidChangeSims ==
  ASSUME NEW a, {"m", "lost"} \subseteq DOMAIN a, NEW p, Sim(a.m, p), NEW d \in Docs,
         a.m.open[d] # 0, NEW c \in Changes, NEW r, r = DidChange(a, c, d)
  PROVE  /\ {"m", "lost"} \subseteq DOMAIN r /\ Sim(r.m, p) /\ Kept(a.m, r.m, d)
         /\ r.m.open[d] # 0
<1>. DEFINE m == a.m
            n == m.next + 1
            b == [m EXCEPT !.next = @ + 1, !.open[d] = m.next + 1, !.synced[d] = Replace(@, c)]
            x == [t |-> "change", doc |-> d, version |-> n, change |-> c]
            w == Push(b, x)
            q == Heard(p, m.out)
            z == Heard(p, w.out)
<1>1. CASE r = a
  BY <1>1 DEF Kept
<1>2. CASE r = [a EXCEPT !.lost = TRUE]
  <2>1. r.m = a.m /\ {"m", "lost"} \subseteq DOMAIN r
    BY <1>2
  <2>. QED BY <2>1 DEF Kept
<1>3. CASE c.len = Len(m.synced[d]) /\ r = [a EXCEPT !.m = w]
  <2>1. r.m = w /\ {"m", "lost"} \subseteq DOMAIN r
    BY <1>3
  <2>2. IsModel(m) /\ AgreeBut(m, q, {})
    BY DEF Sim
  <2>3. /\ ModelFields \subseteq DOMAIN m /\ List(m.out) /\ m.started
        /\ m.synced \in [Docs -> Seq(Chars)] /\ m.open \in [Docs -> Nat] /\ m.next \in Nat
        /\ \A y \in Docs : m.open[y] <= m.next
    BY <2>2 DEF IsModel
  <2>. HIDE DEF m
  <2>4. /\ DOMAIN b = DOMAIN m /\ b.next = n /\ b.open = [m.open EXCEPT ![d] = n]
        /\ b.synced = [m.synced EXCEPT ![d] = Replace(@, c)]
        /\ b.out = m.out /\ b.text = m.text /\ b.pend = m.pend /\ b.edit = m.edit
        /\ b.started = m.started /\ b.diag = m.diag
    BY <2>3 DEF ModelFields
  <2>5. x.t = "change" /\ Numbered(x)
    BY <2>3 DEF Numbered
  <2>. HIDE DEF b, x
  <2>6. ModelFields \subseteq DOMAIN b /\ List(b.out)
    BY <2>3, <2>4
  <2>7. IsPush(b, w, x, p)
    BY <2>6, PushFacts
  <2>. HIDE DEF w
  <2>8. /\ ModelFields \subseteq DOMAIN w /\ List(w.out) /\ z = Hears(q, x)
        /\ \A k \in 1..Len(w.out) : \/ k \in 1..Len(m.out) /\ w.out[k] = m.out[k]
                                    \/ k = Len(m.out) + 1 /\ w.out[k] = x
        /\ \A f \in ModelFields : f # "out" => w[f] = b[f]
    BY <2>4, <2>7 DEF IsPush
  <2>9. /\ w.next = n /\ w.open = [m.open EXCEPT ![d] = n]
        /\ w.synced = [m.synced EXCEPT ![d] = Replace(@, c)]
        /\ w.text = m.text /\ w.pend = m.pend /\ w.edit = m.edit /\ w.started = m.started
        /\ w.diag = m.diag
    BY <2>4, <2>8 DEF ModelFields
  <2>. HIDE DEF q, z
  <2>10. n \in Nat /\ n > m.next /\ n # 0 /\ Replace(m.synced[d], c) \in Seq(Chars)
    <3>1. n \in Nat /\ n > m.next /\ n # 0
      BY <2>3
    <3>2. m.synced[d] \in Seq(Chars) /\ c.len = Len(m.synced[d])
      BY <1>3, <2>3
    <3>3. Replace(m.synced[d], c) \in Seq(Chars)
      BY <3>2, ReplaceIsText
    <3>. QED BY <3>1, <3>3
  <2>11. IsModel(w)
    <3>1. w.open \in [Docs -> Nat] /\ w.synced \in [Docs -> Seq(Chars)] /\ w.next \in Nat
          /\ \A y \in Docs : w.open[y] <= w.next
      BY <2>3, <2>9, <2>10
    <3>2. \A k \in 1..Len(w.out) : w.out[k].t \in Requests /\ Numbered(w.out[k])
            /\ (w.out[k].t = "start" => k = 1 /\ Used < MaxSessions)
      BY <2>2, <2>5, <2>8 DEF IsModel, Requests
    <3>. QED BY <2>2, <2>3, <2>8, <2>9, <3>1, <3>2 DEF IsModel
  <2>12. /\ {"copy", "seen", "misled", "owes"} \subseteq DOMAIN q /\ ~q.misled
         /\ q.copy = [y \in Docs |-> IF m.open[y] = 0 THEN None ELSE m.synced[y]]
         /\ q.seen \in [Docs -> Nat]
         /\ \A y \in Docs : q.seen[y] <= m.next /\ (m.open[y] # 0 => q.seen[y] = m.open[y])
    BY <2>2 DEF AgreeBut
  <2>13. DOMAIN q.copy = Docs /\ q.copy[d] = m.synced[d] /\ q.copy[d] # None
         /\ q.seen[d] < n /\ \A y \in Docs : q.seen[y] <= n
    <3>1. m.open[d] # 0
      BY DEF m
    <3>. QED BY <2>3, <2>10, <2>12, <3>1, LspBounds
  <2>14. /\ {"copy", "seen", "misled", "owes"} \subseteq DOMAIN z
         /\ z.copy = [q.copy EXCEPT ![d] = Replace(@, c)]
         /\ z.seen = [q.seen EXCEPT ![d] = n] /\ ~z.misled
    <3>1. z = Hears(q, [t |-> "change", doc |-> d, version |-> n, change |-> c])
      BY <2>8 DEF x
    <3>2. {"copy", "seen", "misled", "owes"} \subseteq DOMAIN q /\ ~q.misled
          /\ q.seen \in [Docs -> Nat] /\ c.len = Len(q.copy[d]) /\ n \in Nat
      BY <1>3, <2>10, <2>12, <2>13
    <3>3. q.copy[d] # None /\ DOMAIN q.copy = Docs /\ q.seen[d] < n
      BY <2>13
    <3>. HIDE DEF n
    <3>. QED BY <3>1, <3>2, <3>3, HearsChange
  <2>. HIDE DEF n
  <2>15. z.copy = [y \in Docs |-> IF y \in {} \/ w.open[y] = 0 THEN None ELSE w.synced[y]]
    <3>1. ASSUME NEW y \in Docs
          PROVE  z.copy[y] = IF w.open[y] = 0 THEN None ELSE w.synced[y]
      <4>1. CASE y = d
        <5>1. z.copy[y] = Replace(q.copy[d], c)
          BY <2>13, <2>14, <4>1
        <5>2. w.open[y] = n /\ w.synced[y] = Replace(m.synced[d], c)
          BY <2>3, <2>9, <4>1
        <5>. QED BY <2>10, <2>13, <5>1, <5>2
      <4>2. CASE y # d
        <5>1. z.copy[y] = q.copy[y] /\ q.copy[y] = IF m.open[y] = 0 THEN None ELSE m.synced[y]
          BY <2>12, <2>13, <2>14, <4>2
        <5>2. w.open[y] = m.open[y] /\ w.synced[y] = m.synced[y]
          BY <2>3, <2>9, <4>2
        <5>. QED BY <5>1, <5>2
      <4>. QED BY <4>1, <4>2
    <3>2. z.copy = [y \in Docs |-> z.copy[y]]
      BY <2>13, <2>14
    <3>. QED BY <3>1, <3>2
  <2>16. z.seen \in [Docs -> Nat] /\ \A y \in Docs : z.seen[y] <= w.next
           /\ (y \notin {} /\ w.open[y] # 0 => z.seen[y] = w.open[y])
    BY <2>3, <2>9, <2>10, <2>12, <2>13, <2>14
  <2>17. Sim(w, p)
    BY <2>11, <2>14, <2>15, <2>16 DEF AgreeBut, Sim, z
  <2>18. Kept(m, w, d) /\ w.open[d] # 0
    BY <2>3, <2>9, <2>10 DEF Kept
  <2>. QED BY <2>1, <2>17, <2>18 DEF m
<1>. QED BY <1>1, <1>2, <1>3 DEF DidChange

\* The transactions of one document that is open: afterwards the process has its text.
LEMMA SyncChangesSims ==
  ASSUME NEW m, NEW p, Sim(m, p), NEW d \in Docs, m.open[d] # 0, m.text[d] # None,
         NEW cs \in Seq(Changes), NEW w, w = SyncChanges(m, d, cs)
  PROVE  Sim(w, p) /\ Kept(m, w, d) /\ w.open[d] # 0 /\ w.synced[d] = m.text[d]
<1>. DEFINE base == [m |-> m, lost |-> FALSE]
            o == [op |-> "change", doc |-> d]
            n == Len(cs)
            acc == FoldLeft(LAMBDA a, c : DidChange(a, c, d), base, cs)
            Ok(a) == /\ {"m", "lost"} \subseteq DOMAIN a /\ Sim(a.m, p) /\ Kept(m, a.m, d)
                     /\ a.m.open[d] # 0
<1>1. List(cs) /\ n \in Nat /\ \A k \in 1..n : cs[k] \in Changes
  BY SequencesAreLists
<1>2. acc = Fold(o, base, cs)
  BY <1>1, FoldOfDidChange
<1>3. \A a, x : Do(o, a, x) = DidChange(a, x, d)
  BY DoFacts
<1>4. Ok(base)
  BY DEF Kept
<1>5. w = IF acc.lost \/ acc.m.synced[d] # m.text[d] THEN DidOpen(DidClose(acc.m, d), d) ELSE acc.m
  BY DEF SyncChanges
<1>. HIDE DEF acc, base, o
<1>6. PICK at : IsRun(at, o, base, cs, n) /\ acc = at[n]
  BY <1>1, <1>2, FoldIs
<1>. DEFINE T == {k \in Nat : k <= n => Ok(at[k])}
<1>7. 0 \in T
  BY <1>4, <1>6 DEF IsRun
<1>8. ASSUME NEW k \in Nat, k \in T PROVE k + 1 \in T
  <2>1. CASE k + 1 <= n
    <3>1. k + 1 \in 1..n /\ (k + 1) - 1 = k /\ k <= n
      BY <1>1, <2>1
    <3>2. at[k + 1] = DidChange(at[k], cs[k + 1], d)
      BY <1>3, <1>6, <3>1 DEF IsRun
    <3>3. Ok(at[k]) /\ cs[k + 1] \in Changes
      BY <1>1, <1>8, <3>1
    <3>. DEFINE a == at[k]
                r == at[k + 1]
                c == cs[k + 1]
    <3>4. r = DidChange(a, c, d) /\ c \in Changes
      BY <3>2, <3>3
    <3>5. {"m", "lost"} \subseteq DOMAIN a /\ Sim(a.m, p) /\ Kept(m, a.m, d) /\ a.m.open[d] # 0
      BY <3>3
    <3>. HIDE DEF a, r, c
    <3>6. {"m", "lost"} \subseteq DOMAIN r /\ Sim(r.m, p) /\ Kept(a.m, r.m, d) /\ r.m.open[d] # 0
      BY <3>4, <3>5, DidChangeSims
    <3>7. Kept(m, r.m, d)
      BY <3>5, <3>6 DEF Kept
    <3>8. Ok(r)
      BY <3>6, <3>7
    <3>. QED BY <3>8 DEF r
  <2>. QED BY <1>1, <2>1
<1>. HIDE DEF T
<1>9. Nat \subseteq T
  BY <1>7, <1>8, SetInduction
<1>10. Ok(acc)
  <2>1. n \in T
    BY <1>1, <1>9
  <2>. QED BY <1>1, <1>6, <2>1 DEF T
<1>. DEFINE b == acc.m
<1>11. Sim(b, p) /\ Kept(m, b, d) /\ b.open[d] # 0 /\ b.text = m.text
  BY <1>10 DEF Kept
<1>12. CASE w = DidOpen(DidClose(b, d), d)
  <2>. HIDE DEF b
  <2>1. Sim(w, p) /\ Kept(b, w, d) /\ w.open[d] # 0 /\ w.synced[d] = b.text[d]
    BY <1>11, <1>12, ReopenSims
  <2>. QED BY <1>11, <2>1 DEF Kept
<1>13. CASE w = b /\ b.synced[d] = m.text[d]
  BY <1>11, <1>13
<1>. QED BY <1>5, <1>12, <1>13

\* What says nothing to the server leaves it with the documents of the model.
LEMMA QuietSims ==
  ASSUME NEW m, NEW p, Sim(m, p), NEW b, ModelFields \subseteq DOMAIN b,
         b.text \in [Docs -> Seq(Chars) \cup {None}], b.pend \in [Docs -> Seq(Changes)],
         b.open = m.open, b.next = m.next, b.synced = m.synced, b.started = m.started,
         b.out = m.out, DOMAIN b.diag = Docs, b.edit # None => IsEdit(b.edit)
  PROVE  Sim(b, p)
<1>1. IsModel(b)
  BY DEF Sim, IsModel
<1>2. AgreeBut(b, Heard(p, b.out), {})
  BY DEF Sim, AgreeBut
<1>. QED BY <1>1, <1>2 DEF Sim

\* A start: the process knows nothing, and no document is listed as open.
LEMMA StartSims ==
  ASSUME NEW m, IsModel(m), NEW p, m.out = <<>>, Used < MaxSessions, m.started,
         \A d \in Docs : m.open[d] = 0, NEW w, w = Push(m, [t |-> "start"])
  PROVE  Sim(w, p) /\ \A f \in ModelFields : f # "out" => w[f] = m[f]
<1>. DEFINE r == [t |-> "start"]
            z == Heard(p, w.out)
<1>1. r.t = "start" /\ Numbered(r) /\ w = Push(m, r) /\ Hears(Heard(p, m.out), r) = NewProcess
  BY DEF Hears, Numbered
<1>2. ModelFields \subseteq DOMAIN m /\ List(m.out) /\ Len(m.out) = 0 /\ m.next \in Nat
  BY DEF IsModel
<1>. HIDE DEF r
<1>3. IsPush(m, w, r, p)
  BY <1>1, <1>2, PushFacts
<1>4. /\ ModelFields \subseteq DOMAIN w /\ List(w.out) /\ z = NewProcess
      /\ \A k \in 1..Len(w.out) : w.out[k] = r /\ k = 1
      /\ \A f \in ModelFields : f # "out" => w[f] = m[f]
  BY <1>1, <1>2, <1>3 DEF IsPush
<1>5. /\ w.text = m.text /\ w.pend = m.pend /\ w.open = m.open /\ w.next = m.next
      /\ w.synced = m.synced /\ w.edit = m.edit /\ w.started = m.started
      /\ w.diag = m.diag
  BY <1>4 DEF ModelFields
<1>. HIDE DEF z
<1>6. IsModel(w)
  <2>1. \A k \in 1..Len(w.out) : w.out[k].t \in Requests /\ Numbered(w.out[k])
          /\ (w.out[k].t = "start" => k = 1 /\ Used < MaxSessions)
    BY <1>1, <1>4 DEF Requests
  <2>. QED BY <1>4, <1>5, <2>1 DEF IsModel
<1>7. AgreeBut(w, z, {})
  BY <1>2, <1>4, <1>5 DEF AgreeBut, NewProcess
<1>. QED BY <1>4, <1>6, <1>7 DEF Sim, z

\* What sync_lsp_documents does for one document, of the others: nothing.
DocSynced(m, w, d) ==
  /\ w.text = m.text /\ w.edit = m.edit /\ (m.started => w.started)
  /\ \A x \in Docs : x # d => w.open[x] = m.open[x] /\ w.synced[x] = m.synced[x]
                              /\ w.pend[x] = m.pend[x] /\ w.diag[x] = m.diag[x]
  /\ IsSettled(w, d)

\* What is listed as open is a buffer, whose text was sent unless changes of it wait; and
\* the diagnostics of session c that are shown and have a version are of the one that is
\* listed, made for the text that was sent.
Shown(m, c) ==
  \A d \in Docs :
    /\ m.open[d] # 0 => m.text[d] # None /\ (m.pend[d] = <<>> => m.synced[d] = m.text[d])
    /\ m.diag[d] # None /\ m.diag[d].from = c /\ m.diag[d].version # 0 =>
         m.diag[d].version = m.open[d] /\ m.diag[d].text = m.synced[d]

\* What the model shows stays so.
Keeps(m, w) == \A c : Shown(m, c) => Shown(w, c)

\* It does when nothing that it speaks of changes.
LEMMA KeepsSame ==
  ASSUME NEW m, NEW w, w.open = m.open, w.text = m.text, w.pend = m.pend, w.synced = m.synced,
         w.diag = m.diag
  PROVE  Keeps(m, w)
BY DEF Keeps, Shown

\* No transaction, and the text was sent: nothing is sent.
LEMMA SyncNothing ==
  ASSUME NEW m, NEW d, m.synced[d] = m.text[d]
  PROVE  SyncChanges(m, d, <<>>) = m
<1>. DEFINE base == [m |-> m, lost |-> FALSE]
            o == [op |-> "change", doc |-> d]
            cs == <<>>
            acc == FoldLeft(LAMBDA a, c : DidChange(a, c, d), base, cs)
<1>1. cs \in Seq({})
  OBVIOUS
<1>2. List(cs)
  BY <1>1, SequencesAreLists
<1>3. acc = Fold(o, base, cs)
  BY <1>2, FoldOfDidChange
<1>. HIDE DEF o
<1>4. Fold(o, base, cs) = base
  BY <1>2, FoldFacts
<1>5. SyncChanges(m, d, cs) =
        IF acc.lost \/ acc.m.synced[d] # m.text[d] THEN DidOpen(DidClose(acc.m, d), d) ELSE acc.m
  BY DEF SyncChanges
<1>. HIDE DEF acc
<1>6. acc.m = m /\ acc.lost = FALSE
  BY <1>3, <1>4
<1>. QED BY <1>5, <1>6

\* sync_lsp_documents for one document.
LEMMA SyncDocSims ==
  ASSUME NEW m, NEW p, Sim(m, p), NEW d \in Docs, NEW w, w = SyncDoc(m, d)
  PROVE  Sim(w, p) /\ DocSynced(m, w, d) /\ Keeps(m, w)
<1>1. CASE m.text[d] = None
  <2>1. w = m
    BY <1>1 DEF SyncDoc
  <2>. QED BY <1>1, <2>1 DEF DocSynced, IsSettled, Keeps
<1>2. CASE m.text[d] # None
  <2>. DEFINE cs == m.pend[d]
              b == [m EXCEPT !.pend[d] = <<>>,
                             !.diag[d] = IF cs = <<>> THEN @ ELSE None]
              e == [b EXCEPT !.started = TRUE, !.load = "Starting"]
              c == IF m.started THEN b ELSE Push(e, [t |-> "start"])
  <2>1. w = IF c.open[d] = 0 THEN DidOpen(c, d) ELSE SyncChanges(c, d, cs)
    <3>1. c.open[d] = m.open[d]
      <4>1. b.open = m.open
        OBVIOUS
      <4>2. e.open = b.open
        OBVIOUS
      <4>3. Push(e, [t |-> "start"]).open = e.open
        BY DEF Push
      <4>. HIDE DEF b, e
      <4>. QED BY <4>1, <4>2, <4>3
    <3>2. w = IF m.open[d] = 0 THEN DidOpen(c, d) ELSE SyncChanges(c, d, cs)
      BY <1>2 DEF SyncDoc
    <3>. HIDE DEF c
    <3>. QED BY <3>1, <3>2
  <2>2. IsModel(m)
    BY DEF Sim
  <2>3. ModelFields \subseteq DOMAIN m /\ cs \in Seq(Changes) /\ m.pend \in [Docs -> Seq(Changes)]
        /\ DOMAIN m.diag = Docs /\ m.open \in [Docs -> Nat] /\ m.synced \in [Docs -> Seq(Chars)]
        /\ (~m.started => \A x \in Docs : m.open[x] = 0)
    BY <2>2 DEF IsModel
  <2>4. /\ ModelFields \subseteq DOMAIN b /\ b.text = m.text
        /\ b.pend = [m.pend EXCEPT ![d] = <<>>] /\ b.pend \in [Docs -> Seq(Changes)]
        /\ b.open = m.open /\ b.next = m.next /\ b.synced = m.synced /\ b.started = m.started
        /\ b.out = m.out /\ b.edit = m.edit
        /\ b.diag = [m.diag EXCEPT ![d] = IF cs = <<>> THEN @ ELSE None]
    BY <2>3 DEF ModelFields
  <2>10. DOMAIN b.diag = Docs
    BY <2>3, <2>4
  <2>5. /\ ModelFields \subseteq DOMAIN e /\ e.text = b.text /\ e.pend = b.pend
        /\ e.open = b.open /\ e.next = b.next /\ e.synced = b.synced /\ e.started
        /\ e.out = b.out /\ e.edit = b.edit /\ e.diag = b.diag
    BY <2>4 DEF ModelFields
  <2>. HIDE DEF b
  <2>6. Sim(b, p)
    <3>1. b.text \in [Docs -> Seq(Chars) \cup {None}] /\ (b.edit # None => IsEdit(b.edit))
      BY <2>2, <2>4 DEF IsModel
    <3>. QED BY <2>4, <2>10, <3>1, QuietSims
  <2>. HIDE DEF e
  <2>7. Sim(c, p) /\ c.started /\ c.text = m.text /\ c.edit = m.edit /\ c.open = m.open
        /\ c.synced = m.synced /\ c.pend = [m.pend EXCEPT ![d] = <<>>] /\ c.diag = b.diag
    <3>1. CASE m.started
      BY <2>4, <2>6, <3>1
    <3>2. CASE ~m.started
      <4>1. m.out = <<>> /\ Used < MaxSessions /\ \A x \in Docs : m.open[x] = 0
        BY <2>2, <3>2, RoomForTheFirst DEF IsModel
      <4>2. IsModel(e)
        BY <2>2, <2>4, <2>5, <2>6, <2>10, <4>1 DEF IsModel
      <4>3. e.out = <<>> /\ \A x \in Docs : e.open[x] = 0
        BY <2>4, <2>5, <4>1
      <4>4. c = Push(e, [t |-> "start"])
        BY <3>2
      <4>. HIDE DEF c
      <4>5. Sim(c, p) /\ \A f \in ModelFields : f # "out" => c[f] = e[f]
        BY <2>5, <4>1, <4>2, <4>3, <4>4, StartSims
      <4>. QED BY <2>4, <2>5, <4>5 DEF ModelFields
    <3>. QED BY <3>1, <3>2
  <2>11. m.started => c = b
    OBVIOUS
  <2>. HIDE DEF c, cs
  <2>8. Sim(w, p) /\ Kept(c, w, d) /\ w.open[d] # 0 /\ w.synced[d] = c.text[d]
    <3>1. c.text[d] # None
      BY <1>2, <2>7
    <3>2. CASE c.open[d] = 0
      BY <2>1, <2>7, <3>1, <3>2, DidOpenSims
    <3>3. CASE c.open[d] # 0
      BY <2>1, <2>3, <2>7, <3>1, <3>3, SyncChangesSims
    <3>. QED BY <3>2, <3>3
  <2>12. \A x \in Docs : x # d => w.diag[x] = m.diag[x]
    BY <2>3, <2>4, <2>7, <2>8 DEF Kept
  <2>9. DocSynced(m, w, d)
    BY <2>3, <2>7, <2>8, <2>12 DEF DocSynced, Kept, IsSettled
  <2>13. w.diag[d] = IF cs = <<>> THEN m.diag[d] ELSE None
    BY <2>3, <2>4, <2>7, <2>8 DEF Kept
  <2>14. ASSUME NEW k, Shown(m, k), w.diag[d] # None, w.diag[d].from = k, w.diag[d].version # 0
         PROVE  w.diag[d].version = w.open[d] /\ w.diag[d].text = w.synced[d]
    <3>1. cs = <<>> /\ w.diag[d] = m.diag[d]
      BY <2>13, <2>14
    <3>2. m.diag[d].version = m.open[d] /\ m.diag[d].text = m.synced[d]
      BY <2>14, <3>1 DEF Shown
    <3>3. m.open[d] # 0
      BY <2>14, <3>1, <3>2
    <3>4. m.synced[d] = m.text[d]
      BY <2>14, <3>1, <3>3 DEF Shown, cs
    <3>5. c = b /\ c.open[d] # 0 /\ c.synced[d] = c.text[d]
      BY <2>3, <2>4, <2>7, <2>11, <3>3, <3>4
    <3>6. w = SyncChanges(c, d, <<>>)
      BY <2>1, <3>1, <3>5
    <3>7. w = c
      BY <3>5, <3>6, SyncNothing
    <3>. QED BY <2>7, <3>1, <3>2, <3>7
  <2>15. ASSUME NEW k, Shown(m, k) PROVE Shown(w, k)
    <3>1. ASSUME NEW x \in Docs
          PROVE  /\ w.open[x] # 0 => w.text[x] # None /\ (w.pend[x] = <<>> => w.synced[x] = w.text[x])
                 /\ w.diag[x] # None /\ w.diag[x].from = k /\ w.diag[x].version # 0 =>
                      w.diag[x].version = w.open[x] /\ w.diag[x].text = w.synced[x]
      <4>1. CASE x = d
        <5>1. w.text[x] # None /\ w.synced[x] = w.text[x]
          BY <1>2, <2>7, <2>8, <4>1 DEF Kept
        <5>. QED BY <2>14, <2>15, <4>1, <5>1
      <4>2. CASE x # d
        BY <2>9, <2>15, <4>2 DEF DocSynced, Shown
      <4>. QED BY <4>1, <4>2
    <3>. QED BY <3>1 DEF Shown
  <2>. QED BY <2>8, <2>9, <2>15 DEF Keeps
<1>. QED BY <1>1, <1>2

\* Every buffer's text is the one that was sent, unless changes of it wait.
AllSettled(m) == \A d \in Docs : IsSettled(m, d)

\* sync_lsp_documents: whatever the handler did to the buffers before, every one of them
\* is settled afterwards.
LEMMA SyncAllSims ==
  ASSUME NEW m, NEW p, Sim(m, p), NEW w, w = SyncLspDocuments(m)
  PROVE  Sim(w, p) /\ AllSettled(w) /\ w.text = m.text /\ w.edit = m.edit
         /\ (m.started => w.started) /\ Keeps(m, w)
<1>. DEFINE q == SetToSeq(Docs)
            o == [op |-> "sync"]
            n == Len(q)
            Ok(k, a) == /\ Sim(a, p) /\ a.text = m.text /\ a.edit = m.edit
                        /\ (m.started => a.started) /\ Keeps(m, a)
                        /\ \A j \in 1..k : IsSettled(a, q[j])
<1>1. q \in Seq(Docs) /\ \A d \in Docs : \E k \in 1..n : q[k] = d
  BY SetToSeqFacts, LspBounds
<1>. HIDE DEF q
<1>2. List(q) /\ n \in Nat /\ \A k \in 1..n : q[k] \in Docs
  BY <1>1, SequencesAreLists
<1>3. w = Fold(o, m, q)
  BY <1>2, FoldOfSyncDoc DEF SyncLspDocuments, q
<1>4. \A a, x : Do(o, a, x) = SyncDoc(a, x)
  BY DoFacts
<1>. HIDE DEF o, n
<1>5. PICK at : IsRun(at, o, m, q, n) /\ w = at[n]
  BY <1>2, <1>3, FoldIs DEF n
<1>. DEFINE T == {k \in Nat : k <= n => Ok(k, at[k])}
<1>6. 0 \in T
  <2>1. at[0] = m
    BY <1>5 DEF IsRun
  <2>2. Ok(0, m)
    BY DEF Keeps
  <2>. QED BY <2>1, <2>2
<1>7. ASSUME NEW k \in Nat, k \in T PROVE k + 1 \in T
  <2>1. CASE k + 1 <= n
    <3>1. k + 1 \in 1..n /\ (k + 1) - 1 = k /\ k <= n
      BY <1>2, <2>1
    <3>. DEFINE a == at[k]
                r == at[k + 1]
                d == q[k + 1]
    <3>2. r = SyncDoc(a, d) /\ d \in Docs
      BY <1>2, <1>4, <1>5, <3>1 DEF IsRun
    <3>3. Ok(k, a)
      BY <1>7, <3>1
    <3>. HIDE DEF a, r
    <3>4. Sim(r, p) /\ DocSynced(a, r, d) /\ Keeps(a, r)
      <4>. HIDE DEF d
      <4>. QED BY <3>2, <3>3, SyncDocSims
    <3>5. ASSUME NEW j \in 1..(k + 1) PROVE IsSettled(r, q[j])
      <4>1. CASE q[j] = d
        BY <3>4, <4>1 DEF DocSynced
      <4>2. CASE q[j] # d
        <5>1. j \in 1..k /\ j \in 1..n
          <6>1. j # k + 1
            BY <4>2
          <6>. QED BY <1>2, <3>1, <6>1
        <5>2. q[j] \in Docs /\ IsSettled(a, q[j])
          BY <1>2, <3>3, <5>1
        <5>3. r.open[q[j]] = a.open[q[j]] /\ r.synced[q[j]] = a.synced[q[j]]
              /\ r.pend[q[j]] = a.pend[q[j]] /\ r.text = a.text
          BY <3>4, <4>2, <5>2 DEF DocSynced
        <5>. QED BY <5>2, <5>3 DEF IsSettled
      <4>. QED BY <4>1, <4>2
    <3>6. r.text = m.text /\ r.edit = m.edit /\ (m.started => r.started)
      BY <3>3, <3>4 DEF DocSynced
    <3>8. Keeps(m, r)
      BY <3>3, <3>4 DEF Keeps
    <3>7. Ok(k + 1, r)
      BY <3>4, <3>5, <3>6, <3>8
    <3>. QED BY <3>7 DEF r
  <2>. QED BY <1>2, <2>1 DEF n
<1>. HIDE DEF T
<1>8. Nat \subseteq T
  BY <1>6, <1>7, SetInduction
<1>9. Ok(n, w)
  <2>1. n \in T /\ n <= n
    BY <1>2, <1>8 DEF n
  <2>. QED BY <1>5, <2>1 DEF T
<1>10. AllSettled(w)
  BY <1>1, <1>9 DEF AllSettled, n
<1>. QED BY <1>9, <1>10

\* A transaction on each of some buffers: changes that fit their texts wait for the
\* server.
LEMMA ApplySims ==
  ASSUME NEW m, NEW p, Sim(m, p), NEW cs, DOMAIN cs \subseteq Docs,
         \A d \in DOMAIN cs : cs[d] \in Changes /\ m.text[d] # None /\ cs[d].len = Len(m.text[d]),
         NEW w, w = ApplyToBuffers(m, cs)
  PROVE  /\ Sim(w, p) /\ w.edit = m.edit /\ w.open = m.open /\ w.synced = m.synced
         /\ w.started = m.started /\ w.diag = m.diag /\ Keeps(m, w)
         /\ \A d \in Docs : d \in DOMAIN cs => w.pend[d] # <<>>
         /\ \A d \in Docs : d \notin DOMAIN cs => w.text[d] = m.text[d] /\ w.pend[d] = m.pend[d]
<1>1. IsModel(m)
  BY DEF Sim
<1>2. /\ ModelFields \subseteq DOMAIN m /\ m.text \in [Docs -> Seq(Chars) \cup {None}]
      /\ m.pend \in [Docs -> Seq(Changes)] /\ (m.edit # None => IsEdit(m.edit))
      /\ DOMAIN m.diag = Docs
  BY <1>1 DEF IsModel
<1>3. /\ DOMAIN w = DOMAIN m /\ w.edit = m.edit /\ w.open = m.open /\ w.synced = m.synced
      /\ w.started = m.started /\ w.out = m.out /\ w.next = m.next /\ w.diag = m.diag
      /\ w.text = [d \in Docs |-> IF d \in DOMAIN cs THEN Replace(m.text[d], cs[d]) ELSE m.text[d]]
      /\ w.pend = [d \in Docs |-> IF d \in DOMAIN cs THEN Append(m.pend[d], cs[d]) ELSE m.pend[d]]
  BY <1>2 DEF ApplyToBuffers, ModelFields
<1>4. \A d \in DOMAIN cs : Replace(m.text[d], cs[d]) \in Seq(Chars)
  <2>. TAKE d \in DOMAIN cs
  <2>1. m.text[d] \in Seq(Chars)
    BY <1>2
  <2>. QED BY <2>1, ReplaceIsText
<1>5. w.text \in [Docs -> Seq(Chars) \cup {None}]
  BY <1>2, <1>3, <1>4
<1>6. \A d \in DOMAIN cs : Append(m.pend[d], cs[d]) \in Seq(Changes) /\ Append(m.pend[d], cs[d]) # <<>>
  <2>. TAKE d \in DOMAIN cs
  <2>1. m.pend[d] \in Seq(Changes) /\ cs[d] \in Changes
    BY <1>2
  <2>. QED BY <2>1
<1>7. w.pend \in [Docs -> Seq(Changes)]
  BY <1>2, <1>3, <1>6
<1>8. Sim(w, p)
  BY <1>2, <1>3, <1>5, <1>7, QuietSims
<1>9. Keeps(m, w)
  <2>1. ASSUME NEW c, Shown(m, c), NEW d \in Docs
        PROVE  /\ w.open[d] # 0 => w.text[d] # None /\ (w.pend[d] = <<>> => w.synced[d] = w.text[d])
               /\ w.diag[d] # None /\ w.diag[d].from = c /\ w.diag[d].version # 0 =>
                    w.diag[d].version = w.open[d] /\ w.diag[d].text = w.synced[d]
    <3>1. CASE d \in DOMAIN cs
      <4>1. w.text[d] # None /\ w.pend[d] # <<>>
        BY <1>3, <1>4, <1>6, <3>1, LspBounds
      <4>. QED BY <1>3, <2>1, <4>1 DEF Shown
    <3>2. CASE d \notin DOMAIN cs
      BY <1>3, <2>1, <3>2 DEF Shown
    <3>. QED BY <3>1, <3>2
  <2>. QED BY <2>1 DEF Keeps, Shown
<1>. QED BY <1>3, <1>6, <1>8, <1>9

\* An edit of the server is made to fit the text of now.
LEMMA BuiltChangesFit ==
  ASSUME NEW t \in Seq(Chars), NEW c \in Changes
  PROVE  BuildLspChanges(t, c) \in Changes /\ BuildLspChanges(t, c).len = Len(t)
<1>. DEFINE n == Len(t)
            i == Least(c.at, n)
            j == Least(c.at + c.del, n)
<1>1. n \in Nat /\ c.at \in Nat /\ c.del \in Nat /\ c.ins \in Seq(Chars)
  BY DEF Changes
<1>2. i \in Nat /\ j \in Nat /\ i <= j /\ j <= n
  BY <1>1 DEF Least
<1>3. BuildLspChanges(t, c) = [len |-> n, at |-> i, del |-> j - i, ins |-> c.ins]
  BY DEF BuildLspChanges, Change
<1>. HIDE DEF n, i, j
<1>4. j - i \in Nat /\ i + (j - i) <= n
  BY <1>1, <1>2
<1>. QED BY <1>1, <1>2, <1>3, <1>4 DEF Changes, n

\* A document is closed and no longer listed as open.
LEMMA CloseDocSims ==
  ASSUME NEW m, NEW p, Sim(m, p), NEW d \in Docs, NEW w, w = CloseLspDocument(m, d)
  PROVE  /\ Sim(w, p) /\ w.text = m.text /\ w.pend = m.pend /\ w.edit = m.edit
         /\ w.started = m.started /\ w.open[d] = 0 /\ DOMAIN w.diag = Docs /\ w.diag[d] = None
         /\ \A x \in Docs : x # d => /\ w.open[x] = m.open[x] /\ w.synced[x] = m.synced[x]
                                     /\ w.diag[x] = m.diag[x]
<1>0. IsModel(m)
  BY DEF Sim
<1>1. /\ ModelFields \subseteq DOMAIN m /\ m.text \in [Docs -> Seq(Chars) \cup {None}]
      /\ m.pend \in [Docs -> Seq(Changes)] /\ (m.edit # None => IsEdit(m.edit))
      /\ m.open \in [Docs -> Nat] /\ m.synced \in [Docs -> Seq(Chars)] /\ m.next \in Nat
      /\ \A x \in Docs : m.open[x] <= m.next
      /\ DOMAIN m.diag = Docs
  BY <1>0 DEF IsModel
<1>2. CASE m.open[d] = 0
  <2>1. w = [m EXCEPT !.diag[d] = None]
    BY <1>2 DEF CloseLspDocument
  <2>2. /\ ModelFields \subseteq DOMAIN w /\ w.text = m.text /\ w.pend = m.pend /\ w.edit = m.edit
        /\ w.open = m.open /\ w.next = m.next /\ w.synced = m.synced /\ w.started = m.started
        /\ w.out = m.out /\ w.diag = [m.diag EXCEPT ![d] = None]
    BY <1>1, <2>1 DEF ModelFields
  <2>4. DOMAIN w.diag = Docs
    BY <1>1, <2>2
  <2>3. Sim(w, p)
    BY <1>1, <2>2, <2>4, QuietSims
  <2>. QED BY <1>1, <1>2, <2>2, <2>3, <2>4
<1>3. CASE m.open[d] # 0
  <2>. DEFINE b == DidClose(m, d)
              r == [t |-> "close", doc |-> d]
              z == Heard(p, w.out)
  <2>1. /\ IsModel(b) /\ AgreeBut(b, Heard(p, b.out), {d})
        /\ \A f \in ModelFields : f # "out" => b[f] = m[f]
    <3>1. b = DidClose(m, d)
      OBVIOUS
    <3>. HIDE DEF b
    <3>. QED BY <1>3, <3>1, CloseSims
  <2>2. b.out = Append(m.out, r)
    BY <1>1 DEF DidClose, Push, ModelFields
  <2>3. /\ ModelFields \subseteq DOMAIN w /\ w.text = m.text /\ w.pend = m.pend /\ w.edit = m.edit
        /\ w.open = [m.open EXCEPT ![d] = 0] /\ w.next = m.next
        /\ w.synced = [m.synced EXCEPT ![d] = <<>>] /\ w.started = m.started
        /\ w.out = Append(m.out, r) /\ w.diag = [m.diag EXCEPT ![d] = None]
    <3>. DEFINE e == [m EXCEPT !.open[d] = 0, !.synced[d] = <<>>]
                g == Push(e, r)
    <3>1. w = [g EXCEPT !.diag[d] = None]
      BY <1>3 DEF CloseLspDocument, DidClose
    <3>2. /\ DOMAIN e = DOMAIN m /\ e.text = m.text /\ e.pend = m.pend /\ e.edit = m.edit
          /\ e.open = [m.open EXCEPT ![d] = 0] /\ e.next = m.next
          /\ e.synced = [m.synced EXCEPT ![d] = <<>>] /\ e.started = m.started /\ e.out = m.out
          /\ e.diag = m.diag
      BY <1>1 DEF ModelFields
    <3>. HIDE DEF e, r
    <3>3. /\ DOMAIN g = DOMAIN e /\ g.text = e.text /\ g.pend = e.pend /\ g.edit = e.edit
          /\ g.open = e.open /\ g.next = e.next
          /\ g.synced = e.synced /\ g.started = e.started /\ g.out = Append(e.out, r)
          /\ g.diag = e.diag
      BY <1>1, <3>2 DEF Push, ModelFields
    <3>. HIDE DEF g
    <3>4. /\ DOMAIN w = DOMAIN g /\ w.text = g.text /\ w.pend = g.pend /\ w.edit = g.edit
          /\ w.open = g.open /\ w.next = g.next
          /\ w.synced = g.synced /\ w.started = g.started /\ w.out = g.out
          /\ w.diag = [g.diag EXCEPT ![d] = None]
      BY <1>1, <3>1, <3>2, <3>3 DEF ModelFields
    <3>. QED BY <1>1, <3>2, <3>3, <3>4
  <2>4. /\ b.text = m.text /\ b.pend = m.pend /\ b.open = m.open /\ b.next = m.next
        /\ b.synced = m.synced /\ b.edit = m.edit /\ b.started = m.started
    BY <2>1 DEF ModelFields
  <2>5. AgreeBut(b, z, {d})
    BY <2>1, <2>2, <2>3
  <2>. HIDE DEF b, r, z
  <2>6. w.open \in [Docs -> Nat] /\ w.synced \in [Docs -> Seq(Chars)]
        /\ (\A x \in Docs : w.open[x] <= w.next) /\ m.started
    <3>1. <<>> \in Seq(Chars)
      OBVIOUS
    <3>2. m.started
      BY <1>0, <1>3 DEF IsModel
    <3>. QED BY <1>1, <2>3, <3>1, <3>2
  <2>11. DOMAIN w.diag = Docs /\ w.diag[d] = None /\ w.open[d] = 0
    BY <1>1, <2>3
  <2>12. w.out = b.out
    BY <2>2, <2>3
  <2>13. /\ List(w.out)
         /\ \A k \in 1..Len(w.out) :
              /\ w.out[k].t \in Requests /\ (w.out[k].t = "start" => k = 1 /\ Used < MaxSessions)
              /\ Numbered(w.out[k])
    BY <2>1, <2>12 DEF IsModel
  <2>7. IsModel(w)
    BY <1>1, <2>3, <2>6, <2>11, <2>13 DEF IsModel
  <2>8. z.copy = [x \in Docs |-> IF x \in {} \/ w.open[x] = 0 THEN None ELSE w.synced[x]]
    BY <1>1, <2>3, <2>4, <2>5 DEF AgreeBut
  <2>9. z.seen \in [Docs -> Nat] /\ \A x \in Docs : z.seen[x] <= w.next
          /\ (x \notin {} /\ w.open[x] # 0 => z.seen[x] = w.open[x])
    BY <1>1, <2>3, <2>4, <2>5 DEF AgreeBut
  <2>10. AgreeBut(w, z, {})
    BY <2>5, <2>8, <2>9 DEF AgreeBut
  <2>. QED BY <1>1, <2>3, <2>7, <2>10, <2>11 DEF Sim, z
<1>. QED BY <1>2, <1>3

\* finish_pending_workspace_edit.
LEMMA FinishSims ==
  ASSUME NEW m, NEW p, Sim(m, p), AllSettled(m), NEW w, w = FinishWorkspaceEdit(m)
  PROVE  Sim(w, p) /\ AllSettled(w) /\ Keeps(m, w)
<1>0. IsModel(m)
  BY DEF Sim
<1>1. /\ ModelFields \subseteq DOMAIN m /\ m.text \in [Docs -> Seq(Chars) \cup {None}]
      /\ m.pend \in [Docs -> Seq(Changes)] /\ DOMAIN m.diag = Docs
  BY <1>0 DEF IsModel
<1>. DEFINE e == m.edit
            b == [m EXCEPT !.edit = None]
            cs == [d \in DOMAIN e.changes |-> BuildLspChanges(m.text[d], e.changes[d])]
<1>2. CASE w = m
  BY <1>2 DEF Keeps
<1>3. /\ b.text = m.text /\ b.pend = m.pend /\ b.open = m.open /\ b.next = m.next
      /\ b.synced = m.synced /\ b.started = m.started /\ b.out = m.out /\ b.edit = None
      /\ ModelFields \subseteq DOMAIN b /\ b.diag = m.diag
  BY <1>1 DEF ModelFields
<1>4. Sim(b, p)
  <2>. HIDE DEF b
  <2>. QED BY <1>1, <1>3, QuietSims
<1>7. Keeps(m, b)
  <2>. HIDE DEF b
  <2>. QED BY <1>3, KeepsSame
<1>5. CASE w = b
  <2>1. AllSettled(b)
    BY <1>3 DEF AllSettled, IsSettled
  <2>. QED BY <1>4, <1>5, <1>7, <2>1
<1>6. CASE /\ m.edit # None /\ \A d \in DOMAIN e.changes : m.text[d] # None
           /\ w = SyncLspDocuments(ApplyToBuffers(b, cs))
  <2>1. DOMAIN e.changes \subseteq Docs /\ \A d \in DOMAIN e.changes : e.changes[d] \in Changes
    BY <1>0, <1>6 DEF IsModel, IsEdit
  <2>2. \A d \in DOMAIN cs : cs[d] \in Changes /\ b.text[d] # None /\ cs[d].len = Len(b.text[d])
    <3>. TAKE d \in DOMAIN cs
    <3>1. d \in DOMAIN e.changes /\ d \in Docs
      BY <2>1
    <3>2. m.text[d] \in Seq(Chars) /\ e.changes[d] \in Changes
      BY <1>1, <1>6, <2>1, <3>1
    <3>3. cs[d] = BuildLspChanges(m.text[d], e.changes[d])
      BY <3>1
    <3>. QED BY <1>3, <1>6, <3>1, <3>2, <3>3, BuiltChangesFit
  <2>3. DOMAIN cs \subseteq Docs
    BY <2>1
  <2>. HIDE DEF b, cs
  <2>. DEFINE a == ApplyToBuffers(b, cs)
  <2>4. Sim(a, p) /\ Keeps(b, a)
    BY <1>4, <2>2, <2>3, ApplySims
  <2>5. w = SyncLspDocuments(a)
    BY <1>6
  <2>. HIDE DEF a
  <2>6. Sim(w, p) /\ AllSettled(w) /\ Keeps(a, w)
    BY <2>4, <2>5, SyncAllSims
  <2>. QED BY <1>7, <2>4, <2>6 DEF Keeps
<1>. QED BY <1>2, <1>5, <1>6 DEF FinishWorkspaceEdit

\* The fields of an event that are read of an answer that edits.
IsEvent(e) ==
  /\ {"t", "from"} \subseteq DOMAIN e
  /\ e.t \in {"diagnostics", "answer", "failed", "load"}
  /\ e.t = "diagnostics" => {"doc", "version", "text"} \subseteq DOMAIN e
  /\ e.t = "failed" => "id" \in DOMAIN e
  /\ e.t = "load" => "load" \in DOMAIN e
  /\ e.t = "answer" =>
       /\ {"kind", "id", "changes", "versions", "base"} \subseteq DOMAIN e
       /\ e.kind = "formatting" => DOMAIN e.changes # {}
       /\ e.kind \in EditKinds =>
            /\ DOMAIN e.changes \subseteq Docs
            /\ \A d \in DOMAIN e.changes : e.changes[d] \in Changes

\* apply_workspace_edit.
LEMMA ApplyEditSims ==
  ASSUME NEW m, NEW p, Sim(m, p), AllSettled(m), NEW e, DOMAIN e.changes \subseteq Docs,
         \A d \in DOMAIN e.changes : e.changes[d] \in Changes,
         NEW w, w = ApplyWorkspaceEdit(m, e)
  PROVE  Sim(w, p) /\ AllSettled(w) /\ Keeps(m, w)
<1>0. IsModel(m)
  BY DEF Sim
<1>1. /\ ModelFields \subseteq DOMAIN m /\ m.text \in [Docs -> Seq(Chars) \cup {None}]
      /\ m.pend \in [Docs -> Seq(Changes)] /\ DOMAIN m.diag = Docs
  BY <1>0 DEF IsModel
<1>. DEFINE missing == {d \in DOMAIN e.changes : m.text[d] = None}
            g == [changes |-> e.changes, waiting |-> missing]
            b == [m EXCEPT !.reads = @ \cup missing, !.edit = g]
<1>2. CASE w = m
  BY <1>2 DEF Keeps
<1>3. CASE w = FinishWorkspaceEdit(b)
  <2>1. IsEdit(g)
    BY DEF IsEdit
  <2>. HIDE DEF missing, g
  <2>2. /\ b.text = m.text /\ b.pend = m.pend /\ b.open = m.open /\ b.next = m.next
        /\ b.synced = m.synced /\ b.started = m.started /\ b.out = m.out /\ b.edit = g
        /\ ModelFields \subseteq DOMAIN b /\ b.diag = m.diag
    BY <1>1 DEF ModelFields
  <2>. HIDE DEF b
  <2>3. Sim(b, p)
    BY <1>1, <2>1, <2>2, QuietSims
  <2>4. AllSettled(b)
    BY <2>2 DEF AllSettled, IsSettled
  <2>5. Keeps(m, b)
    BY <2>2, KeepsSame
  <2>6. Sim(w, p) /\ AllSettled(w) /\ Keeps(b, w)
    BY <1>3, <2>3, <2>4, FinishSims
  <2>. QED BY <2>5, <2>6 DEF Keeps
<1>. QED BY <1>2, <1>3 DEF ApplyWorkspaceEdit

\* apply_text_edits.
LEMMA ApplyTextEditsSims ==
  ASSUME NEW m, NEW p, Sim(m, p), AllSettled(m), NEW e, DOMAIN e.changes \subseteq Docs,
         DOMAIN e.changes # {}, \A d \in DOMAIN e.changes : e.changes[d] \in Changes,
         NEW w, w = ApplyTextEdits(m, e)
  PROVE  Sim(w, p) /\ AllSettled(w) /\ Keeps(m, w)
<1>. DEFINE d == CHOOSE x \in DOMAIN e.changes : TRUE
            c == BuildLspChanges(m.text[d], e.changes[d])
            cs == [x \in {d} |-> c]
<1>0. d \in DOMAIN e.changes /\ d \in Docs /\ e.changes[d] \in Changes
  OBVIOUS
<1>1. m.text \in [Docs -> Seq(Chars) \cup {None}]
  BY DEF Sim, IsModel
<1>2. CASE m.text[d] = None
  <2>1. w = m
    BY <1>2 DEF ApplyTextEdits
  <2>. QED BY <2>1 DEF Keeps
<1>3. CASE m.text[d] # None
  <2>1. w = SyncLspDocuments(ApplyToBuffers(m, cs))
    BY <1>3 DEF ApplyTextEdits, ApplyToBuffer
  <2>. HIDE DEF d
  <2>2. m.text[d] \in Seq(Chars)
    BY <1>0, <1>1, <1>3
  <2>3. c \in Changes /\ c.len = Len(m.text[d])
    BY <1>0, <2>2, BuiltChangesFit
  <2>. HIDE DEF c
  <2>4. DOMAIN cs = {d} /\ cs[d] = c
    OBVIOUS
  <2>. HIDE DEF cs
  <2>. DEFINE a == ApplyToBuffers(m, cs)
  <2>5. Sim(a, p) /\ Keeps(m, a)
    BY <1>0, <1>3, <2>3, <2>4, ApplySims
  <2>. HIDE DEF a
  <2>6. Sim(w, p) /\ AllSettled(w) /\ Keeps(a, w)
    BY <2>1, <2>5, SyncAllSims DEF a
  <2>. QED BY <2>5, <2>6 DEF Keeps
<1>. QED BY <1>2, <1>3

\* Diagnostics of session c that have the version which is listed as open were made for the
\* text that was sent.
EventFits(m, e, c) ==
  e.t = "diagnostics" /\ e.from = c /\ e.version # 0 /\ e.version = m.open[e.doc] =>
    e.text = m.synced[e.doc]

\* The model after an event: what it shows stays so if the event fits.
KeepsFitting(m, w, e) == \A c : EventFits(m, e, c) /\ Shown(m, c) => Shown(w, c)

\* on_lsp_event.
LEMMA EventSims ==
  ASSUME NEW m, NEW p, Sim(m, p), AllSettled(m), NEW e, IsEvent(e), NEW w, w = OnLspEvent(m, e)
  PROVE  Sim(w, p) /\ AllSettled(w) /\ KeepsFitting(m, w, e)
<1>0. IsModel(m)
  BY DEF Sim
<1>1. /\ ModelFields \subseteq DOMAIN m /\ m.text \in [Docs -> Seq(Chars) \cup {None}]
      /\ m.pend \in [Docs -> Seq(Changes)] /\ (m.edit # None => IsEdit(m.edit))
      /\ DOMAIN m.diag = Docs
  BY <1>0 DEF IsModel
<1>2. ASSUME NEW b, /\ b.text = m.text /\ b.pend = m.pend /\ b.open = m.open /\ b.next = m.next
                    /\ b.synced = m.synced /\ b.started = m.started /\ b.out = m.out
                    /\ b.edit = m.edit /\ ModelFields \subseteq DOMAIN b /\ DOMAIN b.diag = Docs
      PROVE  Sim(b, p) /\ AllSettled(b)
  <2>1. Sim(b, p)
    BY <1>1, <1>2, QuietSims
  <2>. QED BY <1>2, <2>1 DEF AllSettled, IsSettled
<1>12. ASSUME Keeps(m, w) PROVE KeepsFitting(m, w, e)
  BY <1>12 DEF Keeps, KeepsFitting
<1>3. CASE w = m
  BY <1>3 DEF KeepsFitting
<1>4. CASE /\ e.t = "diagnostics" /\ (e.version # 0 => m.open[e.doc] = e.version)
           /\ w = SyncLspDiagnostics(m, e)
  <2>1. /\ w.text = m.text /\ w.pend = m.pend /\ w.open = m.open /\ w.next = m.next
        /\ w.synced = m.synced /\ w.started = m.started /\ w.out = m.out
        /\ w.edit = m.edit /\ ModelFields \subseteq DOMAIN w
        /\ w.diag = [m.diag EXCEPT ![e.doc] = e]
    BY <1>1, <1>4 DEF SyncLspDiagnostics, ModelFields
  <2>2. DOMAIN w.diag = Docs
    BY <1>1, <2>1
  <2>3. ASSUME NEW c, EventFits(m, e, c), Shown(m, c), NEW d \in Docs
        PROVE  /\ w.open[d] # 0 => w.text[d] # None /\ (w.pend[d] = <<>> => w.synced[d] = w.text[d])
               /\ w.diag[d] # None /\ w.diag[d].from = c /\ w.diag[d].version # 0 =>
                    w.diag[d].version = w.open[d] /\ w.diag[d].text = w.synced[d]
    <3>1. CASE d = e.doc
      <4>1. w.diag[d] = e
        BY <1>1, <2>1, <3>1
      <4>2. e.version # 0 => e.version = m.open[d]
        BY <1>4, <3>1
      <4>. QED BY <1>4, <2>1, <2>3, <3>1, <4>1, <4>2 DEF EventFits, Shown
    <3>2. CASE d # e.doc
      <4>1. w.diag[d] = m.diag[d]
        BY <1>1, <2>1, <3>2
      <4>. QED BY <2>1, <2>3, <4>1 DEF Shown
    <3>. QED BY <3>1, <3>2
  <2>4. KeepsFitting(m, w, e)
    BY <2>3 DEF KeepsFitting, Shown
  <2>. QED BY <1>2, <2>1, <2>2, <2>4
<1>5. CASE \E l : w = [m EXCEPT !.load = l]
  <2>1. /\ w.text = m.text /\ w.pend = m.pend /\ w.open = m.open /\ w.next = m.next
        /\ w.synced = m.synced /\ w.started = m.started /\ w.out = m.out
        /\ w.edit = m.edit /\ ModelFields \subseteq DOMAIN w /\ w.diag = m.diag
    BY <1>1, <1>5 DEF ModelFields
  <2>2. DOMAIN w.diag = Docs /\ Keeps(m, w)
    BY <1>1, <2>1, KeepsSame
  <2>. QED BY <1>2, <1>12, <2>1, <2>2
<1>6. CASE \E l, a : w = [m EXCEPT !.load = l, !.active = a]
  <2>1. /\ w.text = m.text /\ w.pend = m.pend /\ w.open = m.open /\ w.next = m.next
        /\ w.synced = m.synced /\ w.started = m.started /\ w.out = m.out
        /\ w.edit = m.edit /\ ModelFields \subseteq DOMAIN w /\ w.diag = m.diag
    BY <1>1, <1>6 DEF ModelFields
  <2>2. DOMAIN w.diag = Docs /\ Keeps(m, w)
    BY <1>1, <2>1, KeepsSame
  <2>. QED BY <1>2, <1>12, <2>1, <2>2
<1>7. CASE e.t = "answer" /\ w = OnAnswer(m, e)
  <2>. DEFINE b == [m EXCEPT !.active[e.kind] = 0]
  <2>1. /\ b.text = m.text /\ b.pend = m.pend /\ b.open = m.open /\ b.next = m.next
        /\ b.synced = m.synced /\ b.started = m.started /\ b.out = m.out
        /\ b.edit = m.edit /\ ModelFields \subseteq DOMAIN b /\ b.diag = m.diag
    BY <1>1 DEF ModelFields
  <2>2. \/ w = m \/ w = b
        \/ e.kind = "formatting" /\ w = ApplyTextEdits(b, e)
        \/ e.kind = "rename" /\ w = ApplyWorkspaceEdit(b, e)
    BY <1>7 DEF OnAnswer
  <2>. HIDE DEF b
  <2>3. Sim(b, p) /\ AllSettled(b)
    BY <1>1, <1>2, <2>1
  <2>7. Keeps(m, b)
    BY <2>1, KeepsSame
  <2>4. /\ e.kind = "formatting" => DOMAIN e.changes # {}
        /\ e.kind \in EditKinds =>
          /\ DOMAIN e.changes \subseteq Docs
          /\ \A d \in DOMAIN e.changes : e.changes[d] \in Changes
    BY <1>7 DEF IsEvent
  <2>5. CASE e.kind = "formatting" /\ w = ApplyTextEdits(b, e)
    <3>1. Sim(w, p) /\ AllSettled(w) /\ Keeps(b, w)
      BY <2>3, <2>4, <2>5, ApplyTextEditsSims DEF EditKinds
    <3>. QED BY <1>12, <2>7, <3>1 DEF Keeps
  <2>6. CASE e.kind = "rename" /\ w = ApplyWorkspaceEdit(b, e)
    <3>1. Sim(w, p) /\ AllSettled(w) /\ Keeps(b, w)
      BY <2>3, <2>4, <2>6, ApplyEditSims DEF EditKinds
    <3>. QED BY <1>12, <2>7, <3>1 DEF Keeps
  <2>. QED BY <1>3, <1>12, <2>2, <2>3, <2>5, <2>6, <2>7
<1>8. CASE e.t = "diagnostics"
  <2>1. w = OnDiagnostics(m, e)
    BY <1>8 DEF OnLspEvent
  <2>. QED BY <1>3, <1>4, <1>8, <2>1 DEF OnDiagnostics
<1>9. CASE e.t = "answer"
  <2>1. w = OnAnswer(m, e)
    BY <1>9 DEF OnLspEvent
  <2>. QED BY <1>7, <1>9, <2>1
<1>10. CASE e.t = "failed"
  <2>1. w = OnFailed(m, e)
    BY <1>10 DEF OnLspEvent
  <2>2. w = m \/ (\E l : w = [m EXCEPT !.load = l]) \/ \E l, a : w = [m EXCEPT !.load = l, !.active = a]
    BY <2>1 DEF OnFailed
  <2>. QED BY <1>3, <1>5, <1>6, <2>2
<1>11. CASE e.t = "load"
  <2>1. w = [m EXCEPT !.load = e.load]
    BY <1>11 DEF OnLspEvent
  <2>. QED BY <1>5, <2>1
<1>. QED BY <1>8, <1>9, <1>10, <1>11 DEF IsEvent

\* A request, after the cancellation of the one that it supersedes.
LEMMA AskSims ==
  ASSUME NEW m, NEW p, Sim(m, p), m.started, NEW k, NEW d, NEW w, w = AskServer(m, k, d)
  PROVE  Sim(w, p) /\ Keeps(m, w)
<1>1. ASSUME NEW a, Sim(a, p), a.started, NEW r, r.t \in {"cancel", "ask"}, NEW b, b = Push(a, r)
      PROVE  Sim(b, p) /\ b.started /\ Keeps(a, b)
  <2>. DEFINE q == Heard(p, a.out)
              z == Heard(p, b.out)
  <2>1. IsModel(a) /\ AgreeBut(a, q, {})
    BY <1>1 DEF Sim
  <2>2. ModelFields \subseteq DOMAIN a /\ List(a.out)
    BY <2>1 DEF IsModel
  <2>3. IsPush(a, b, r, p)
    BY <1>1, <2>2, PushFacts
  <2>4. /\ ModelFields \subseteq DOMAIN b /\ List(b.out) /\ z = Hears(q, r)
        /\ \A i \in 1..Len(b.out) : \/ i \in 1..Len(a.out) /\ b.out[i] = a.out[i]
                                    \/ i = Len(a.out) + 1 /\ b.out[i] = r
        /\ \A f \in ModelFields : f # "out" => b[f] = a[f]
    BY <2>3 DEF IsPush
  <2>5. /\ b.text = a.text /\ b.pend = a.pend /\ b.open = a.open /\ b.next = a.next
        /\ b.synced = a.synced /\ b.edit = a.edit /\ b.started = a.started /\ b.diag = a.diag
    BY <2>4 DEF ModelFields
  <2>. HIDE DEF q, z
  <2>6. z = q \/ z = [q EXCEPT !.owes = @ \cup {r}]
    BY <1>1, <2>4 DEF Hears, ServerReads
  <2>7. DOMAIN z = DOMAIN q /\ z.copy = q.copy /\ z.seen = q.seen /\ z.misled = q.misled
    BY <2>1, <2>6 DEF AgreeBut
  <2>8. AgreeBut(b, z, {})
    BY <2>1, <2>5, <2>7 DEF AgreeBut
  <2>11. Numbered(r)
    BY <1>1 DEF Numbered
  <2>9. \A i \in 1..Len(b.out) : b.out[i].t \in Requests /\ Numbered(b.out[i])
          /\ (b.out[i].t = "start" => i = 1 /\ Used < MaxSessions)
    BY <1>1, <2>1, <2>4, <2>11 DEF IsModel, Requests
  <2>10. IsModel(b)
    BY <1>1, <2>1, <2>4, <2>5, <2>9 DEF IsModel
  <2>12. Keeps(a, b)
    BY <2>5, KeepsSame
  <2>. QED BY <1>1, <2>5, <2>8, <2>10, <2>12 DEF Sim, z
<1>. DEFINE c == [t |-> "cancel", id |-> m.active[k]]
            x == [t |-> "ask", id |-> m.nextId + 1, kind |-> k, doc |-> d]
            a == IF m.active[k] = 0 THEN m ELSE Push(m, c)
            b == [a EXCEPT !.nextId = m.nextId + 1, !.active[k] = m.nextId + 1]
<1>2. w = Push(b, x) /\ x.t = "ask" /\ c.t = "cancel"
  BY DEF AskServer
<1>. HIDE DEF c, x
<1>3. Sim(a, p) /\ a.started /\ Keeps(m, a)
  BY <1>1, <1>2 DEF Keeps
<1>. HIDE DEF a
<1>4. IsModel(a)
  BY <1>3 DEF Sim
<1>5. /\ ModelFields \subseteq DOMAIN a /\ a.text \in [Docs -> Seq(Chars) \cup {None}]
      /\ a.pend \in [Docs -> Seq(Changes)] /\ (a.edit # None => IsEdit(a.edit))
      /\ DOMAIN a.diag = Docs
  BY <1>4 DEF IsModel
<1>6. /\ b.text = a.text /\ b.pend = a.pend /\ b.open = a.open /\ b.next = a.next
      /\ b.synced = a.synced /\ b.started = a.started /\ b.out = a.out /\ b.edit = a.edit
      /\ ModelFields \subseteq DOMAIN b /\ b.diag = a.diag
  BY <1>5 DEF ModelFields
<1>. HIDE DEF b
<1>7. Sim(b, p) /\ b.started
  BY <1>3, <1>5, <1>6, QuietSims
<1>8. Keeps(a, b)
  BY <1>6, KeepsSame
<1>9. Sim(w, p) /\ Keeps(b, w)
  BY <1>1, <1>2, <1>7
<1>. QED BY <1>3, <1>8, <1>9 DEF Keeps

\* reset_for_restart, and the start that follows it.
LEMMA RestartSims ==
  ASSUME NEW m, IsModel(m), m.out = <<>>, m.started, Used < MaxSessions, NEW p,
         NEW w, w = Push(ResetForRestart(m), [t |-> "start"])
  PROVE  Sim(w, p) /\ Keeps(m, w)
<1>. DEFINE b == ResetForRestart(m)
<1>1. /\ ModelFields \subseteq DOMAIN m /\ List(m.out)
  BY DEF IsModel
<1>2. /\ ModelFields \subseteq DOMAIN b /\ b.text = m.text /\ b.pend = m.pend
      /\ b.open = [d \in Docs |-> 0] /\ b.next = 0 /\ b.synced = [d \in Docs |-> <<>>]
      /\ b.started = m.started /\ b.out = m.out /\ b.edit = m.edit
      /\ b.diag = [d \in Docs |-> None]
  BY <1>1 DEF ModelFields, ResetForRestart
<1>. HIDE DEF b
<1>3. IsModel(b)
  <2>1. b.synced \in [Docs -> Seq(Chars)] /\ b.open \in [Docs -> Nat]
        /\ \A d \in Docs : b.open[d] <= b.next
    BY <1>2
  <2>2. Len(b.out) = 0
    BY <1>2
  <2>. QED BY <1>2, <2>1, <2>2 DEF IsModel
<1>4. w = Push(b, [t |-> "start"])
  BY DEF b
<1>5. \A d \in Docs : b.open[d] = 0
  BY <1>2
<1>6. b.out = <<>> /\ b.started
  BY <1>2
<1>7. Sim(w, p) /\ \A f \in ModelFields : f # "out" => w[f] = b[f]
  BY <1>3, <1>4, <1>5, <1>6, StartSims
<1>8. Keeps(b, w)
  BY <1>7, KeepsSame DEF ModelFields
<1>9. \A c : Shown(b, c)
  BY <1>2 DEF Shown
<1>. QED BY <1>7, <1>8, <1>9 DEF Keeps

-----------------------------------------------------------------------------
(***************************************************************************)
(* Sessions: what the process of one will have read.                       *)
(***************************************************************************)

\* What a process that holds what p does will hold once what is on its way has been read.
Told(s, p) == Fold([op |-> "reads"], p, OnItsWay(s))

ProcFields == {"alive", "copy", "seen", "hello", "owes", "misled", "working", "untold"}

\* What a process holds of each document, and the version it last was told.
Process(p) ==
  /\ {"copy", "seen", "misled", "owes"} \subseteq DOMAIN p
  /\ p.seen \in [Docs -> Nat] /\ DOMAIN p.copy = Docs

\* What the server sent can be taken by the model.
IsWork(w) ==
  /\ w.t = "publish" => IsEvent(w.event)
  /\ w.t = "response" /\ w.ok => IsEvent(w.event)
  /\ Numbered(w)

\* A session: a translator that is ready has nothing queued.
IsSession(s) ==
  /\ {"inbox", "gen", "stage", "tr", "proc", "lost"} \subseteq DOMAIN s
  /\ {"ready", "queued", "pending", "cancelled", "progress"} \subseteq DOMAIN s.tr
  /\ ProcFields \subseteq DOMAIN s.proc /\ Process(s.proc)
  /\ s.gen \in Nat \/ s = NoSession
  /\ List(s.inbox) /\ List(s.tr.queued) /\ (s.tr.ready => s.tr.queued = <<>>)
  /\ \A k \in 1..Len(s.inbox) : IsWork(s.inbox[k])
  /\ \A k \in 1..Len(s.tr.queued) : Numbered(s.tr.queued[k])

\* Two processes that hold the same documents.
Same(p, q) ==
  /\ {"copy", "seen", "misled", "owes"} \subseteq DOMAIN p
  /\ {"copy", "seen", "misled", "owes"} \subseteq DOMAIN q
  /\ p.copy = q.copy /\ p.seen = q.seen /\ p.misled = q.misled

\* They hold the same documents after a message,
LEMMA ReadsSame ==
  ASSUME NEW p, NEW q, Same(p, q), NEW r
  PROVE  Same(ServerReads(p, r), ServerReads(q, r))
<1>. DEFINE x == ServerReads(p, r)
            y == ServerReads(q, r)
<1>1. CASE r.t = "open"
  BY <1>1 DEF ServerReads, Same
<1>2. CASE r.t = "change"
  BY <1>2 DEF ServerReads, Same
<1>3. CASE r.t = "close"
  BY <1>3 DEF ServerReads, Same
<1>4. CASE r.t = "ask"
  BY <1>4 DEF ServerReads, Same
<1>5. CASE r.t \notin {"open", "change", "close", "ask"}
  <2>1. x = p /\ y = q
    BY <1>5 DEF ServerReads
  <2>. QED BY <2>1
<1>. QED BY <1>1, <1>2, <1>3, <1>4, <1>5

\* and after a list of messages.
LEMMA FoldSame ==
  ASSUME NEW p, NEW q, Same(p, q), NEW s, List(s)
  PROVE  Same(Fold([op |-> "reads"], p, s), Fold([op |-> "reads"], q, s))
<1>. DEFINE o == [op |-> "reads"]
            n == Len(s)
<1>1. n \in Nat
  BY ListFacts
<1>2. \A a, x : Do(o, a, x) = ServerReads(a, x)
  BY DoFacts
<1>. HIDE DEF o, n
<1>3. PICK f : IsRun(f, o, p, s, n) /\ Fold(o, p, s) = f[n]
  BY FoldIs DEF n
<1>4. PICK g : IsRun(g, o, q, s, n) /\ Fold(o, q, s) = g[n]
  BY FoldIs DEF n
<1>. DEFINE T == {k \in Nat : k <= n => Same(f[k], g[k])}
<1>5. 0 \in T
  BY <1>3, <1>4 DEF IsRun
<1>6. ASSUME NEW k \in Nat, k \in T PROVE k + 1 \in T
  <2>1. CASE k + 1 <= n
    <3>1. k + 1 \in 1..n /\ (k + 1) - 1 = k /\ k <= n
      BY <1>1, <2>1
    <3>2. f[k + 1] = ServerReads(f[k], s[k + 1]) /\ g[k + 1] = ServerReads(g[k], s[k + 1])
      BY <1>2, <1>3, <1>4, <3>1 DEF IsRun
    <3>3. Same(f[k], g[k])
      BY <1>6, <3>1
    <3>4. Same(f[k + 1], g[k + 1])
      BY <3>2, <3>3, ReadsSame
    <3>. QED BY <3>4
  <2>. QED BY <1>1, <2>1
<1>. HIDE DEF T
<1>7. Nat \subseteq T
  BY <1>5, <1>6, SetInduction
<1>8. n \in T
  BY <1>1, <1>7
<1>9. Same(f[n], g[n])
  BY <1>1, <1>8 DEF T
<1>. QED BY <1>3, <1>4, <1>9 DEF o

\* The queue of the translator is read before the inbox.
LEMMA ToldIs ==
  ASSUME NEW s, IsSession(s), NEW p
  PROVE  Told(s, p) = Fold([op |-> "reads"], Fold([op |-> "reads"], p, s.tr.queued), s.inbox)
BY FoldConcat DEF Told, OnItsWay, IsSession

\* Version v of document d was c, for a process that has been told of it at least, and of
\* it in order: it has been told of a later version, or holds c or nothing.
Past(h, d, v, c) ==
  /\ d \in Docs /\ v \in Nat \ {0}
  /\ ~h.misled => h.seen[d] > v \/ (h.seen[d] = v /\ h.copy[d] \in {None, c})

\* What was past stays so.
StaysPast(h, w) == \A d, v, c : Past(h, d, v, c) => Past(w, d, v, c)

\* Process q holds of the documents that p holds some, the same of each.
Weaker(q, p) ==
  \A d \in Docs : q.copy[d] # None => q.copy[d] = p.copy[d] /\ q.seen[d] = p.seen[d] /\ p.seen[d] # 0

\* What a message makes of a process.
LEMMA ReadsProcess ==
  ASSUME NEW p, Process(p), NEW r, Numbered(r)
  PROVE  Process(ServerReads(p, r)) /\ StaysPast(p, ServerReads(p, r))
<1>. DEFINE x == ServerReads(p, r)
<1>1. CASE r.t = "open"
  <2>1. x = [p EXCEPT !.copy[r.doc] = r.text, !.seen[r.doc] = r.version,
                      !.misled = @ \/ p.copy[r.doc] # None \/ r.version <= p.seen[r.doc]]
    BY <1>1 DEF ServerReads
  <2>. HIDE DEF x
  <2>2. /\ DOMAIN x = DOMAIN p /\ x.copy = [p.copy EXCEPT ![r.doc] = r.text]
        /\ x.seen = [p.seen EXCEPT ![r.doc] = r.version]
        /\ x.misled = (p.misled \/ p.copy[r.doc] # None \/ r.version <= p.seen[r.doc])
    BY <2>1 DEF Process
  <2>3. r.version \in Nat
    BY <1>1 DEF Numbered
  <2>4. Process(x)
    BY <2>2, <2>3 DEF Process
  <2>5. ASSUME NEW d, NEW v, NEW c, Past(p, d, v, c) PROVE Past(x, d, v, c)
    <3>1. CASE d = r.doc
      <4>1. ~x.misled => ~p.misled /\ r.version > p.seen[d]
        <5>1. ~x.misled => ~p.misled /\ ~(r.version <= p.seen[d])
          BY <2>2, <3>1, Zenon
        <5>2. p.seen[d] \in Nat
          BY <2>5 DEF Process, Past
        <5>. QED BY <2>3, <5>1, <5>2
      <4>2. x.seen[d] = r.version
        BY <2>2, <2>5, <3>1 DEF Process, Past
      <4>. QED BY <2>3, <2>5, <4>1, <4>2 DEF Process, Past
    <3>2. CASE d # r.doc
      <4>1. x.seen[d] = p.seen[d] /\ x.copy[d] = p.copy[d] /\ (~x.misled => ~p.misled)
        BY <2>2, <2>5, <3>2 DEF Process, Past
      <4>. QED BY <2>5, <4>1 DEF Past
    <3>. QED BY <3>1, <3>2
  <2>. QED BY <2>4, <2>5 DEF StaysPast, x
<1>2. CASE r.t = "change" /\ p.copy[r.doc] # None
  <2>1. x = [p EXCEPT !.copy[r.doc] = Replace(@, r.change), !.seen[r.doc] = r.version,
                      !.misled = @ \/ r.version <= p.seen[r.doc]
                                   \/ r.change.at + r.change.del > Len(p.copy[r.doc])]
    BY <1>2 DEF ServerReads
  <2>. HIDE DEF x
  <2>2. /\ DOMAIN x = DOMAIN p /\ x.copy = [p.copy EXCEPT ![r.doc] = Replace(@, r.change)]
        /\ x.seen = [p.seen EXCEPT ![r.doc] = r.version]
        /\ x.misled = (p.misled \/ r.version <= p.seen[r.doc]
                         \/ r.change.at + r.change.del > Len(p.copy[r.doc]))
    BY <2>1 DEF Process
  <2>3. r.version \in Nat
    BY <1>2 DEF Numbered
  <2>4. Process(x)
    BY <2>2, <2>3 DEF Process
  <2>5. ASSUME NEW d, NEW v, NEW c, Past(p, d, v, c) PROVE Past(x, d, v, c)
    <3>1. CASE d = r.doc
      <4>1. ~x.misled => ~p.misled /\ r.version > p.seen[d]
        <5>1. ~x.misled => ~p.misled /\ ~(r.version <= p.seen[d])
          BY <2>2, <3>1, Zenon
        <5>2. p.seen[d] \in Nat
          BY <2>5 DEF Process, Past
        <5>. QED BY <2>3, <5>1, <5>2
      <4>2. x.seen[d] = r.version
        BY <2>2, <2>5, <3>1 DEF Process, Past
      <4>. QED BY <2>3, <2>5, <4>1, <4>2 DEF Process, Past
    <3>2. CASE d # r.doc
      <4>1. x.seen[d] = p.seen[d] /\ x.copy[d] = p.copy[d] /\ (~x.misled => ~p.misled)
        BY <2>2, <2>5, <3>2 DEF Process, Past
      <4>. QED BY <2>5, <4>1 DEF Past
    <3>. QED BY <3>1, <3>2
  <2>. QED BY <2>4, <2>5 DEF StaysPast, x
<1>3. CASE r.t = "change" /\ p.copy[r.doc] = None
  <2>1. x = [p EXCEPT !.misled = TRUE]
    BY <1>3 DEF ServerReads
  <2>. HIDE DEF x
  <2>2. DOMAIN x = DOMAIN p /\ x.copy = p.copy /\ x.seen = p.seen /\ x.misled
    BY <2>1 DEF Process
  <2>. QED BY <2>2 DEF Process, StaysPast, Past, x
<1>4. CASE r.t = "close"
  <2>1. x = [p EXCEPT !.copy[r.doc] = None, !.misled = @ \/ p.copy[r.doc] = None]
    BY <1>4 DEF ServerReads
  <2>. HIDE DEF x
  <2>2. /\ DOMAIN x = DOMAIN p /\ x.copy = [p.copy EXCEPT ![r.doc] = None] /\ x.seen = p.seen
        /\ x.misled = (p.misled \/ p.copy[r.doc] = None)
    BY <2>1 DEF Process
  <2>3. Process(x)
    BY <2>2 DEF Process
  <2>4. ASSUME NEW d, NEW v, NEW c, Past(p, d, v, c) PROVE Past(x, d, v, c)
    <3>1. x.copy[d] \in {None, p.copy[d]} /\ x.seen[d] = p.seen[d] /\ (~x.misled => ~p.misled)
      BY <2>2, <2>4 DEF Process, Past
    <3>. QED BY <2>4, <3>1 DEF Past
  <2>. QED BY <2>3, <2>4 DEF StaysPast, x
<1>5. CASE r.t \notin {"open", "change", "close"}
  <2>1. x = p \/ x = [p EXCEPT !.owes = @ \cup {r}]
    BY <1>5 DEF ServerReads
  <2>. HIDE DEF x
  <2>2. DOMAIN x = DOMAIN p /\ x.copy = p.copy /\ x.seen = p.seen /\ x.misled = p.misled
    BY <2>1 DEF Process
  <2>. QED BY <2>2 DEF Process, StaysPast, Past, x
<1>. QED BY <1>1, <1>2, <1>3, <1>4, <1>5

\* A process that holds less holds less after a message.
LEMMA ReadsWeaker ==
  ASSUME NEW q, Process(q), NEW p, Process(p), Weaker(q, p), NEW r, Numbered(r)
  PROVE  Weaker(ServerReads(q, r), ServerReads(p, r))
<1>. DEFINE x == ServerReads(q, r)
            y == ServerReads(p, r)
<1>1. CASE r.t = "open"
  <2>1. /\ x.copy = [q.copy EXCEPT ![r.doc] = r.text] /\ x.seen = [q.seen EXCEPT ![r.doc] = r.version]
        /\ y.copy = [p.copy EXCEPT ![r.doc] = r.text] /\ y.seen = [p.seen EXCEPT ![r.doc] = r.version]
    BY <1>1 DEF ServerReads, Process
  <2>2. r.version # 0
    BY <1>1 DEF Numbered
  <2>. HIDE DEF x, y
  <2>3. Weaker(x, y)
    BY <2>1, <2>2 DEF Weaker, Process
  <2>. QED BY <2>3 DEF x, y
<1>2. CASE r.t = "change" /\ q.copy[r.doc] = None
  <2>1. x.copy = q.copy /\ x.seen = q.seen
    BY <1>2 DEF ServerReads, Process
  <2>2. \A d \in Docs : d # r.doc => y.copy[d] = p.copy[d] /\ y.seen[d] = p.seen[d]
    BY <1>2 DEF ServerReads, Process
  <2>. HIDE DEF x, y
  <2>3. Weaker(x, y)
    BY <1>2, <2>1, <2>2 DEF Weaker
  <2>. QED BY <2>3 DEF x, y
<1>3. CASE r.t = "change" /\ q.copy[r.doc] # None
  <2>1. /\ x.copy = [q.copy EXCEPT ![r.doc] = Replace(@, r.change)]
        /\ x.seen = [q.seen EXCEPT ![r.doc] = r.version]
    BY <1>3 DEF ServerReads, Process
  <2>2. r.version # 0
    BY <1>3 DEF Numbered
  <2>3. r.doc \in Docs => /\ y.copy = [p.copy EXCEPT ![r.doc] = Replace(@, r.change)]
                          /\ y.seen = [p.seen EXCEPT ![r.doc] = r.version]
    BY <1>3 DEF ServerReads, Process, Weaker
  <2>4. \A d \in Docs : d # r.doc => y.copy[d] = p.copy[d] /\ y.seen[d] = p.seen[d]
    BY <1>3 DEF ServerReads, Process
  <2>. HIDE DEF x, y
  <2>5. ASSUME NEW d \in Docs, x.copy[d] # None
        PROVE  x.copy[d] = y.copy[d] /\ x.seen[d] = y.seen[d] /\ y.seen[d] # 0
    <3>1. CASE d = r.doc
      BY <1>3, <2>1, <2>2, <2>3, <3>1 DEF Weaker, Process
    <3>2. CASE d # r.doc
      BY <2>1, <2>4, <2>5, <3>2 DEF Weaker, Process
    <3>. QED BY <3>1, <3>2
  <2>6. Weaker(x, y)
    BY <2>5 DEF Weaker
  <2>. QED BY <2>6 DEF x, y
<1>4. CASE r.t = "close"
  <2>1. /\ x.copy = [q.copy EXCEPT ![r.doc] = None] /\ x.seen = q.seen
        /\ y.copy = [p.copy EXCEPT ![r.doc] = None] /\ y.seen = p.seen
    BY <1>4 DEF ServerReads, Process
  <2>. HIDE DEF x, y
  <2>2. Weaker(x, y)
    BY <2>1 DEF Weaker, Process
  <2>. QED BY <2>2 DEF x, y
<1>5. CASE r.t \notin {"open", "change", "close"}
  <2>1. x.copy = q.copy /\ x.seen = q.seen /\ y.copy = p.copy /\ y.seen = p.seen
    BY <1>5 DEF ServerReads, Process
  <2>. HIDE DEF x, y
  <2>2. Weaker(x, y)
    BY <2>1 DEF Weaker
  <2>. QED BY <2>2 DEF x, y
<1>. QED BY <1>1, <1>2, <1>3, <1>4, <1>5

\* And all of it after a list of messages.
LEMMA FoldWeaker ==
  ASSUME NEW q, Process(q), NEW p, Process(p), Weaker(q, p), NEW s, List(s),
         \A k \in 1..Len(s) : Numbered(s[k])
  PROVE  /\ Process(Fold([op |-> "reads"], p, s)) /\ StaysPast(p, Fold([op |-> "reads"], p, s))
         /\ Process(Fold([op |-> "reads"], q, s))
         /\ Weaker(Fold([op |-> "reads"], q, s), Fold([op |-> "reads"], p, s))
<1>. DEFINE o == [op |-> "reads"]
            n == Len(s)
            Ok(x, y) == Process(x) /\ StaysPast(p, x) /\ Process(y) /\ Weaker(y, x)
<1>1. n \in Nat
  BY ListFacts
<1>2. \A a, x : Do(o, a, x) = ServerReads(a, x)
  BY DoFacts
<1>. HIDE DEF o, n
<1>3. PICK f : IsRun(f, o, p, s, n) /\ Fold(o, p, s) = f[n]
  BY FoldIs DEF n
<1>4. PICK g : IsRun(g, o, q, s, n) /\ Fold(o, q, s) = g[n]
  BY FoldIs DEF n
<1>. DEFINE T == {k \in Nat : k <= n => Ok(f[k], g[k])}
<1>5. 0 \in T
  <2>1. f[0] = p /\ g[0] = q
    BY <1>3, <1>4 DEF IsRun
  <2>2. Ok(p, q)
    BY DEF StaysPast
  <2>. QED BY <2>1, <2>2
<1>6. ASSUME NEW k \in Nat, k \in T PROVE k + 1 \in T
  <2>1. CASE k + 1 <= n
    <3>1. k + 1 \in 1..n /\ (k + 1) - 1 = k /\ k <= n
      BY <1>1, <2>1
    <3>. DEFINE x == f[k]
                y == g[k]
                r == s[k + 1]
                v == f[k + 1]
                w == g[k + 1]
    <3>2. v = ServerReads(x, r) /\ w = ServerReads(y, r)
      BY <1>2, <1>3, <1>4, <3>1 DEF IsRun
    <3>3. Process(x) /\ StaysPast(p, x) /\ Process(y) /\ Weaker(y, x) /\ Numbered(r)
      BY <1>6, <3>1 DEF n
    <3>. HIDE DEF x, y, r, v, w
    <3>4. Process(v) /\ StaysPast(x, v) /\ Process(w)
      BY <3>2, <3>3, ReadsProcess
    <3>5. Weaker(w, v)
      BY <3>2, <3>3, ReadsWeaker
    <3>6. Ok(v, w)
      BY <3>3, <3>4, <3>5 DEF StaysPast
    <3>. QED BY <3>6 DEF v, w
  <2>. QED BY <1>1, <2>1
<1>. HIDE DEF T
<1>7. Nat \subseteq T
  BY <1>5, <1>6, SetInduction
<1>8. n \in T
  BY <1>1, <1>7
<1>9. Ok(f[n], g[n])
  BY <1>1, <1>8 DEF T
<1>. QED BY <1>3, <1>4, <1>9 DEF o

\* A process that was just started holds nothing, and so less than any other.
LEMMA NewProcessFacts ==
  /\ Process(NewProcess) /\ Same(NewProcess, NewProcess)
  /\ \A p : Weaker(NewProcess, p)
BY DEF Process, Same, NewProcess, Weaker

\* What a session is made of, as the processes are.
LEMMA SessionFacts ==
  ASSUME NEW s, IsSession(s)
  PROVE  /\ List(s.inbox) /\ List(s.tr.queued) /\ Len(s.inbox) \in Nat
         /\ \A k \in 1..Len(s.inbox) : IsWork(s.inbox[k])
         /\ Process(s.proc) /\ ProcFields \subseteq DOMAIN s.proc
<1>1. List(s.inbox)
  BY DEF IsSession
<1>2. Len(s.inbox) \in Nat
  BY <1>1, ListFacts
<1>. QED BY <1>1, <1>2 DEF IsSession

\* What was past stays so while a process reads what is on its way.
LEMMA ToldStaysPast ==
  ASSUME NEW s, IsSession(s), NEW p, Process(p)
  PROVE  StaysPast(p, Told(s, p))
<1>. DEFINE o == [op |-> "reads"]
            u == s.tr.queued
            v == s.inbox
            x == Fold(o, p, u)
            y == Fold(o, x, v)
            n == NewProcess
<1>1. List(u) /\ List(v) /\ (\A k \in 1..Len(u) : Numbered(u[k])) /\ (\A k \in 1..Len(v) : Numbered(v[k]))
  BY DEF IsSession, IsWork
<1>2. Process(n) /\ \A q : Weaker(n, q)
  BY NewProcessFacts
<1>3. Told(s, p) = y
  BY ToldIs
<1>. HIDE DEF u, v, n
<1>4. Process(x) /\ StaysPast(p, x)
  BY <1>1, <1>2, FoldWeaker
<1>. HIDE DEF x
<1>5. StaysPast(x, y)
  BY <1>1, <1>2, <1>4, FoldWeaker
<1>. HIDE DEF y
<1>. QED BY <1>3, <1>4, <1>5 DEF StaysPast

\* P is what the process of a session would hold, had it never been relaunched.
Behind(s, P) ==
  /\ Process(P)
  /\ s.proc.alive => Weaker(s.proc, P) /\ (s.gen = 0 => Same(s.proc, P))

\* The versions that an event names are past for h, each with the text it was made for.
EventPast(h, e) ==
  /\ e.t = "diagnostics" /\ e.version # 0 => Past(h, e.doc, e.version, e.text)
  /\ e.t = "answer" => \A d \in DOMAIN e.versions : Past(h, d, e.versions[d], e.base[d])

\* So are those of the event that a message of the server brings.
WorkPast(h, w) == w.t = "publish" \/ (w.t = "response" /\ w.ok) => EventPast(h, w.event)

\* Unless the supervisor has returned, the process of the session, had it never been
\* relaunched, will come to hold what h does; and what it says was past by then.
Leads(s, h) ==
  s.stage # "over" =>
    /\ \E P : Behind(s, P) /\ Same(Told(s, P), h)
    /\ \A k \in 1..Len(s.inbox) : WorkPast(h, s.inbox[k])

\* A session that has come to x has told, or will have told, what it would have as s.
StillTold(x, s) == x.gen \in Nat /\ \A h : Leads(s, h) => Leads(x, h)

\* What is past is so for a process that was told more, or the same.
LEMMA PastStays ==
  ASSUME NEW h, NEW w, StaysPast(h, w)
  PROVE  /\ \A e : EventPast(h, e) => EventPast(w, e)
         /\ \A b : WorkPast(h, b) => WorkPast(w, b)
<1>1. \A e : EventPast(h, e) => EventPast(w, e)
  BY DEF StaysPast, EventPast
<1>. QED BY <1>1 DEF WorkPast

\* Two processes that hold the same have the same past.
LEMMA SamePast ==
  ASSUME NEW h, NEW w, Same(h, w)
  PROVE  StaysPast(h, w)
BY DEF StaysPast, Same, Past

\* An inbox with one more message, and with one less.
LEMMA InboxFacts ==
  ASSUME NEW q, List(q), NEW w
  PROVE  /\ List(Append(q, w)) /\ Len(Append(q, w)) = Len(q) + 1 /\ Len(q) \in Nat
         /\ \A k \in 1..Len(Append(q, w)) :
              \/ k \in 1..Len(q) /\ Append(q, w)[k] = q[k]
              \/ k = Len(q) + 1 /\ Append(q, w)[k] = w
<1>. DEFINE z == Append(q, w)
<1>1. List(z) /\ Len(q) \in Nat
  BY ListFacts
<1>2. Len(z) = Len(q) + 1 /\ z[Len(q) + 1] = w
  BY ListFacts
<1>3. \A k \in 1..Len(q) : z[k] = q[k]
  BY ListFacts
<1>. HIDE DEF z
<1>4. \A k \in 1..Len(z) : \/ k \in 1..Len(q) /\ z[k] = q[k]
                           \/ k = Len(q) + 1 /\ z[k] = w
  BY <1>1, <1>2, <1>3
<1>. QED BY <1>1, <1>2, <1>4 DEF z

\* What is left of it.
LEMMA TailFacts ==
  ASSUME NEW q, List(q), q # <<>>
  PROVE  /\ List(Tail(q)) /\ Head(q) = q[1] /\ 1 \in 1..Len(q)
         /\ \A k \in 1..Len(Tail(q)) : k + 1 \in 1..Len(q) /\ Tail(q)[k] = q[k + 1]
<1>. DEFINE t == Tail(q)
<1>1. /\ List(t) /\ DOMAIN q = 1..Len(q) /\ Head(q) = q[1] /\ 1 \in DOMAIN q
      /\ \A k \in DOMAIN t : k + 1 \in DOMAIN q /\ t[k] = q[k + 1]
  BY ListFacts
<1>. HIDE DEF t
<1>2. DOMAIN t = 1..Len(t)
  BY <1>1, ListFacts
<1>3. \A k \in 1..Len(t) : k + 1 \in 1..Len(q) /\ t[k] = q[k + 1]
  BY <1>1, <1>2
<1>. QED BY <1>1, <1>3 DEF t

\* A request reaches the inbox of a session whose supervisor has not returned.
LEMMA SendToFacts ==
  ASSUME NEW s, IsSession(s), NEW w, IsWork(w)
  PROVE  IsSession(SendTo(s, w)) /\ SendTo(s, w).gen = s.gen
<1>. DEFINE x == SendTo(s, w)
<1>1. CASE s.stage = "over"
  BY <1>1 DEF SendTo
<1>2. CASE s.stage # "over"
  <2>1. x = [s EXCEPT !.inbox = Append(@, w)]
    BY <1>2 DEF SendTo
  <2>2. /\ DOMAIN x = DOMAIN s /\ x.inbox = Append(s.inbox, w) /\ x.gen = s.gen
        /\ x.stage = s.stage /\ x.tr = s.tr /\ x.proc = s.proc
    BY <2>1 DEF IsSession
  <2>. HIDE DEF x
  <2>3. List(s.inbox) /\ \A k \in 1..Len(s.inbox) : IsWork(s.inbox[k])
    BY SessionFacts
  <2>4. List(x.inbox) /\ \A k \in 1..Len(x.inbox) : IsWork(x.inbox[k])
    BY <2>2, <2>3, InboxFacts
  <2>5. x.gen \in Nat
    BY <1>2, <2>2 DEF IsSession, NoSession, NewSession
  <2>6. IsSession(x)
    BY <2>2, <2>4, <2>5 DEF IsSession
  <2>. QED BY <2>2, <2>6 DEF x
<1>. QED BY <1>1, <1>2

\* The process will read it after all the others.
LEMMA SendToLeads ==
  ASSUME NEW s, IsSession(s), NEW h, Process(h), Leads(s, h), NEW r, IsWork(r),
         r.t \notin {"publish", "response"}
  PROVE  Leads(SendTo(s, r), ServerReads(h, r))
<1>. DEFINE x == SendTo(s, r)
            g == ServerReads(h, r)
<1>1. CASE s.stage = "over"
  BY <1>1 DEF SendTo, Leads
<1>2. CASE s.stage # "over"
  <2>1. x = [s EXCEPT !.inbox = Append(@, r)]
    BY <1>2 DEF SendTo
  <2>2. /\ DOMAIN x = DOMAIN s /\ x.inbox = Append(s.inbox, r) /\ x.gen = s.gen
        /\ x.stage = s.stage /\ x.tr = s.tr /\ x.proc = s.proc
    BY <2>1 DEF IsSession
  <2>3. IsSession(x)
    BY SendToFacts
  <2>. HIDE DEF x
  <2>4. PICK P : Behind(s, P) /\ Same(Told(s, P), h)
    BY <1>2 DEF Leads
  <2>5. Behind(x, P)
    BY <2>2, <2>4 DEF Behind
  <2>6. Told(x, P) = ServerReads(Told(s, P), r)
    <3>. DEFINE o == [op |-> "reads"]
                b == Fold(o, P, s.tr.queued)
                q == s.inbox
    <3>1. Told(s, P) = Fold(o, b, q) /\ Told(x, P) = Fold(o, b, Append(q, r))
      BY <2>2, <2>3, ToldIs
    <3>2. \A a, y : Do(o, a, y) = ServerReads(a, y)
      BY DoFacts
    <3>3. List(q)
      BY SessionFacts
    <3>. HIDE DEF o, b, q
    <3>4. Fold(o, b, Append(q, r)) = Do(o, Fold(o, b, q), r)
      BY <3>3, FoldFacts
    <3>. QED BY <3>1, <3>2, <3>4
  <2>7. Same(Told(x, P), g)
    BY <2>4, <2>6, ReadsSame
  <2>8. StaysPast(h, g)
    BY ReadsProcess DEF IsWork
  <2>. HIDE DEF g
  <2>9. ASSUME NEW k \in 1..Len(x.inbox) PROVE WorkPast(g, x.inbox[k])
    <3>. DEFINE q == s.inbox
    <3>1. List(q) /\ (\A j \in 1..Len(q) : WorkPast(h, q[j])) /\ x.inbox = Append(q, r)
      BY <1>2, <2>2, SessionFacts DEF Leads
    <3>. HIDE DEF q
    <3>2. \/ k \in 1..Len(q) /\ x.inbox[k] = q[k]
          \/ x.inbox[k] = r
      BY <2>9, <3>1, InboxFacts
    <3>3. CASE k \in 1..Len(q) /\ x.inbox[k] = q[k]
      BY <2>8, <3>1, <3>3, PastStays
    <3>4. CASE x.inbox[k] = r
      BY <3>4 DEF WorkPast
    <3>. QED BY <3>2, <3>3, <3>4
  <2>. QED BY <2>5, <2>7, <2>9 DEF Leads, x, g
<1>. QED BY <1>1, <1>2

\* The supervisor takes the next message: what the process will have read is the same
\* when the rest follows from what it and the translator make of it.
LEMMA TakenLeads ==
  ASSUME NEW s, IsSession(s), s.inbox # <<>>, s.stage # "over",
         NEW x, IsSession(x), x.inbox = Tail(s.inbox), x.gen \in Nat,
         \A p : Behind(s, p) =>
           \E q : /\ Behind(x, q)
                  /\ Same(Fold([op |-> "reads"], q, x.tr.queued),
                          ServerReads(Fold([op |-> "reads"], p, s.tr.queued), Head(s.inbox)))
  PROVE  StillTold(x, s)
<1>. SUFFICES ASSUME NEW h, Leads(s, h) PROVE Leads(x, h)
  BY DEF StillTold
<1>1. PICK p : Behind(s, p) /\ Same(Told(s, p), h)
  BY DEF Leads
<1>. DEFINE o == [op |-> "reads"]
            b == Fold(o, p, s.tr.queued)
            r == Head(s.inbox)
            t == Tail(s.inbox)
<1>2. PICK q : Behind(x, q) /\ Same(Fold(o, q, x.tr.queued), ServerReads(b, r))
  BY <1>1
<1>. DEFINE c == Fold(o, q, x.tr.queued)
<1>3. Told(s, p) = Fold(o, b, s.inbox) /\ Told(x, q) = Fold(o, c, t)
  BY ToldIs
<1>4. \A a, y : Do(o, a, y) = ServerReads(a, y)
  BY DoFacts
<1>5. List(s.inbox) /\ List(t)
  BY SessionFacts, TailFacts
<1>. HIDE DEF t
<1>6. Same(Fold(o, c, t), Fold(o, ServerReads(b, r), t))
  BY <1>2, <1>5, FoldSame
<1>. HIDE DEF o, b, c
<1>7. Fold(o, b, s.inbox) = Fold(o, Do(o, b, r), t)
  BY <1>5, FoldHead DEF t
<1>8. Same(Told(x, q), Told(s, p))
  BY <1>3, <1>4, <1>6, <1>7
<1>9. Same(Told(x, q), h)
  BY <1>1, <1>8 DEF Same
<1>10. \A k \in 1..Len(x.inbox) : WorkPast(h, x.inbox[k])
  <2>. DEFINE w == s.inbox
  <2>1. List(w) /\ w # <<>> /\ (\A k \in 1..Len(w) : WorkPast(h, w[k])) /\ x.inbox = Tail(w)
    BY <1>5 DEF Leads
  <2>. HIDE DEF w
  <2>2. \A k \in 1..Len(Tail(w)) : k + 1 \in 1..Len(w) /\ Tail(w)[k] = w[k + 1]
    BY <2>1, TailFacts
  <2>. QED BY <2>1, <2>2
<1>. QED BY <1>2, <1>9, <1>10 DEF Leads

\* Every session is one.
AreSessions(q) == DOMAIN q = 1..MaxSessions /\ \A i \in 1..MaxSessions : IsSession(q[i])

\* A session that was just created has heard nothing.
LEMMA NewSessionFacts == IsSession(NewSession) /\ Leads(NewSession, NewProcess) /\ NewSession.gen = 0
<1>. DEFINE s == NewSession
            o == [op |-> "reads"]
            e == <<>>
            n == NewProcess
<1>1. s.inbox = e /\ s.tr.queued = e /\ s.proc = n /\ s.tr.ready = FALSE /\ s.gen = 0
  BY DEF NewSession, NewTranslator
<1>2. e \in Seq({}) /\ Len(e) = 0
  OBVIOUS
<1>3. List(e)
  BY <1>2, SequencesAreLists
<1>4. Process(n) /\ Same(n, n) /\ (\A p : Weaker(n, p)) /\ ProcFields \subseteq DOMAIN n
  BY NewProcessFacts DEF NewProcess, ProcFields
<1>5. /\ {"inbox", "gen", "stage", "tr", "proc", "lost"} \subseteq DOMAIN s
      /\ {"ready", "queued", "pending", "cancelled", "progress"} \subseteq DOMAIN s.tr
  BY DEF NewSession, NewTranslator
<1>. HIDE DEF s, e, o, n
<1>6. IsSession(s)
  BY <1>1, <1>2, <1>3, <1>4, <1>5 DEF IsSession
<1>7. Told(s, n) = Fold(o, Fold(o, n, e), e)
  BY <1>1, <1>6, ToldIs DEF o
<1>8. Fold(o, n, e) = n
  BY <1>3, FoldFacts DEF e
<1>9. Behind(s, n)
  BY <1>1, <1>4 DEF Behind
<1>10. Leads(s, n)
  BY <1>1, <1>2, <1>4, <1>7, <1>8, <1>9 DEF Leads
<1>. QED BY <1>1, <1>6, <1>10 DEF s, n

\* The first n slots are those of the sessions that were made.
Launched(q, n) == \A i \in 1..MaxSessions : q[i].gen \in Nat <=> i <= n

\* That is how they are counted.
LEMMA UsedIs ==
  ASSUME NEW q, AreSessions(q), NEW n \in Nat, n <= MaxSessions, Launched(q, n)
  PROVE  Cardinality({i \in 1..MaxSessions : q[i] # NoSession}) = n
<1>1. MaxSessions \in Nat /\ NoSession.gen \notin Nat
  BY LspBounds DEF NoSession, NewSession
<1>2. \A i \in 1..MaxSessions : q[i] # NoSession <=> i <= n
  BY <1>1 DEF AreSessions, IsSession, Launched
<1>3. {i \in 1..MaxSessions : q[i] # NoSession} = 1..n
  BY <1>1, <1>2
<1>4. Cardinality(1..n) = n
  BY FS_Interval
<1>. QED BY <1>3, <1>4

\* What waits for the model comes from sessions that were made, n of them, and what comes
\* from session c names versions that are past for h.
Tidings(es, h, c, n) ==
  /\ List(es)
  /\ \A k \in 1..Len(es) : /\ IsEvent(es[k]) /\ es[k].from \in 1..n
                           /\ es[k].from = c => EventPast(h, es[k])

\* It is so for a process that was told more, and of a session that was made since.
LEMMA TidingsStay ==
  ASSUME NEW es, NEW h, NEW c, NEW n \in Nat, Tidings(es, h, c, n), NEW w, NEW e, NEW m \in Nat,
         n <= m, (e = c /\ StaysPast(h, w)) \/ e \notin 1..n
  PROVE  Tidings(es, w, e, m)
<1>1. ASSUME NEW k \in 1..Len(es)
      PROVE  es[k].from \in 1..m /\ (es[k].from = e => EventPast(w, es[k]))
  <2>1. es[k].from \in 1..n /\ (es[k].from = c => EventPast(h, es[k]))
    BY DEF Tidings
  <2>2. es[k].from \in 1..m
    BY <2>1
  <2>3. ASSUME es[k].from = e PROVE EventPast(w, es[k])
    BY <2>1, <2>3, PastStays
  <2>. QED BY <2>2, <2>3
<1>. QED BY <1>1 DEF Tidings

\* And once the model has taken the first of it.
LEMMA TailTidings ==
  ASSUME NEW es, NEW h, NEW c, NEW n, Tidings(es, h, c, n), es # <<>>
  PROVE  Tidings(Tail(es), h, c, n)
BY TailFacts DEF Tidings

\* A state of the forwarding: the session the model is bound to leads to what h has heard.
\* It is the one it was bound to, or one that was made for this handler.
IsForward(a, h) ==
  /\ {"sess", "at", "used"} \subseteq DOMAIN a
  /\ AreSessions(a.sess) /\ a.used \in Nat /\ a.used <= MaxSessions /\ Launched(a.sess, a.used)
  /\ a.at \in 0..a.used /\ Used <= a.used /\ (a.at \in {0, current} \/ a.at > Used)
  /\ Process(h) /\ (a.at # 0 => Leads(a.sess[a.at], h))
  /\ Tidings(events, h, a.at, a.used)

\* One request is forwarded.
LEMMA ForwardFacts ==
  ASSUME Used \in Nat, NEW a, NEW h, IsForward(a, h), NEW r, r.t \in Requests, Numbered(r),
         r.t = "start" => a.used < MaxSessions, NEW b, b = Forward(a, r)
  PROVE  IsForward(b, Hears(h, r))
<1>1. /\ {"sess", "at", "used"} \subseteq DOMAIN a
      /\ AreSessions(a.sess) /\ a.used \in Nat /\ a.used <= MaxSessions /\ Launched(a.sess, a.used)
      /\ a.at \in 0..a.used /\ Used <= a.used /\ (a.at \in {0, current} \/ a.at > Used)
      /\ Process(h) /\ (a.at # 0 => Leads(a.sess[a.at], h))
      /\ Tidings(events, h, a.at, a.used)
  BY DEF IsForward
<1>2. MaxSessions \in Nat
  BY LspBounds
<1>3. ASSUME NEW j \in 1..MaxSessions, NEW w, IsWork(w), NEW q, q = [a.sess EXCEPT ![j] = SendTo(@, w)]
      PROVE  AreSessions(q) /\ Launched(q, a.used) /\ q[j] = SendTo(a.sess[j], w)
  <2>. DEFINE s == a.sess[j]
              x == SendTo(s, w)
  <2>1. IsSession(s) /\ DOMAIN a.sess = 1..MaxSessions
    BY <1>1 DEF AreSessions
  <2>. HIDE DEF s
  <2>2. IsSession(x) /\ x.gen = s.gen
    BY <1>3, <2>1, SendToFacts
  <2>3. q = [a.sess EXCEPT ![j] = x]
    BY <1>3 DEF s
  <2>. HIDE DEF x
  <2>4. AreSessions(q)
    BY <1>1, <2>1, <2>2, <2>3 DEF AreSessions
  <2>5. Launched(q, a.used)
    BY <1>1, <2>1, <2>2, <2>3 DEF Launched, s
  <2>. QED BY <2>1, <2>3, <2>4, <2>5 DEF x, s
<1>4. CASE r.t # "start"
  <2>. DEFINE g == ServerReads(h, r)
  <2>1. Hears(h, r) = g
    BY <1>4 DEF Hears
  <2>2. IsWork(r) /\ r.t \notin {"publish", "response"}
    BY DEF IsWork, Requests
  <2>3. Process(g) /\ StaysPast(h, g)
    BY <1>1, ReadsProcess
  <2>. HIDE DEF g
  <2>4. Tidings(events, g, a.at, a.used)
    <3>1. a.used <= a.used
      BY <1>1
    <3>. QED BY <1>1, <2>3, <3>1, TidingsStay
  <2>5. CASE a.at = 0
    <3>1. b = a
      BY <1>4, <2>5 DEF Forward
    <3>. QED BY <1>1, <2>1, <2>3, <2>4, <2>5, <3>1 DEF IsForward
  <2>6. CASE a.at # 0
    <3>. DEFINE q == [a.sess EXCEPT ![a.at] = SendTo(@, r)]
    <3>1. a.at \in 1..MaxSessions
      BY <1>1, <1>2, <2>6
    <3>2. b = [a EXCEPT !.sess[a.at] = SendTo(@, r)]
      BY <1>4, <2>6 DEF Forward
    <3>3. DOMAIN b = DOMAIN a /\ b.at = a.at /\ b.used = a.used /\ b.sess = q
      BY <1>1, <3>2
    <3>4. AreSessions(q) /\ Launched(q, a.used) /\ q[a.at] = SendTo(a.sess[a.at], r)
      BY <1>3, <2>2, <3>1
    <3>. HIDE DEF q
    <3>5. Leads(q[a.at], g)
      <4>. DEFINE s == a.sess[a.at]
      <4>1. IsSession(s) /\ Leads(s, h)
        BY <1>1, <2>6, <3>1 DEF AreSessions
      <4>2. q[a.at] = SendTo(s, r)
        BY <3>4
      <4>. HIDE DEF s
      <4>3. Leads(SendTo(s, r), g)
        BY <1>1, <2>2, <4>1, SendToLeads DEF g
      <4>. QED BY <4>2, <4>3
    <3>. QED BY <1>1, <2>1, <2>3, <2>4, <3>3, <3>4, <3>5 DEF IsForward
  <2>. QED BY <2>5, <2>6
<1>5. CASE r.t = "start"
  <2>. DEFINE w == [t |-> "shutdown"]
              old == IF a.at = 0 THEN a.sess ELSE [a.sess EXCEPT ![a.at] = SendTo(@, w)]
              n == a.used + 1
              g == NewProcess
  <2>1. IsWork(w)
    BY DEF IsWork, Numbered
  <2>2. AreSessions(old) /\ Launched(old, a.used)
    <3>. HIDE DEF w
    <3>1. CASE a.at = 0
      BY <1>1, <3>1
    <3>2. CASE a.at # 0
      <4>1. a.at \in 1..MaxSessions
        BY <1>1, <1>2, <3>2
      <4>2. old = [a.sess EXCEPT ![a.at] = SendTo(@, w)]
        BY <3>2
      <4>. HIDE DEF old
      <4>. QED BY <1>3, <2>1, <4>1, <4>2
    <3>. QED BY <3>1, <3>2
  <2>3. Hears(h, r) = g
    BY <1>5 DEF Hears
  <2>4. Process(g)
    BY NewProcessFacts
  <2>5. CASE a.installed
    <3>1. b = [a EXCEPT !.sess = [old EXCEPT ![n] = NewSession], !.at = n, !.used = n]
      BY <1>5, <2>5 DEF Forward
    <3>2. n \in 1..MaxSessions /\ n \in Nat /\ a.used <= n /\ n \notin 1..a.used /\ n > Used
          /\ Used <= n /\ n <= MaxSessions /\ n \in 0..n
      BY <1>1, <1>2, <1>5
    <3>. HIDE DEF old, g
    <3>3. /\ b.at = n /\ b.used = n /\ b.sess = [old EXCEPT ![n] = NewSession]
          /\ {"sess", "at", "used"} \subseteq DOMAIN b
      BY <1>1, <3>1
    <3>4. IsSession(NewSession) /\ Leads(NewSession, g) /\ NewSession.gen \in Nat
      BY NewSessionFacts DEF g
    <3>5. AreSessions(b.sess) /\ b.sess[n] = NewSession
      BY <2>2, <3>2, <3>3, <3>4 DEF AreSessions
    <3>6. Launched(b.sess, n)
      <4>1. ASSUME NEW i \in 1..MaxSessions PROVE b.sess[i].gen \in Nat <=> i <= n
        <5>1. CASE i = n
          BY <3>2, <3>4, <3>5, <5>1
        <5>2. CASE i # n
          <6>1. b.sess[i] = old[i]
            BY <2>2, <3>3, <5>2 DEF AreSessions
          <6>2. old[i].gen \in Nat <=> i <= a.used
            BY <2>2 DEF Launched
          <6>. QED BY <1>1, <5>2, <6>1, <6>2
        <5>. QED BY <5>1, <5>2
      <4>. HIDE DEF n
      <4>. QED BY <4>1 DEF Launched
    <3>. HIDE DEF n
    <3>7. Tidings(events, g, n, n)
      BY <1>1, <3>2, TidingsStay
    <3>. QED BY <2>3, <2>4, <3>2, <3>3, <3>4, <3>5, <3>6, <3>7 DEF IsForward
  <2>6. CASE ~a.installed
    <3>1. b = [a EXCEPT !.sess = old, !.at = 0]
      BY <1>5, <2>6 DEF Forward
    <3>. HIDE DEF old, g
    <3>2. b.at = 0 /\ b.used = a.used /\ b.sess = old /\ DOMAIN b = DOMAIN a
      BY <1>1, <3>1
    <3>3. 0 \in 0..a.used /\ 0 \notin 1..a.used /\ a.used <= a.used
      BY <1>1
    <3>4. Tidings(events, g, 0, a.used)
      BY <1>1, <3>3, TidingsStay
    <3>. QED BY <1>1, <2>2, <2>3, <2>4, <3>2, <3>3, <3>4 DEF IsForward
  <2>. QED BY <2>5, <2>6
<1>. QED BY <1>4, <1>5

\* All requests of a handler are forwarded.
LEMMA ForwardAll ==
  ASSUME Used \in Nat, NEW a, NEW p, IsForward(a, p), NEW s, List(s),
         \A k \in 1..Len(s) :
           /\ s[k].t \in Requests /\ (s[k].t = "start" => k = 1 /\ a.used < MaxSessions)
           /\ Numbered(s[k])
  PROVE  IsForward(FoldLeft(Forward, a, s), Heard(p, s))
<1>. DEFINE o == [op |-> "forward"]
            u == [op |-> "hears"]
            n == Len(s)
<1>1. n \in Nat /\ MaxSessions \in Nat
  BY ListFacts, LspBounds
<1>2. \A b, x : Do(o, b, x) = Forward(b, x) /\ Do(u, b, x) = Hears(b, x)
  BY DoFacts
<1>3. FoldLeft(Forward, a, s) = Fold(o, a, s) /\ Heard(p, s) = Fold(u, p, s)
  BY FoldOfForward DEF Heard
<1>. HIDE DEF o, u, n
<1>4. PICK f : IsRun(f, o, a, s, n) /\ Fold(o, a, s) = f[n]
  BY FoldIs DEF n
<1>5. PICK g : IsRun(g, u, p, s, n) /\ Fold(u, p, s) = g[n]
  BY FoldIs DEF n
<1>. DEFINE T == {k \in Nat : k <= n => IsForward(f[k], g[k]) /\ (k = 0 => f[k] = a)}
<1>6. 0 \in T
  BY <1>4, <1>5 DEF IsRun
<1>7. ASSUME NEW k \in Nat, k \in T PROVE k + 1 \in T
  <2>1. CASE k + 1 <= n
    <3>1. k + 1 \in 1..n /\ (k + 1) - 1 = k /\ k <= n /\ k + 1 # 0
      BY <1>1, <2>1
    <3>2. f[k + 1] = Forward(f[k], s[k + 1]) /\ g[k + 1] = Hears(g[k], s[k + 1])
      BY <1>2, <1>4, <1>5, <3>1 DEF IsRun
    <3>3. IsForward(f[k], g[k]) /\ (k = 0 => f[k] = a)
      BY <1>7, <3>1
    <3>4. s[k + 1].t \in Requests /\ Numbered(s[k + 1])
          /\ (s[k + 1].t = "start" => k + 1 = 1 /\ a.used < MaxSessions)
      BY <3>1 DEF n
    <3>5. s[k + 1].t = "start" => f[k].used < MaxSessions
      <4>1. ASSUME s[k + 1].t = "start" PROVE f[k].used < MaxSessions
        <5>1. k = 0 /\ a.used < MaxSessions
          BY <3>4, <4>1
        <5>. QED BY <3>3, <5>1
      <4>. QED BY <4>1
    <3>6. IsForward(f[k + 1], g[k + 1])
      <4>. DEFINE x == f[k]
                  y == g[k]
                  r == s[k + 1]
                  z == f[k + 1]
      <4>1. IsForward(x, y) /\ r.t \in Requests /\ (r.t = "start" => x.used < MaxSessions)
            /\ Numbered(r) /\ z = Forward(x, r)
        BY <3>2, <3>3, <3>4, <3>5
      <4>. HIDE DEF x, y, r, z
      <4>2. IsForward(z, Hears(y, r))
        BY <4>1, ForwardFacts
      <4>. QED BY <3>2, <4>2 DEF y, r, z
    <3>. QED BY <3>1, <3>6
  <2>. QED BY <1>1, <2>1
<1>. HIDE DEF T
<1>8. Nat \subseteq T
  BY <1>6, <1>7, SetInduction
<1>9. n \in T
  BY <1>1, <1>8
<1>10. IsForward(f[n], g[n])
  BY <1>1, <1>9 DEF T
<1>. QED BY <1>3, <1>4, <1>5, <1>10

-----------------------------------------------------------------------------
(***************************************************************************)
(* The invariant, and what a handler leaves of it.                         *)
(***************************************************************************)

\* h is what the process of the current session, had it never been relaunched, will hold:
\* the documents of the model. What waits for the model names versions past for h.
Follows(h) ==
  /\ AgreeBut(ed, h, {})
  /\ current # 0 => Leads(sessions[current], h)
  /\ Tidings(events, h, current, Used)

\* The buffers are settled, and what is on its way to the current session leaves its
\* process with the documents of the model.
Core ==
  /\ IsModel(ed) /\ ed.out = <<>> /\ AllSettled(ed)
  /\ AreSessions(sessions) /\ Used \in Nat /\ Used <= MaxSessions /\ Launched(sessions, Used)
  /\ current \in 0..Used
  /\ \E h : Follows(h)

\* What the current session, or one that is still to be made, reported is shown for what
\* the model sent.
ShownOk == \A c : c = current \/ c = 0 \/ (c \in Nat /\ c > Used) => Shown(ed, c)

LspInv == Core /\ ShownOk

\* What agrees with the model is a process.
LEMMA AgreeingIsProcess ==
  ASSUME NEW m, NEW p, NEW D, AgreeBut(m, p, D)
  PROVE  Process(p)
BY DEF AgreeBut, Process

\* A process that holds the same documents agrees with the model as well.
LEMMA SameAgrees ==
  ASSUME NEW m, NEW p, NEW q, Same(p, q), AgreeBut(m, q, {})
  PROVE  AgreeBut(m, p, {})
BY DEF Same, AgreeBut

\* Between two handlers no request is left to be heard.
LEMMA FollowsSims ==
  ASSUME Core, NEW h, Follows(h)
  PROVE  Sim(ed, h)
<1>. DEFINE o == [op |-> "hears"]
            e == ed.out
<1>1. e = <<>> /\ List(e) /\ IsModel(ed)
  BY DEF Core, IsModel
<1>. HIDE DEF o
<1>2. Fold(o, h, <<>>) = h
  BY <1>1, FoldFacts
<1>3. Heard(h, e) = h
  BY <1>1, <1>2 DEF Heard, o
<1>. QED BY <1>1, <1>3 DEF Sim, Follows

\* An event that names past versions only fits a model that the process agrees with: the
\* version that is listed as open names the text that was sent.
LEMMA PastFits ==
  ASSUME NEW m, IsModel(m), NEW h, AgreeBut(m, h, {})
  PROVE  /\ \A d, v, c : Past(h, d, v, c) /\ v = m.open[d] => c = m.synced[d]
         /\ \A e, c : EventPast(h, e) => EventFits(m, e, c)
<1>1. /\ m.open \in [Docs -> Nat] /\ m.synced \in [Docs -> Seq(Chars)]
      /\ h.copy = [x \in Docs |-> IF m.open[x] = 0 THEN None ELSE m.synced[x]]
      /\ h.seen \in [Docs -> Nat] /\ ~h.misled
      /\ \A x \in Docs : m.open[x] # 0 => h.seen[x] = m.open[x]
  BY DEF IsModel, AgreeBut
<1>2. ASSUME NEW d, NEW v, NEW c, Past(h, d, v, c), v = m.open[d] PROVE c = m.synced[d]
  <2>1. d \in Docs /\ v # 0 /\ (h.seen[d] > v \/ (h.seen[d] = v /\ h.copy[d] \in {None, c}))
    BY <1>1, <1>2 DEF Past
  <2>2. h.seen[d] = v /\ h.copy[d] = m.synced[d] /\ v \in Nat
    BY <1>1, <1>2, <2>1
  <2>3. h.copy[d] \in {None, c}
    BY <2>1, <2>2
  <2>4. m.synced[d] # None
    BY <1>1, <2>1, LspBounds
  <2>. QED BY <2>2, <2>3, <2>4
<1>3. ASSUME NEW e, NEW c, EventPast(h, e) PROVE EventFits(m, e, c)
  BY <1>2, <1>3 DEF EventPast, EventFits
<1>. QED BY <1>2, <1>3

\* A handler leaves what is shown as it was, and takes an event or none.
Took(m) ==
  \/ events' = events /\ Keeps(ed, m)
  \/ events # <<>> /\ events' = Tail(events) /\ KeepsFitting(ed, m, Head(events))

\* What is shown after it, for the sessions that are still to be made and the current one.
LEMMA TookFacts ==
  ASSUME LspInv, NEW p, Follows(p), NEW m, Took(m)
  PROVE  \A c : c = current \/ c = 0 \/ (c \in Nat /\ c > Used) => Shown(m, c)
<1>. SUFFICES ASSUME NEW c, c = current \/ c = 0 \/ (c \in Nat /\ c > Used) PROVE Shown(m, c)
  OBVIOUS
<1>1. Shown(ed, c) /\ IsModel(ed) /\ AgreeBut(ed, p, {}) /\ Tidings(events, p, current, Used)
      /\ Used \in Nat
  BY DEF LspInv, ShownOk, Core, Follows
<1>2. CASE Keeps(ed, m)
  BY <1>1, <1>2 DEF Keeps
<1>3. CASE events # <<>> /\ KeepsFitting(ed, m, Head(events))
  <2>. DEFINE e == Head(events)
              q == events
  <2>1. List(q) /\ q # <<>>
    BY <1>1, <1>3 DEF Tidings
  <2>. HIDE DEF q
  <2>2. Head(q) = q[1] /\ 1 \in 1..Len(q)
    BY <2>1, TailFacts
  <2>3. e.from \in 1..Used /\ (e.from = current => EventPast(p, e))
    BY <1>1, <2>2 DEF Tidings, q
  <2>. HIDE DEF e
  <2>4. EventFits(ed, e, c)
    <3>1. CASE e.from = c
      <4>1. c = current
        BY <1>1, <2>3, <3>1
      <4>2. EventPast(p, e)
        BY <2>3, <3>1, <4>1
      <4>. QED BY <1>1, <4>2, PastFits
    <3>2. CASE e.from # c
      BY <3>2 DEF EventFits
    <3>. QED BY <3>1, <3>2
  <2>. QED BY <1>1, <1>3, <2>4 DEF KeepsFitting, e
<1>. QED BY <1>2, <1>3 DEF Took

\* The sessions once the main loop has forwarded what a handler asked for.
Forwarded(m) ==
  FoldLeft(Forward, [sess |-> sessions, at |-> current, used |-> Used, installed |-> Installed], m.out)

\* A handler and the forwarding of what it asked for.
LEMMA HandledFacts ==
  ASSUME LspInv, NEW p, Follows(p), NEW m, Sim(m, p), AllSettled(m), Handled(m), Took(m)
  PROVE  LspInv' /\ Used' = Forwarded(m).used
<1>. DEFINE a == [sess |-> sessions, at |-> current, used |-> Used, installed |-> Installed]
            b == FoldLeft(Forward, a, m.out)
            failed == ~Installed /\ \E k \in DOMAIN m.out : m.out[k].t = "start"
            z == Heard(p, m.out)
<1>1. /\ ed' = [m EXCEPT !.out = <<>>, !.load = IF failed THEN "Unavailable" ELSE @]
      /\ sessions' = b.sess /\ current' = b.at
  BY DEF Handled
<1>2. IsModel(m) /\ AgreeBut(m, z, {})
  BY DEF Sim
<1>3. /\ AreSessions(sessions) /\ Used \in Nat /\ Used <= MaxSessions /\ Launched(sessions, Used)
      /\ current \in 0..Used /\ Process(p) /\ (current # 0 => Leads(sessions[current], p))
      /\ Tidings(events, p, current, Used)
  BY AgreeingIsProcess DEF LspInv, Core, Follows
<1>4. IsForward(a, p)
  <2>1. a.sess = sessions /\ a.at = current /\ a.used = Used /\ {"sess", "at", "used"} \subseteq DOMAIN a
    OBVIOUS
  <2>2. Used <= Used
    BY <1>3
  <2>. HIDE DEF a
  <2>. QED BY <1>3, <2>1, <2>2 DEF IsForward
<1>5. a.used = Used
  OBVIOUS
<1>6. List(m.out) /\ \A k \in 1..Len(m.out) :
        /\ m.out[k].t \in Requests /\ (m.out[k].t = "start" => k = 1 /\ a.used < MaxSessions)
        /\ Numbered(m.out[k])
  BY <1>2, <1>5 DEF IsModel
<1>. HIDE DEF a
<1>7. IsForward(b, z)
  BY <1>3, <1>4, <1>5, <1>6, ForwardAll
<1>20. b = Forwarded(m)
  BY DEF Forwarded, a
<1>. HIDE DEF b, z, failed
<1>8. /\ AreSessions(b.sess) /\ b.used \in Nat /\ b.used <= MaxSessions /\ Launched(b.sess, b.used)
      /\ b.at \in 0..b.used /\ Used <= b.used /\ (b.at \in {0, current} \/ b.at > Used)
      /\ (b.at # 0 => Leads(b.sess[b.at], z))
      /\ Tidings(events, z, b.at, b.used)
  BY <1>7 DEF IsForward
<1>9. Used' = b.used
  <2>1. Cardinality({i \in 1..MaxSessions : b.sess[i] # NoSession}) = b.used
    BY <1>8, UsedIs
  <2>. QED BY <1>1, <2>1 DEF Used
<1>10. /\ ModelFields \subseteq DOMAIN m /\ List(m.out)
  BY <1>2 DEF IsModel
<1>11. /\ DOMAIN ed' = DOMAIN m /\ ed'.out = <<>> /\ ed'.text = m.text /\ ed'.pend = m.pend
       /\ ed'.open = m.open /\ ed'.next = m.next /\ ed'.synced = m.synced
       /\ ed'.edit = m.edit /\ ed'.started = m.started /\ ed'.diag = m.diag
  BY <1>1, <1>10 DEF ModelFields
<1>12. ~m.started => sessions' = sessions
  <2>1. ASSUME ~m.started PROVE sessions' = sessions
    <3>. DEFINE o == [op |-> "forward"]
                e == m.out
    <3>1. e = <<>> /\ List(e)
      BY <1>2, <2>1 DEF IsModel
    <3>2. b = Fold(o, a, e)
      BY <3>1, FoldOfForward DEF b
    <3>. HIDE DEF o, e
    <3>3. Fold(o, a, <<>>) = a
      BY <3>1, FoldFacts
    <3>4. b = a
      BY <3>1, <3>2, <3>3
    <3>. QED BY <1>1, <3>4 DEF a
  <2>. QED BY <2>1
<1>13. IsModel(ed)'
  <2>1. (~m.started => NoneStarted')
    BY <1>2, <1>12 DEF IsModel, NoneStarted
  <2>2. Len(<<>>) = 0 /\ List(<<>>)
    BY <1>10, ListFacts
  <2>3. List(ed'.out) /\ Len(ed'.out) = 0
    BY <1>11, <2>2
  <2>4. /\ ModelFields \subseteq DOMAIN ed'
        /\ ed'.text \in [Docs -> Seq(Chars) \cup {None}]
        /\ ed'.pend \in [Docs -> Seq(Changes)]
        /\ ed'.open \in [Docs -> Nat] /\ ed'.next \in Nat
        /\ (\A d \in Docs : ed'.open[d] <= ed'.next)
        /\ ed'.synced \in [Docs -> Seq(Chars)]
        /\ DOMAIN ed'.diag = Docs
        /\ (ed'.edit # None => IsEdit(ed'.edit))
        /\ (~ed'.started => \A d \in Docs : ed'.open[d] = 0)
    BY <1>2, <1>10, <1>11 DEF IsModel
  <2>5. \A k \in 1..Len(ed'.out) : FALSE
    BY <2>3
  <2>. QED BY <1>11, <2>1, <2>3, <2>4, <2>5 DEF IsModel, IsEdit, List
<1>14. AllSettled(ed)'
  BY <1>11 DEF AllSettled, IsSettled
<1>15. Tidings(events', z, b.at, b.used)
  BY <1>8, TailTidings DEF Took
<1>16. Follows(z)'
  <2>1. AgreeBut(ed', z, {})
    BY <1>2, <1>11 DEF AgreeBut
  <2>. QED BY <1>1, <1>8, <1>9, <1>15, <2>1 DEF Follows
<1>17. ShownOk'
  <2>1. ASSUME NEW c, c = b.at \/ c = 0 \/ (c \in Nat /\ c > b.used) PROVE Shown(ed', c)
    <3>1. c = current \/ c = 0 \/ (c \in Nat /\ c > Used)
      BY <1>3, <1>8, <2>1
    <3>2. Shown(m, c)
      BY <3>1, TookFacts
    <3>. QED BY <1>11, <3>2 DEF Shown
  <2>. QED BY <1>1, <1>9, <2>1 DEF ShownOk
<1>18. (\E h : Follows(h))'
  BY <1>16
<1>19. /\ AreSessions(sessions)' /\ (Used \in Nat /\ Used <= MaxSessions)'
       /\ Launched(sessions, Used)' /\ (current \in 0..Used)'
  BY <1>1, <1>8, <1>9
<1>. QED BY <1>9, <1>11, <1>13, <1>14, <1>17, <1>18, <1>19, <1>20 DEF LspInv, Core

-----------------------------------------------------------------------------
(***************************************************************************)
(* The steps of a supervisor and of its process.                           *)
(***************************************************************************)

\* A session whose supervisor has not returned was made.
LEMMA RunningFacts ==
  ASSUME NEW s, IsSession(s), s.stage # "over"
  PROVE  s.gen \in Nat /\ s # NoSession
BY DEF IsSession, NoSession, NewSession

\* What session i says meanwhile names versions that are past.
Speaks(i) ==
  \A h : (i = current => Leads(sessions[i], h)) /\ Tidings(events, h, current, Used)
           => Tidings(events', h, current, Used)

\* One session that is not over takes a step of its own.
LEMMA SessionStep ==
  ASSUME LspInv, NEW i \in 1..MaxSessions, NEW x, sessions' = [sessions EXCEPT ![i] = x],
         ed' = ed, current' = current, sessions[i].stage # "over", IsSession(x),
         StillTold(x, sessions[i]), Speaks(i)
  PROVE  LspInv'
<1>1. /\ AreSessions(sessions) /\ IsModel(ed) /\ ed.out = <<>> /\ Used \in Nat /\ Used <= MaxSessions
      /\ Launched(sessions, Used) /\ current \in 0..Used /\ MaxSessions \in Nat
  BY LspBounds DEF LspInv, Core
<1>2. IsSession(sessions[i])
  BY <1>1 DEF AreSessions
<1>3. sessions[i].gen \in Nat /\ sessions[i] # NoSession
  BY <1>2, RunningFacts
<1>4. AreSessions(sessions') /\ sessions'[i] = x
      /\ \A j \in 1..MaxSessions : j # i => sessions'[j] = sessions[j]
  BY <1>1 DEF AreSessions
<1>5. Launched(sessions', Used)
  BY <1>1, <1>3, <1>4 DEF Launched, StillTold
<1>6. Used' = Used
  <2>. DEFINE q == sessions'
              n == Used
  <2>1. Cardinality({j \in 1..MaxSessions : q[j] # NoSession}) = n
    <3>1. AreSessions(q) /\ n \in Nat /\ n <= MaxSessions /\ Launched(q, n)
      BY <1>1, <1>4, <1>5
    <3>. HIDE DEF q, n
    <3>. QED BY <3>1, UsedIs
  <2>. QED BY <2>1 DEF Used
<1>7. ed.started
  BY <1>1, <1>3 DEF IsModel, NoneStarted
<1>8. IsModel(ed)'
  <2>1. Len(ed.out) = 0
    BY <1>1
  <2>2. \A k \in 1..Len(ed.out) : FALSE
    BY <2>1
  <2>. QED BY <1>1, <1>7, <2>2 DEF IsModel, List
<1>9. AllSettled(ed)'
  BY DEF LspInv, Core, AllSettled, IsSettled
<1>10. PICK h : Follows(h)
  BY DEF LspInv, Core
<1>11. Follows(h)'
  <2>1. AgreeBut(ed', h, {})
    BY <1>10 DEF Follows
  <2>2. current # 0 => Leads(sessions'[current], h)
    <3>1. CASE current = i
      BY <1>1, <1>4, <1>10, <3>1 DEF Follows, StillTold
    <3>2. CASE current # i /\ current # 0
      <4>1. current \in 1..MaxSessions
        BY <1>1, <3>2
      <4>. QED BY <1>4, <1>10, <3>2, <4>1 DEF Follows
    <3>. QED BY <3>1, <3>2
  <2>3. Tidings(events', h, current, Used)
    <3>1. i = current => Leads(sessions[i], h)
      BY <1>10 DEF Follows
    <3>. QED BY <1>10, <3>1 DEF Follows, Speaks
  <2>. QED BY <1>6, <2>1, <2>2, <2>3 DEF Follows
<1>12. (\E g : Follows(g))'
  BY <1>11
<1>13. ShownOk'
  BY <1>6 DEF LspInv, ShownOk
<1>14. /\ (Used \in Nat /\ Used <= MaxSessions)' /\ (current \in 0..Used)'
       /\ Launched(sessions, Used)' /\ AreSessions(sessions)'
  BY <1>1, <1>4, <1>5, <1>6
<1>. QED BY <1>1, <1>8, <1>9, <1>12, <1>13, <1>14 DEF LspInv, Core

\* A message of the server joins the inbox, and its process still holds the same documents.
LEMMA SendsFacts ==
  ASSUME LspInv, NEW i \in 1..MaxSessions, NEW b, IsWork(b),
         b.t \notin {"open", "change", "close", "ask"}, NEW p, ProcFields \subseteq DOMAIN p,
         p.copy = sessions[i].proc.copy, p.seen = sessions[i].proc.seen,
         p.misled = sessions[i].proc.misled,
         \A P : Process(P) /\ Weaker(sessions[i].proc, P) => WorkPast(P, b),
         Sends(i, b, p)
  PROVE  LspInv'
<1>. DEFINE s == sessions[i]
            x == [s EXCEPT !.inbox = Append(@, b), !.proc = p]
<1>1. AreSessions(sessions)
  BY DEF LspInv, Core
<1>2. IsSession(s) /\ i \in DOMAIN sessions
  BY <1>1 DEF AreSessions
<1>3. /\ sessions' = [sessions EXCEPT ![i] = x] /\ ed' = ed /\ current' = current
      /\ events' = events /\ s.proc.alive /\ s.stage # "over"
  BY <1>2 DEF Sends
<1>4. /\ DOMAIN x = DOMAIN s /\ x.inbox = Append(s.inbox, b) /\ x.gen = s.gen
      /\ x.stage = s.stage /\ x.tr = s.tr /\ x.proc = p
  BY <1>2 DEF IsSession
<1>. HIDE DEF x, s
<1>5. List(s.inbox) /\ (\A k \in 1..Len(s.inbox) : IsWork(s.inbox[k])) /\ Process(s.proc)
      /\ s.gen \in Nat
  BY <1>2, <1>3, SessionFacts, RunningFacts
<1>6. List(x.inbox) /\ \A k \in 1..Len(x.inbox) : IsWork(x.inbox[k])
  BY <1>4, <1>5, InboxFacts
<1>7. Process(p)
  BY <1>5 DEF Process, ProcFields, s
<1>8. IsSession(x)
  BY <1>2, <1>4, <1>5, <1>6, <1>7 DEF IsSession
<1>9. ASSUME NEW h, Leads(s, h) PROVE Leads(x, h)
  <2>1. PICK P : Behind(s, P) /\ Same(Told(s, P), h)
    BY <1>3, <1>9 DEF Leads
  <2>2. Process(P) /\ Weaker(s.proc, P) /\ (s.gen = 0 => Same(s.proc, P))
    BY <1>3, <2>1 DEF Behind
  <2>3. Weaker(p, P) /\ (s.gen = 0 => Same(p, P))
    BY <1>5, <1>7, <2>2 DEF Weaker, Same, Process, s
  <2>4. Behind(x, P)
    BY <1>4, <2>2, <2>3 DEF Behind
  <2>5. Told(x, P) = Told(s, P)
    <3>. DEFINE o == [op |-> "reads"]
                c == Fold(o, P, s.tr.queued)
                q == s.inbox
    <3>1. Told(s, P) = Fold(o, c, q) /\ Told(x, P) = Fold(o, c, Append(q, b))
      BY <1>2, <1>4, <1>8, ToldIs
    <3>2. \A a, r : Do(o, a, r) = ServerReads(a, r)
      BY DoFacts
    <3>3. List(q)
      BY <1>5
    <3>. HIDE DEF o, c, q
    <3>4. Fold(o, c, Append(q, b)) = Do(o, Fold(o, c, q), b)
      BY <3>3, FoldFacts
    <3>5. ServerReads(Fold(o, c, q), b) = Fold(o, c, q)
      BY DEF ServerReads
    <3>. QED BY <3>1, <3>2, <3>4, <3>5
  <2>6. WorkPast(h, b)
    <3>1. WorkPast(P, b)
      BY <2>2 DEF s
    <3>2. StaysPast(P, Told(s, P)) /\ StaysPast(Told(s, P), h)
      BY <1>2, <2>1, <2>2, ToldStaysPast, SamePast
    <3>. DEFINE g == Told(s, P)
    <3>. HIDE DEF g
    <3>3. WorkPast(g, b)
      BY <3>1, <3>2, PastStays DEF g
    <3>. QED BY <3>2, <3>3, PastStays DEF g
  <2>7. ASSUME NEW k \in 1..Len(x.inbox) PROVE WorkPast(h, x.inbox[k])
    <3>. DEFINE q == s.inbox
    <3>1. List(q) /\ (\A j \in 1..Len(q) : WorkPast(h, q[j])) /\ x.inbox = Append(q, b)
      BY <1>3, <1>4, <1>5, <1>9 DEF Leads
    <3>. HIDE DEF q
    <3>2. \/ k \in 1..Len(q) /\ x.inbox[k] = q[k]
          \/ x.inbox[k] = b
      BY <2>7, <3>1, InboxFacts
    <3>. QED BY <2>6, <3>1, <3>2
  <2>. QED BY <2>1, <2>4, <2>5, <2>7 DEF Leads
<1>10. StillTold(x, s)
  BY <1>4, <1>5, <1>9 DEF StillTold
<1>11. Speaks(i)
  BY <1>3 DEF Speaks
<1>. QED BY <1>3, <1>8, <1>10, <1>11, SessionStep DEF s

\* A message that is no request is taken.
LEMMA TakeQuiet ==
  ASSUME NEW s, IsSession(s), s.inbox # <<>>, s.stage # "over",
         Head(s.inbox).t \notin {"open", "change", "close", "ask"},
         NEW x, {"inbox", "gen", "stage", "tr", "proc", "lost"} \subseteq DOMAIN x,
         {"ready", "queued", "pending", "cancelled", "progress"} \subseteq DOMAIN x.tr,
         x.inbox = Tail(s.inbox), x.proc = s.proc, x.gen = s.gen,
         x.tr.queued = s.tr.queued, x.tr.ready = s.tr.ready
  PROVE  IsSession(x) /\ StillTold(x, s)
<1>. DEFINE o == [op |-> "reads"]
            r == Head(s.inbox)
            q == s.inbox
<1>1. List(q) /\ q # <<>> /\ \A k \in 1..Len(q) : IsWork(q[k])
  BY SessionFacts
<1>2. s.gen \in Nat
  BY RunningFacts
<1>. HIDE DEF q
<1>3. List(Tail(q)) /\ \A k \in 1..Len(Tail(q)) : IsWork(Tail(q)[k])
  BY <1>1, TailFacts
<1>4. IsSession(x)
  BY <1>2, <1>3 DEF IsSession, q
<1>5. ASSUME NEW p, Behind(s, p)
      PROVE  /\ Behind(x, p)
             /\ Same(Fold(o, p, x.tr.queued), ServerReads(Fold(o, p, s.tr.queued), r))
  <2>. DEFINE c == Fold(o, p, s.tr.queued)
  <2>1. Same(p, p) /\ List(s.tr.queued)
    BY <1>5, SessionFacts DEF Behind, Process, Same
  <2>2. Same(c, c)
    BY <2>1, FoldSame
  <2>. HIDE DEF c
  <2>3. ServerReads(c, r) = c
    BY DEF ServerReads
  <2>. HIDE DEF r
  <2>4. Behind(x, p)
    BY <1>5 DEF Behind
  <2>. QED BY <2>2, <2>3, <2>4 DEF c
<1>6. StillTold(x, s)
  BY <1>2, <1>4, <1>5, TakenLeads DEF o, r
<1>. QED BY <1>4, <1>6

\* Translator::outgoing: queued, or read by the process.
LEMMA OutgoingFacts ==
  ASSUME NEW s, IsSession(s), s.gen \in Nat, NEW r, Numbered(r), NEW x, x = Outgoing(s, r)
  PROVE  /\ IsSession(x) /\ x.inbox = s.inbox /\ x.gen = s.gen /\ x.stage = s.stage
         /\ x.proc.alive = s.proc.alive /\ x.tr.ready = s.tr.ready
         /\ ~s.tr.ready => x.proc = s.proc /\ x.tr.queued = Append(s.tr.queued, r)
         /\ s.tr.ready => x.tr.queued = <<>> /\ Same(x.proc, ServerReads(s.proc, r))
<1>1. /\ {"inbox", "gen", "stage", "tr", "proc", "lost"} \subseteq DOMAIN s
      /\ {"ready", "queued", "pending", "cancelled", "progress"} \subseteq DOMAIN s.tr
      /\ ProcFields \subseteq DOMAIN s.proc /\ Process(s.proc)
      /\ List(s.inbox) /\ List(s.tr.queued) /\ (s.tr.ready => s.tr.queued = <<>>)
      /\ \A k \in 1..Len(s.tr.queued) : Numbered(s.tr.queued[k])
  BY DEF IsSession
<1>2. CASE ~s.tr.ready
  <2>1. x = [s EXCEPT !.tr.queued = Append(@, r)]
    BY <1>2 DEF Outgoing
  <2>2. /\ DOMAIN x = DOMAIN s /\ x.inbox = s.inbox /\ x.gen = s.gen /\ x.stage = s.stage
        /\ x.proc = s.proc /\ DOMAIN x.tr = DOMAIN s.tr /\ x.tr.ready = s.tr.ready
        /\ x.tr.queued = Append(s.tr.queued, r)
    BY <1>1, <2>1
  <2>3. List(x.tr.queued) /\ \A k \in 1..Len(x.tr.queued) : Numbered(x.tr.queued[k])
    <3>. DEFINE q == s.tr.queued
    <3>1. List(q) /\ (\A k \in 1..Len(q) : Numbered(q[k])) /\ x.tr.queued = Append(q, r)
      BY <1>1, <2>2
    <3>. HIDE DEF q
    <3>. QED BY <3>1, InboxFacts
  <2>4. IsSession(x)
    BY <1>2, <2>2, <2>3 DEF IsSession
  <2>. QED BY <1>2, <2>2, <2>4
<1>3. CASE s.tr.ready
  <2>. DEFINE y == ServerReads(s.proc, r)
  <2>1. \/ r.t = "ask" /\ x = [s EXCEPT !.tr.pending = @ \cup {r.id}, !.proc = y]
        \/ r.t = "cancel" /\ x = [s EXCEPT !.tr.cancelled = @ \cup {r.id}]
        \/ r.t = "cancel" /\ x = s
        \/ x = [s EXCEPT !.proc = y]
    BY <1>3 DEF Outgoing
  <2>2. DOMAIN y = DOMAIN s.proc /\ y.alive = s.proc.alive
    BY <1>1 DEF ServerReads, ProcFields
  <2>3. r.t = "cancel" => y = s.proc
    BY DEF ServerReads
  <2>7. Process(y)
    BY <1>1, ReadsProcess
  <2>. HIDE DEF y
  <2>4. /\ DOMAIN x = DOMAIN s /\ x.inbox = s.inbox /\ x.gen = s.gen /\ x.stage = s.stage
        /\ DOMAIN x.tr = DOMAIN s.tr /\ x.tr.ready = s.tr.ready /\ x.tr.queued = s.tr.queued
        /\ x.proc = y
    BY <1>1, <2>1, <2>3
  <2>5. IsSession(x)
    BY <2>2, <2>4, <2>7 DEF IsSession
  <2>6. Same(y, y)
    BY <1>1, <2>2 DEF Same, ProcFields
  <2>. QED BY <1>1, <1>3, <2>2, <2>4, <2>5, <2>6 DEF y
<1>. QED BY <1>2, <1>3

\* A request that is taken reaches the process, or waits until it is ready; one that is taken
\* for a process that is dead is lost, as it would have been with what the process held.
LEMMA OutgoingLeads ==
  ASSUME NEW s, IsSession(s), s.inbox # <<>>, s.stage # "over",
         NEW x, IsSession(x), x.inbox = Tail(s.inbox), x.gen = s.gen,
         \/ /\ ~s.tr.ready /\ x.tr.queued = Append(s.tr.queued, Head(s.inbox)) /\ x.proc = s.proc
         \/ /\ s.tr.ready /\ x.tr.queued = <<>> /\ x.proc.alive = s.proc.alive
            /\ ~s.proc.alive \/ Same(x.proc, ServerReads(s.proc, Head(s.inbox)))
  PROVE  StillTold(x, s)
<1>. DEFINE o == [op |-> "reads"]
            r == Head(s.inbox)
            q == s.tr.queued
            v == s.inbox
<1>1. List(v) /\ v # <<>> /\ \A k \in 1..Len(v) : IsWork(v[k])
  BY SessionFacts
<1>2. Head(v) = v[1] /\ 1 \in 1..Len(v)
  <2>. HIDE DEF v
  <2>. QED BY <1>1, TailFacts
<1>3. Numbered(r)
  BY <1>1, <1>2 DEF IsWork
<1>4. /\ List(q) /\ (s.tr.ready => q = <<>>) /\ Process(s.proc) /\ s.gen \in Nat
      /\ \A k \in 1..Len(q) : Numbered(q[k])
  BY RunningFacts DEF IsSession
<1>5. \A a, y : Do(o, a, y) = ServerReads(a, y)
  BY DoFacts
<1>6. \A b : Fold(o, b, <<>>) = b /\ Fold(o, b, Append(q, r)) = Do(o, Fold(o, b, q), r)
  <2>. HIDE DEF o, q, r
  <2>. QED BY <1>4, FoldFacts
<1>. HIDE DEF r, o
<1>7. ASSUME NEW p, Behind(s, p)
      PROVE  \E c : Behind(x, c) /\ Same(Fold(o, c, x.tr.queued), ServerReads(Fold(o, p, s.tr.queued), r))
  <2>1. Process(p) /\ Same(p, p)
    BY <1>7 DEF Behind, Process, Same
  <2>2. CASE ~s.tr.ready
    <3>1. x.proc = s.proc /\ x.tr.queued = Append(q, r)
      BY <2>2 DEF r
    <3>2. Behind(x, p)
      BY <1>7, <3>1 DEF Behind
    <3>. DEFINE e == Fold(o, p, q)
                n == NewProcess
    <3>3. Process(n) /\ Weaker(n, p)
      BY NewProcessFacts
    <3>. HIDE DEF n
    <3>4. Process(e)
      <4>. HIDE DEF q
      <4>. QED BY <1>4, <2>1, <3>3, FoldWeaker DEF o
    <3>5. Fold(o, p, x.tr.queued) = ServerReads(e, r)
      BY <1>5, <1>6, <3>1
    <3>. HIDE DEF e
    <3>6. Process(ServerReads(e, r))
      BY <1>3, <3>4, ReadsProcess
    <3>7. Same(ServerReads(e, r), ServerReads(e, r))
      BY <3>6 DEF Same, Process
    <3>. QED BY <3>2, <3>5, <3>7 DEF e
  <2>3. CASE s.tr.ready
    <3>. DEFINE c == ServerReads(p, r)
                y == ServerReads(s.proc, r)
    <3>1. q = <<>> /\ x.tr.queued = <<>> /\ x.proc.alive = s.proc.alive
          /\ (~s.proc.alive \/ Same(x.proc, y))
      BY <1>4, <2>3 DEF r
    <3>2. Process(c) /\ Process(y)
      BY <1>3, <1>4, <2>1, ReadsProcess
    <3>3. s.proc.alive => Weaker(y, c) /\ (s.gen = 0 => Same(y, c))
      BY <1>3, <1>4, <1>7, <2>1, ReadsWeaker, ReadsSame DEF Behind
    <3>4. Same(c, c)
      BY <3>2 DEF Same, Process
    <3>. HIDE DEF c, y
    <3>5. Behind(x, c)
      BY <3>1, <3>2, <3>3 DEF Behind, Weaker, Same
    <3>6. Fold(o, c, x.tr.queued) = c /\ Fold(o, p, s.tr.queued) = p
      BY <1>6, <3>1
    <3>. QED BY <3>4, <3>5, <3>6 DEF c
  <2>. QED BY <2>2, <2>3
<1>. QED BY <1>4, <1>7, TakenLeads DEF o, r

\* The handshake: what was queued is sent, in order.
LEMMA ReadyFacts ==
  ASSUME NEW s, IsSession(s), s.gen \in Nat, NEW x, x = Ready(s)
  PROVE  /\ IsSession(x) /\ x.inbox = s.inbox /\ x.gen = s.gen /\ x.stage = s.stage
         /\ x.proc.alive = s.proc.alive /\ x.tr.ready /\ x.tr.queued = <<>>
         /\ Same(x.proc, Fold([op |-> "reads"], s.proc, s.tr.queued))
<1>. DEFINE q == s.tr.queued
            n == Len(q)
            o == [op |-> "outgoing"]
            u == [op |-> "reads"]
            b == [s EXCEPT !.tr.ready = TRUE, !.tr.queued = <<>>]
            Ok(y, z) == /\ IsSession(y) /\ y.inbox = s.inbox /\ y.gen = s.gen /\ y.stage = s.stage
                        /\ y.proc.alive = s.proc.alive /\ y.tr.ready /\ Same(y.proc, z)
<1>1. /\ {"inbox", "gen", "stage", "tr", "proc", "lost"} \subseteq DOMAIN s
      /\ {"ready", "queued", "pending", "cancelled", "progress"} \subseteq DOMAIN s.tr
      /\ ProcFields \subseteq DOMAIN s.proc
      /\ List(s.inbox) /\ List(q) /\ \A k \in 1..Len(q) : Numbered(q[k])
  BY DEF IsSession
<1>2. n \in Nat
  BY <1>1, ListFacts
<1>3. \A a, y : Do(o, a, y) = Outgoing(a, y) /\ Do(u, a, y) = ServerReads(a, y)
  BY DoFacts
<1>4. x = Fold(o, b, q)
  BY <1>1, FoldOfOutgoing DEF Ready
<1>5. /\ DOMAIN b = DOMAIN s /\ b.inbox = s.inbox /\ b.gen = s.gen /\ b.stage = s.stage
      /\ b.proc = s.proc /\ DOMAIN b.tr = DOMAIN s.tr /\ b.tr.ready /\ b.tr.queued = <<>>
  BY <1>1
<1>. HIDE DEF b
<1>6. Ok(b, s.proc)
  <2>1. List(b.tr.queued) /\ Len(b.tr.queued) = 0
    <3>1. List(<<>>) /\ Len(<<>>) = 0
      BY <1>1, ListFacts
    <3>. QED BY <1>5, <3>1
  <2>2. IsSession(b)
    BY <1>5, <2>1 DEF IsSession
  <2>3. Same(s.proc, s.proc)
    BY <1>1 DEF Same, ProcFields
  <2>. QED BY <1>5, <2>2, <2>3
<1>. HIDE DEF o, u, q, n
<1>7. PICK f : IsRun(f, o, b, q, n) /\ Fold(o, b, q) = f[n]
  BY <1>1, FoldIs DEF n
<1>8. PICK g : IsRun(g, u, s.proc, q, n) /\ Fold(u, s.proc, q) = g[n]
  BY <1>1, FoldIs DEF n
<1>. DEFINE T == {k \in Nat : k <= n => Ok(f[k], g[k])}
<1>9. 0 \in T
  BY <1>6, <1>7, <1>8 DEF IsRun
<1>10. ASSUME NEW k \in Nat, k \in T PROVE k + 1 \in T
  <2>1. CASE k + 1 <= n
    <3>1. k + 1 \in 1..n /\ (k + 1) - 1 = k /\ k <= n
      BY <1>2, <2>1
    <3>. DEFINE y == f[k]
                z == g[k]
                r == q[k + 1]
                v == f[k + 1]
                w == g[k + 1]
    <3>2. v = Outgoing(y, r) /\ w = ServerReads(z, r)
      BY <1>3, <1>7, <1>8, <3>1 DEF IsRun
    <3>3. Ok(y, z) /\ Numbered(r)
      BY <1>1, <1>10, <3>1 DEF n
    <3>. HIDE DEF y, z, r, v, w
    <3>4. /\ IsSession(v) /\ v.inbox = y.inbox /\ v.gen = y.gen /\ v.stage = y.stage
          /\ v.proc.alive = y.proc.alive /\ v.tr.ready = y.tr.ready
          /\ Same(v.proc, ServerReads(y.proc, r))
      BY <3>2, <3>3, OutgoingFacts
    <3>5. Same(ServerReads(y.proc, r), ServerReads(z, r))
      BY <3>3, ReadsSame
    <3>6. Same(v.proc, w)
      BY <3>2, <3>4, <3>5 DEF Same
    <3>7. Ok(v, w)
      BY <3>3, <3>4, <3>6
    <3>. QED BY <3>7 DEF v, w
  <2>. QED BY <1>2, <2>1
<1>. HIDE DEF T
<1>11. Nat \subseteq T
  BY <1>9, <1>10, SetInduction
<1>12. n \in T
  BY <1>2, <1>11
<1>13. Ok(x, Fold(u, s.proc, q))
  BY <1>2, <1>4, <1>7, <1>8, <1>12 DEF T
<1>14. x.tr.queued = <<>>
  BY <1>13 DEF IsSession
<1>. QED BY <1>13, <1>14 DEF u, q

\* The process has read, or in a new one lost, what was queued for it.
LEMMA FlushedBehind ==
  ASSUME NEW s, IsSession(s), s.stage # "over", NEW p, Behind(s, p),
         NEW x,
         \/ /\ x.gen = s.gen /\ x.proc.alive = s.proc.alive
            /\ Same(x.proc, Fold([op |-> "reads"], s.proc, s.tr.queued))
         \/ x.gen # 0 /\ x.proc = NewProcess
  PROVE  /\ Behind(x, Fold([op |-> "reads"], p, s.tr.queued))
         /\ Same(Fold([op |-> "reads"], p, s.tr.queued), Fold([op |-> "reads"], p, s.tr.queued))
<1>. DEFINE o == [op |-> "reads"]
            q == s.tr.queued
            c == Fold(o, p, q)
            y == Fold(o, s.proc, q)
            n == NewProcess
<1>1. List(q) /\ (\A k \in 1..Len(q) : Numbered(q[k])) /\ Process(s.proc) /\ Process(p)
  BY DEF IsSession, Behind
<1>2. Process(n) /\ \A b : Weaker(n, b)
  BY NewProcessFacts
<1>. HIDE DEF n, q
<1>3. Process(c)
  BY <1>1, <1>2, FoldWeaker
<1>4. Same(c, c)
  BY <1>3 DEF Same, Process
<1>5. CASE x.proc = n /\ x.gen # 0
  <2>. HIDE DEF c, o
  <2>. QED BY <1>2, <1>3, <1>4, <1>5 DEF Behind, c, o, q
<1>6. CASE x.proc.alive = s.proc.alive /\ x.gen = s.gen /\ Same(x.proc, y)
  <2>1. s.proc.alive => Weaker(y, c) /\ (s.gen = 0 => Same(y, c))
    BY <1>1, FoldWeaker, FoldSame DEF Behind
  <2>. HIDE DEF c, y
  <2>2. Behind(x, c)
    BY <1>3, <1>6, <2>1 DEF Behind, Weaker, Same
  <2>. QED BY <1>4, <2>2 DEF c, o, q
<1>. QED BY <1>5, <1>6 DEF n, q, y, o

\* Events that session s may send: they name versions that are past for what it leads to.
Tells(s, es) ==
  /\ List(es)
  /\ \A k \in 1..Len(es) : IsEvent(es[k]) /\ \A h : Leads(s, h) => EventPast(h, es[k])

\* Events of a session join the channel.
LEMMA EmitFacts ==
  ASSUME LspInv, NEW i \in 1..MaxSessions, sessions[i].gen \in Nat, NEW es,
         Tells(sessions[i], es), Emit(i, es)
  PROVE  Speaks(i)
<1>. SUFFICES ASSUME NEW h, i = current => Leads(sessions[i], h), Tidings(events, h, current, Used)
              PROVE  Tidings(events', h, current, Used)
  BY DEF Speaks
<1>. DEFINE Ok(e) == /\ IsEvent(e) /\ e.from \in 1..Used
                     /\ e.from = current => EventPast(h, e)
            new == [k \in DOMAIN es |-> [es[k] EXCEPT !.from = i]]
            C == {e \in {events[k] : k \in DOMAIN events} \cup {new[k] : k \in DOMAIN es} : Ok(e)}
<1>1. events' = events \o new
  BY DEF Emit
<1>2. DOMAIN es = 1..Len(es) /\ Len(es) \in Nat
  BY ListFacts DEF Tells
<1>3. List(events) /\ (\A k \in 1..Len(events) : Ok(events[k])) /\ DOMAIN events = 1..Len(events)
      /\ Len(events) \in Nat
  <2>1. List(events)
    BY DEF Tidings
  <2>2. DOMAIN events = 1..Len(events) /\ Len(events) \in Nat
    BY <2>1, ListFacts
  <2>. QED BY <2>1, <2>2 DEF Tidings
<1>4. i \in 1..Used
  <2>1. Used \in Nat /\ Launched(sessions, Used)
    BY DEF LspInv, Core
  <2>. QED BY <2>1 DEF Launched
<1>5. ASSUME NEW k \in DOMAIN es PROVE Ok(new[k])
  <2>. DEFINE e == es[k]
              f == [e EXCEPT !.from = i]
  <2>1. IsEvent(e) /\ \A w : Leads(sessions[i], w) => EventPast(w, e)
    BY <1>2, <1>5 DEF Tells
  <2>. HIDE DEF e
  <2>2. DOMAIN f = DOMAIN e /\ (\A x \in DOMAIN e : x # "from" => f[x] = e[x])
        /\ ("from" \in DOMAIN e => f.from = i)
    OBVIOUS
  <2>. HIDE DEF f
  <2>3. e.t = f.t /\ (e.t = "answer" => /\ f.kind = e.kind /\ f.changes = e.changes
                                        /\ f.versions = e.versions /\ f.base = e.base)
        /\ (e.t = "diagnostics" => f.doc = e.doc /\ f.version = e.version /\ f.text = e.text)
    BY <2>1, <2>2 DEF IsEvent
  <2>4. IsEvent(f) /\ f.from = i
    BY <2>1, <2>2, <2>3 DEF IsEvent
  <2>5. ASSUME i = current PROVE EventPast(h, f)
    <3>1. EventPast(h, e)
      BY <2>1, <2>5
    <3>. QED BY <2>3, <3>1 DEF EventPast
  <2>. QED BY <1>4, <2>4, <2>5 DEF f, e
<1>6. new \in Seq(C) /\ events \in Seq(C)
  <2>1. \A k \in DOMAIN es : new[k] \in C
    <3>. HIDE DEF Ok
    <3>. QED BY <1>5
  <2>2. \A k \in DOMAIN events : events[k] \in C
    <3>. HIDE DEF Ok
    <3>. QED BY <1>3
  <2>3. events \in Seq({events[k] : k \in DOMAIN events})
    BY <1>3 DEF List
  <2>4. new = [k \in 1..Len(es) |-> new[k]]
    BY <1>2
  <2>. HIDE DEF C, new
  <2>5. new \in Seq(C)
    BY <1>2, <2>1, <2>4
  <2>6. events = [k \in 1..Len(events) |-> events[k]]
    BY <2>3
  <2>. QED BY <1>3, <2>2, <2>5, <2>6
<1>7. \A e \in C : Ok(e)
  <2>. HIDE DEF Ok
  <2>. QED OBVIOUS
<1>. HIDE DEF C, new, Ok
<1>8. events' \in Seq(C)
  BY <1>1, <1>6
<1>9. List(events') /\ \A k \in 1..Len(events') : Ok(events'[k])
  BY <1>7, <1>8, SequencesAreLists
<1>. QED BY <1>9 DEF Tidings, Ok

\* A list of at most two events, of which the status and a failure name no version.
LEMMA FewEvents ==
  ASSUME NEW s
  PROVE  /\ Tells(s, <<>>)
         /\ \A e : IsEvent(e) /\ (\A h : Leads(s, h) => EventPast(h, e)) => Tells(s, <<e>>)
         /\ \A l : Tells(s, <<Load(l)>>)
         /\ \A id : Tells(s, <<FailedEvent(id)>>)
         /\ \A l, id : Tells(s, <<FailedEvent(id), Load(l)>>)
<1>1. Tells(s, <<>>)
  <2>1. <<>> \in Seq({}) /\ Len(<<>>) = 0
    OBVIOUS
  <2>2. List(<<>>)
    BY <2>1, SequencesAreLists
  <2>. QED BY <2>1, <2>2 DEF Tells
<1>2. ASSUME NEW e, IsEvent(e), \A h : Leads(s, h) => EventPast(h, e)
      PROVE  Tells(s, <<e>>)
  <2>1. <<e>> \in Seq({e}) /\ \A k \in 1..Len(<<e>>) : <<e>>[k] = e
    OBVIOUS
  <2>2. List(<<e>>)
    BY <2>1, SequencesAreLists
  <2>. QED BY <1>2, <2>1, <2>2 DEF Tells
<1>3. ASSUME NEW e, NEW f, IsEvent(e), IsEvent(f), \A h : EventPast(h, e) /\ EventPast(h, f)
      PROVE  Tells(s, <<e, f>>)
  <2>1. <<e, f>> \in Seq({e, f}) /\ \A k \in 1..Len(<<e, f>>) : <<e, f>>[k] = e \/ <<e, f>>[k] = f
    OBVIOUS
  <2>2. List(<<e, f>>)
    BY <2>1, SequencesAreLists
  <2>. QED BY <1>3, <2>1, <2>2 DEF Tells
<1>4. \A l : IsEvent(Load(l)) /\ \A h : EventPast(h, Load(l))
  BY DEF Load, IsEvent, EventPast
<1>5. \A id : IsEvent(FailedEvent(id)) /\ \A h : EventPast(h, FailedEvent(id))
  BY DEF FailedEvent, IsEvent, EventPast
<1>6. \A l, id : Tells(s, <<FailedEvent(id), Load(l)>>)
  <2>. TAKE l, id
  <2>. DEFINE e == FailedEvent(id)
              f == Load(l)
  <2>1. IsEvent(e) /\ IsEvent(f) /\ \A h : EventPast(h, e) /\ EventPast(h, f)
    BY <1>4, <1>5
  <2>. HIDE DEF e, f
  <2>2. Tells(s, <<e, f>>)
    BY <1>3, <2>1
  <2>. QED BY <2>2 DEF e, f
<1>7. \A l : Tells(s, <<Load(l)>>)
  <2>. TAKE l
  <2>. DEFINE e == Load(l)
  <2>1. IsEvent(e) /\ \A h : Leads(s, h) => EventPast(h, e)
    BY <1>4
  <2>. HIDE DEF e
  <2>2. Tells(s, <<e>>)
    BY <1>2, <2>1
  <2>. QED BY <2>2 DEF e
<1>8. \A id : Tells(s, <<FailedEvent(id)>>)
  <2>. TAKE id
  <2>. DEFINE e == FailedEvent(id)
  <2>1. IsEvent(e) /\ \A h : Leads(s, h) => EventPast(h, e)
    BY <1>5
  <2>. HIDE DEF e
  <2>2. Tells(s, <<e>>)
    BY <1>2, <2>1
  <2>. QED BY <2>2 DEF e
<1>9. \A e : IsEvent(e) /\ (\A h : Leads(s, h) => EventPast(h, e)) => Tells(s, <<e>>)
  BY <1>2
<1>. QED BY <1>1, <1>6, <1>7, <1>8, <1>9

\* A supervisor that returns tells its process nothing more.
LEMMA OverFacts ==
  ASSUME NEW s, IsSession(s), s.gen \in Nat,
         NEW x, {"inbox", "gen", "stage", "tr", "proc", "lost"} \subseteq DOMAIN x, x.tr = s.tr,
         x.gen = s.gen, x.stage = "over", x.inbox = <<>>,
         ProcFields \subseteq DOMAIN x.proc, x.proc.copy = s.proc.copy, x.proc.seen = s.proc.seen,
         x.proc.misled = s.proc.misled
  PROVE  IsSession(x) /\ StillTold(x, s)
<1>1. List(<<>>) /\ Len(<<>>) = 0
  <2>1. <<>> \in Seq({}) /\ Len(<<>>) = 0
    OBVIOUS
  <2>. QED BY <2>1, SequencesAreLists
<1>2. Process(x.proc)
  BY DEF IsSession, Process, ProcFields
<1>3. List(x.inbox) /\ Len(x.inbox) = 0
  BY <1>1
<1>4. IsSession(x)
  BY <1>2, <1>3 DEF IsSession
<1>. QED BY <1>4 DEF StillTold, Leads

\* A supervisor's step.
LEMMA SupervisorStep ==
  ASSUME LspInv, NEW i \in 1..MaxSessions, Supervisor(i)
  PROVE  LspInv'
<1>. DEFINE s == sessions[i]
            r == Rest(i)
            h == Head(s.inbox)
            o == [op |-> "reads"]
<1>1. IsSession(s)
  BY DEF LspInv, Core, AreSessions
<1>2. /\ {"inbox", "gen", "stage", "tr", "proc", "lost"} \subseteq DOMAIN s
      /\ {"ready", "queued", "pending", "cancelled", "progress"} \subseteq DOMAIN s.tr
      /\ ProcFields \subseteq DOMAIN s.proc
      /\ List(s.inbox) /\ \A k \in 1..Len(s.inbox) : IsWork(s.inbox[k])
  BY <1>1 DEF IsSession
<1>3. ASSUME s.inbox # <<>>, s.stage # "over"
      PROVE  /\ DOMAIN r = DOMAIN s /\ r.inbox = Tail(s.inbox) /\ r.gen = s.gen /\ r.stage = s.stage
             /\ r.tr = s.tr /\ r.proc = s.proc /\ IsSession(r) /\ IsWork(h) /\ s.gen \in Nat
             /\ \A w : Leads(s, w) => WorkPast(w, h)
  <2>1. /\ DOMAIN r = DOMAIN s /\ r.inbox = Tail(s.inbox) /\ r.gen = s.gen /\ r.stage = s.stage
        /\ r.tr = s.tr /\ r.proc = s.proc
    BY <1>2 DEF Rest
  <2>. DEFINE q == s.inbox
              t == Tail(q)
  <2>2. List(q) /\ q # <<>> /\ (\A k \in 1..Len(q) : IsWork(q[k])) /\ s.gen \in Nat
    BY <1>1, <1>2, <1>3, RunningFacts
  <2>. HIDE DEF q
  <2>3. /\ List(t) /\ Head(q) = q[1] /\ 1 \in 1..Len(q)
        /\ \A k \in 1..Len(t) : k + 1 \in 1..Len(q) /\ t[k] = q[k + 1]
    BY <2>2, TailFacts
  <2>. HIDE DEF t
  <2>4. r.inbox = t
    BY <2>1 DEF t, q
  <2>5. \A w : Leads(s, w) => WorkPast(w, h)
    BY <1>3, <2>3 DEF Leads, q
  <2>. HIDE DEF r, s, h
  <2>6. IsSession(r)
    BY <1>1, <2>1, <2>2, <2>3, <2>4 DEF IsSession
  <2>7. IsWork(h)
    BY <2>2, <2>3 DEF h, q
  <2>. QED BY <2>1, <2>2, <2>5, <2>6, <2>7
<1>4. ASSUME NEW x, Becomes(i, x), s.stage # "over", IsSession(x), StillTold(x, s), UNCHANGED events
      PROVE  LspInv'
  <2>1. Speaks(i)
    BY <1>4 DEF Speaks
  <2>. QED BY <1>4, <2>1, SessionStep DEF Becomes
<1>5. ASSUME NEW x, Becomes(i, x), s.stage # "over", IsSession(x), StillTold(x, s),
             NEW es, Tells(s, es), Emit(i, es)
      PROVE  LspInv'
  <2>1. s.gen \in Nat
    BY <1>1, <1>5, RunningFacts
  <2>2. Speaks(i)
    BY <1>5, <2>1, EmitFacts
  <2>. QED BY <1>5, <2>2, SessionStep DEF Becomes
<1>6. \A kind : Takes(i, kind) => s.stage = "running" /\ s.stage # "over" /\ s.inbox # <<>> /\ h.t \in kind
  BY DEF Takes
<1>. HIDE DEF s, r, h
<1>7. ASSUME s.inbox # <<>>, s.stage # "over", h.t \notin {"open", "change", "close", "ask"}, NEW x,
             DOMAIN x = DOMAIN s, DOMAIN x.tr = DOMAIN s.tr, x.inbox = Tail(s.inbox),
             x.proc = s.proc, x.gen = s.gen,
             x.tr.queued = s.tr.queued, x.tr.ready = s.tr.ready
      PROVE  IsSession(x) /\ StillTold(x, s)
  BY <1>1, <1>2, <1>7, TakeQuiet DEF h
<1>8. ASSUME s.inbox # <<>>, s.stage # "over",
             NEW x, x = [r EXCEPT !.stage = "over", !.proc.alive = FALSE, !.inbox = <<>>]
      PROVE  IsSession(x) /\ StillTold(x, s)
  <2>1. /\ DOMAIN x = DOMAIN s /\ DOMAIN x.proc = DOMAIN s.proc /\ x.tr = s.tr /\ x.gen = s.gen
        /\ x.stage = "over" /\ x.inbox = <<>> /\ x.proc.copy = s.proc.copy
        /\ x.proc.seen = s.proc.seen /\ x.proc.misled = s.proc.misled /\ s.gen \in Nat
    <3>1. /\ DOMAIN r = DOMAIN s /\ r.tr = s.tr /\ r.gen = s.gen /\ r.proc = s.proc /\ s.gen \in Nat
      BY <1>3, <1>8
    <3>2. "stage" \in DOMAIN r /\ "proc" \in DOMAIN r /\ "inbox" \in DOMAIN r
          /\ "tr" \in DOMAIN r /\ "gen" \in DOMAIN r
      BY <1>2, <3>1
    <3>3. /\ DOMAIN x = DOMAIN r /\ x.tr = r.tr /\ x.gen = r.gen /\ x.stage = "over"
          /\ x.inbox = <<>> /\ x.proc = [r.proc EXCEPT !.alive = FALSE]
      BY <1>8, <3>2
    <3>. DEFINE q == s.proc
                y == x.proc
    <3>4. y = [q EXCEPT !.alive = FALSE]
      BY <3>1, <3>3
    <3>5. {"alive", "copy", "seen", "misled"} \subseteq DOMAIN q
      BY <1>2 DEF ProcFields
    <3>. HIDE DEF q, y
    <3>6. DOMAIN y = DOMAIN q /\ y.copy = q.copy /\ y.seen = q.seen /\ y.misled = q.misled
      BY <3>4, <3>5
    <3>. QED BY <3>1, <3>3, <3>6 DEF q, y
  <2>. QED BY <1>1, <1>2, <2>1, OverFacts
<1>9. ASSUME s.stage = "backoff", NEW x, x = [s EXCEPT !.stage = "over", !.inbox = <<>>]
      PROVE  IsSession(x) /\ StillTold(x, s)
  <2>1. /\ DOMAIN x = DOMAIN s /\ x.proc = s.proc /\ x.tr = s.tr /\ x.gen = s.gen
        /\ x.stage = "over" /\ x.inbox = <<>> /\ s.gen \in Nat
    BY <1>1, <1>2, <1>9, RunningFacts
  <2>. QED BY <1>1, <1>2, <2>1, OverFacts
<1>10. CASE TakeRequest(i)
  <2>1. /\ s.stage = "running" /\ s.stage # "over" /\ s.inbox # <<>>
        /\ h.t \in {"open", "change", "close", "ask", "cancel"}
    BY <1>6, <1>10 DEF TakeRequest
  <2>2. CASE Becomes(i, Outgoing(r, h)) /\ UNCHANGED events
    <3>. DEFINE x == Outgoing(r, h)
    <3>1. Numbered(h) /\ r.gen \in Nat /\ IsSession(r)
      BY <1>3, <2>1 DEF IsWork
    <3>2. /\ IsSession(x) /\ x.inbox = r.inbox /\ x.gen = r.gen
          /\ x.proc.alive = r.proc.alive
          /\ ~r.tr.ready => x.proc = r.proc /\ x.tr.queued = Append(r.tr.queued, h)
          /\ r.tr.ready => x.tr.queued = <<>> /\ Same(x.proc, ServerReads(r.proc, h))
      BY <3>1, OutgoingFacts
    <3>. HIDE DEF x
    <3>3. /\ x.inbox = Tail(s.inbox) /\ x.gen = s.gen
          /\ \/ ~s.tr.ready /\ x.tr.queued = Append(s.tr.queued, h) /\ x.proc = s.proc
             \/ /\ s.tr.ready /\ x.tr.queued = <<>> /\ x.proc.alive = s.proc.alive
                /\ ~s.proc.alive \/ Same(x.proc, ServerReads(s.proc, h))
      BY <1>3, <2>1, <3>2
    <3>4. StillTold(x, s)
      BY <1>1, <2>1, <3>2, <3>3, OutgoingLeads DEF h
    <3>5. Becomes(i, x)
      BY <2>2 DEF x
    <3>. QED BY <1>4, <2>1, <2>2, <3>2, <3>4, <3>5
  <2>3. CASE /\ ~s.proc.alive /\ s.tr.ready
             /\ Becomes(i, [r EXCEPT !.stage = "backoff", !.lost = @ \cup AskedIn(<<h>>)])
             /\ Emit(i, <<FailedEvent(0), Load("Stale")>>)
    <3>. DEFINE x == [r EXCEPT !.stage = "backoff", !.lost = @ \cup AskedIn(<<h>>)]
                es == <<FailedEvent(0), Load("Stale")>>
    <3>1. /\ DOMAIN x = DOMAIN r /\ x.inbox = r.inbox /\ x.gen = r.gen /\ x.stage = "backoff"
          /\ x.tr = r.tr /\ x.proc = r.proc /\ IsSession(r) /\ r.tr = s.tr /\ r.proc = s.proc
          /\ r.inbox = Tail(s.inbox) /\ r.gen = s.gen /\ s.gen \in Nat
      BY <1>2, <1>3, <2>1
    <3>2. Becomes(i, x) /\ Emit(i, es)
      BY <2>3
    <3>3. Tells(s, es)
      BY FewEvents
    <3>. HIDE DEF x, es
    <3>4. s.tr.queued = <<>>
      BY <1>1, <2>3 DEF IsSession
    <3>5. IsSession(x)
      BY <3>1 DEF IsSession
    <3>6. StillTold(x, s)
      BY <1>1, <2>1, <2>3, <3>1, <3>4, <3>5, OutgoingLeads
    <3>. QED BY <1>5, <2>1, <3>2, <3>3, <3>5, <3>6
  <2>. QED BY <1>10, <2>2, <2>3 DEF TakeRequest, r, s, h
<1>11. CASE TakeHandshake(i)
  <2>1. s.stage = "running" /\ s.stage # "over" /\ s.inbox # <<>> /\ h.t = "initialized"
    BY <1>6, <1>11 DEF TakeHandshake
  <2>2. CASE Becomes(i, Ready(r)) /\ Emit(i, <<Load("Ready")>>)
    <3>. DEFINE x == Ready(r)
                es == <<Load("Ready")>>
    <3>1. IsSession(r) /\ r.proc = s.proc /\ r.tr = s.tr /\ r.inbox = Tail(s.inbox)
          /\ r.gen = s.gen /\ s.gen \in Nat
      BY <1>3, <2>1
    <3>2. /\ IsSession(x) /\ x.inbox = r.inbox /\ x.gen = r.gen
          /\ x.proc.alive = r.proc.alive /\ x.tr.queued = <<>>
          /\ Same(x.proc, Fold([op |-> "reads"], r.proc, r.tr.queued))
      BY <3>1, ReadyFacts
    <3>3. Becomes(i, x) /\ Emit(i, es) /\ Tells(s, es)
      BY <2>2, FewEvents
    <3>. HIDE DEF x, es
    <3>4. /\ x.inbox = Tail(s.inbox) /\ x.gen = s.gen /\ x.gen \in Nat
          /\ x.proc.alive = s.proc.alive /\ Same(x.proc, Fold(o, s.proc, s.tr.queued))
      BY <3>1, <3>2
    <3>5. ASSUME NEW p, Behind(s, p)
          PROVE  \E c : /\ Behind(x, c)
                        /\ Same(Fold(o, c, x.tr.queued), ServerReads(Fold(o, p, s.tr.queued), h))
      <4>. DEFINE c == Fold(o, p, s.tr.queued)
      <4>1. Behind(x, c) /\ Same(c, c)
        BY <1>1, <2>1, <3>4, <3>5, FlushedBehind
      <4>2. ServerReads(c, h) = c
        BY <2>1 DEF ServerReads
      <4>3. List(s.inbox)
        BY <1>2
      <4>. HIDE DEF o, c
      <4>4. Fold(o, c, <<>>) = c
        BY <4>3, FoldFacts
      <4>5. Fold(o, c, x.tr.queued) = c
        BY <3>2, <4>4
      <4>6. Same(Fold(o, c, x.tr.queued), ServerReads(c, h))
        BY <4>1, <4>2, <4>5
      <4>. QED BY <4>1, <4>6 DEF c
    <3>6. StillTold(x, s)
      BY <1>1, <2>1, <3>2, <3>4, <3>5, TakenLeads DEF h
    <3>. QED BY <1>5, <2>1, <3>2, <3>3, <3>6
  <2>3. CASE /\ Becomes(i, [r EXCEPT !.stage = "over", !.proc.alive = FALSE, !.inbox = <<>>])
             /\ Emit(i, <<FailedEvent(0)>>)
    <3>. DEFINE x == [r EXCEPT !.stage = "over", !.proc.alive = FALSE, !.inbox = <<>>]
                es == <<FailedEvent(0)>>
    <3>1. IsSession(x) /\ StillTold(x, s)
      BY <1>8, <2>1
    <3>2. Tells(s, es)
      BY FewEvents
    <3>3. Becomes(i, x) /\ Emit(i, es)
      BY <2>3
    <3>. HIDE DEF es, x
    <3>. QED BY <1>5, <2>1, <3>1, <3>2, <3>3
  <2>. QED BY <1>11, <2>2, <2>3 DEF TakeHandshake, r
<1>12. CASE TakeAnswer(i)
  <2>1. s.stage = "running" /\ s.stage # "over" /\ s.inbox # <<>> /\ h.t = "response"
    BY <1>6, <1>12 DEF TakeAnswer
  <2>. DEFINE x == Settled(r, h.id)
              es == AnswerEvents(s, h)
  <2>2. Becomes(i, x) /\ Emit(i, es)
    BY <1>12 DEF TakeAnswer, s, r, h
  <2>3. /\ DOMAIN x = DOMAIN s /\ DOMAIN x.tr = DOMAIN s.tr /\ x.inbox = Tail(s.inbox)
        /\ x.proc = s.proc /\ x.gen = s.gen
        /\ x.tr.queued = s.tr.queued /\ x.tr.ready = s.tr.ready
    BY <1>2, <1>3, <2>1 DEF Settled
  <2>4. Tells(s, es)
    <3>1. h.ok => IsEvent(h.event) /\ \A w : Leads(s, w) => EventPast(w, h.event)
      BY <1>3, <2>1 DEF IsWork, WorkPast
    <3>2. es = <<>> \/ (h.ok /\ es = <<h.event>>) \/ es = <<FailedEvent(h.id)>>
      BY DEF AnswerEvents
    <3>. HIDE DEF es
    <3>3. CASE es = <<>>
      BY <3>3, FewEvents
    <3>4. CASE h.ok /\ es = <<h.event>>
      <4>. DEFINE e == h.event
      <4>1. IsEvent(e) /\ (\A w : Leads(s, w) => EventPast(w, e)) /\ es = <<e>>
        BY <3>1, <3>4
      <4>. HIDE DEF e
      <4>2. Tells(s, <<e>>)
        BY <4>1, FewEvents
      <4>. QED BY <4>1, <4>2
    <3>5. CASE es = <<FailedEvent(h.id)>>
      BY <3>5, FewEvents
    <3>. QED BY <3>2, <3>3, <3>4, <3>5
  <2>. HIDE DEF x, es
  <2>5. IsSession(x) /\ StillTold(x, s)
    BY <1>7, <2>1, <2>3
  <2>. QED BY <1>5, <2>1, <2>2, <2>4, <2>5
<1>13. CASE TakeDiagnostics(i)
  <2>1. s.stage = "running" /\ s.stage # "over" /\ s.inbox # <<>> /\ h.t = "publish"
    BY <1>6, <1>13 DEF TakeDiagnostics
  <2>. DEFINE e == h.event
              es == <<e>>
  <2>2. Becomes(i, r) /\ Emit(i, es)
    <3>1. Emit(i, <<Head(sessions[i].inbox).event>>) /\ Becomes(i, Rest(i))
      BY <1>13 DEF TakeDiagnostics
    <3>2. e = Head(sessions[i].inbox).event /\ r = Rest(i)
      BY DEF r, h, s
    <3>. HIDE DEF e
    <3>. QED BY <3>1, <3>2
  <2>3. IsEvent(e) /\ \A w : Leads(s, w) => EventPast(w, e)
    BY <1>3, <2>1 DEF IsWork, WorkPast
  <2>. HIDE DEF e
  <2>4. Tells(s, es)
    BY <2>3, FewEvents
  <2>5. IsSession(r) /\ StillTold(r, s)
    BY <1>3, <1>7, <2>1
  <2>. HIDE DEF es
  <2>. QED BY <1>5, <2>1, <2>2, <2>4, <2>5
<1>14. CASE TakeProgress(i)
  <2>1. s.stage = "running" /\ s.stage # "over" /\ s.inbox # <<>> /\ h.t = "progress"
    BY <1>6, <1>14 DEF TakeProgress
  <2>. DEFINE x == [r EXCEPT !.tr.progress = ProgressOf(s, h)]
              es == ProgressEvents(s, h)
  <2>2. Becomes(i, x) /\ Emit(i, es)
    BY <1>14 DEF TakeProgress, s, r, h
  <2>3. /\ DOMAIN x = DOMAIN s /\ DOMAIN x.tr = DOMAIN s.tr /\ x.inbox = Tail(s.inbox)
        /\ x.proc = s.proc /\ x.gen = s.gen
        /\ x.tr.queued = s.tr.queued /\ x.tr.ready = s.tr.ready
    BY <1>2, <1>3, <2>1
  <2>4. Tells(s, es)
    <3>1. es = <<>> \/ es = <<Load("Indexing")>> \/ es = <<Load("Ready")>>
      BY DEF ProgressEvents
    <3>2. Tells(s, <<>>) /\ Tells(s, <<Load("Indexing")>>) /\ Tells(s, <<Load("Ready")>>)
      BY FewEvents
    <3>. QED BY <3>1, <3>2
  <2>. HIDE DEF x, es
  <2>5. IsSession(x) /\ StillTold(x, s)
    BY <1>7, <2>1, <2>3
  <2>. QED BY <1>5, <2>1, <2>2, <2>4, <2>5
<1>15. CASE TakeStale(i)
  <2>1. /\ s.stage = "running" /\ s.stage # "over" /\ s.inbox # <<>>
        /\ h.t \in {"initialized", "response", "publish", "progress", "gone"}
    BY <1>6, <1>15 DEF TakeStale
  <2>2. Becomes(i, r) /\ UNCHANGED events
    BY <1>15 DEF TakeStale, r
  <2>3. IsSession(r) /\ StillTold(r, s)
    BY <1>3, <1>7, <2>1
  <2>. QED BY <1>4, <2>1, <2>2, <2>3
<1>16. CASE TakeGone(i)
  <2>1. s.stage = "running" /\ s.stage # "over" /\ s.inbox # <<>> /\ h.t = "gone"
    BY <1>6, <1>16 DEF TakeGone
  <2>. DEFINE x == [r EXCEPT !.stage = "backoff"]
              es == <<Load("Stale")>>
  <2>2. Becomes(i, x) /\ Emit(i, es)
    BY <1>16 DEF TakeGone, r
  <2>3. /\ DOMAIN x = DOMAIN s /\ x.tr = s.tr /\ x.inbox = Tail(s.inbox) /\ x.proc = s.proc
        /\ x.gen = s.gen
    BY <1>2, <1>3, <2>1
  <2>4. Tells(s, es)
    BY FewEvents
  <2>. HIDE DEF x, es
  <2>5. IsSession(x) /\ StillTold(x, s)
    BY <1>7, <2>1, <2>3
  <2>. QED BY <1>5, <2>1, <2>2, <2>4, <2>5
<1>17. CASE TakeShutdown(i)
  <2>1. s.stage = "running" /\ s.stage # "over" /\ s.inbox # <<>>
    BY <1>6, <1>17 DEF TakeShutdown
  <2>. DEFINE x == [r EXCEPT !.stage = "over", !.proc.alive = FALSE, !.inbox = <<>>]
  <2>2. Becomes(i, x) /\ UNCHANGED events
    BY <1>17 DEF TakeShutdown, r
  <2>3. IsSession(x) /\ StillTold(x, s)
    BY <1>8, <2>1
  <2>. HIDE DEF x
  <2>. QED BY <1>4, <2>1, <2>2, <2>3
<1>18. CASE Relaunch(i)
  <2>1. s.stage = "backoff" /\ s.stage # "over"
    BY <1>18 DEF Relaunch, s
  <2>2. CASE /\ Becomes(i, [s EXCEPT !.gen = @ + 1, !.stage = "running",
                                    !.tr = NewTranslator, !.proc = NewProcess,
                                    !.lost = @ \cup s.tr.pending \cup AskedIn(s.tr.queued)])
             /\ Emit(i, <<Load("Starting")>>)
    <3>. DEFINE x == [s EXCEPT !.gen = @ + 1, !.stage = "running",
                               !.tr = NewTranslator, !.proc = NewProcess,
                               !.lost = @ \cup s.tr.pending \cup AskedIn(s.tr.queued)]
                es == <<Load("Starting")>>
    <3>1. Becomes(i, x) /\ Emit(i, es) /\ Tells(s, es)
      BY <2>2, FewEvents
    <3>2. /\ DOMAIN x = DOMAIN s /\ x.gen = s.gen + 1 /\ x.tr = NewTranslator
          /\ x.proc = NewProcess /\ x.inbox = s.inbox /\ s.gen \in Nat
      BY <1>1, <1>2, <2>1, RunningFacts
    <3>. HIDE DEF x, es
    <3>3. x.gen \in Nat /\ x.gen # 0
      BY <3>2
    <3>4. List(x.tr.queued) /\ Len(x.tr.queued) = 0 /\ x.tr.queued = <<>>
      <4>1. x.tr.queued = <<>>
        BY <3>2 DEF NewTranslator
      <4>2. List(<<>>) /\ Len(<<>>) = 0
        BY <1>2, ListFacts
      <4>. QED BY <4>1, <4>2
    <3>5. /\ {"ready", "queued", "pending", "cancelled", "progress"} \subseteq DOMAIN x.tr
          /\ x.tr.ready = FALSE /\ ProcFields \subseteq DOMAIN x.proc /\ Process(x.proc)
      BY <3>2, NewProcessFacts DEF NewTranslator, NewProcess, ProcFields
    <3>6. IsSession(x)
      BY <1>2, <3>2, <3>3, <3>4, <3>5 DEF IsSession
    <3>7. ASSUME NEW w, Leads(s, w) PROVE Leads(x, w)
      <4>1. PICK p : Behind(s, p) /\ Same(Told(s, p), w)
        BY <2>1, <3>7 DEF Leads
      <4>. DEFINE c == Fold(o, p, s.tr.queued)
      <4>2. Behind(x, c)
        BY <1>1, <2>1, <3>2, <3>3, <4>1, FlushedBehind
      <4>3. Told(s, p) = Fold(o, c, s.inbox) /\ Told(x, c) = Fold(o, Fold(o, c, x.tr.queued), x.inbox)
        BY <1>1, <3>6, ToldIs
      <4>. HIDE DEF o, c
      <4>4. Fold(o, c, <<>>) = c
        BY <1>2, FoldFacts
      <4>5. Told(x, c) = Told(s, p)
        BY <3>2, <3>4, <4>3, <4>4
      <4>6. Same(Told(x, c), w)
        BY <4>1, <4>5
      <4>7. \A k \in 1..Len(x.inbox) : WorkPast(w, x.inbox[k])
        BY <2>1, <3>2, <3>7 DEF Leads
      <4>. QED BY <4>2, <4>6, <4>7 DEF Leads
    <3>8. StillTold(x, s)
      BY <3>3, <3>7 DEF StillTold
    <3>. QED BY <1>5, <2>1, <3>1, <3>6, <3>8
  <2>3. CASE /\ Becomes(i, [s EXCEPT !.stage = "over", !.inbox = <<>>])
             /\ Emit(i, <<FailedEvent(0)>>)
    <3>. DEFINE x == [s EXCEPT !.stage = "over", !.inbox = <<>>]
                es == <<FailedEvent(0)>>
    <3>1. IsSession(x) /\ StillTold(x, s)
      BY <1>9, <2>1
    <3>2. Tells(s, es)
      BY FewEvents
    <3>3. Becomes(i, x) /\ Emit(i, es)
      BY <2>3
    <3>. HIDE DEF es, x
    <3>. QED BY <1>5, <2>1, <3>1, <3>2, <3>3
  <2>. QED BY <1>18, <2>2, <2>3 DEF Relaunch, s
<1>19. CASE GiveUp(i)
  <2>1. s.stage = "backoff" /\ s.stage # "over"
    BY <1>19 DEF GiveUp, s
  <2>. DEFINE x == [s EXCEPT !.stage = "over", !.inbox = <<>>]
              es == <<Load("Unavailable")>>
  <2>2. IsSession(x) /\ StillTold(x, s)
    BY <1>9, <2>1
  <2>3. Tells(s, es)
    BY FewEvents
  <2>4. Becomes(i, x) /\ Emit(i, es)
    BY <1>19 DEF GiveUp, s
  <2>. HIDE DEF es, x
  <2>. QED BY <1>5, <2>1, <2>2, <2>3, <2>4
<1>. QED
  BY <1>10, <1>11, <1>12, <1>13, <1>14, <1>15, <1>16, <1>17, <1>18, <1>19 DEF Supervisor


\* The texts are texts, and a change of one fits it.
LEMMA ChangesFit ==
  ASSUME NEW t \in Seq(Chars), NEW c \in ChangesOf(t)
  PROVE  c \in Changes /\ c.len = Len(t)
<1>1. Texts \subseteq Seq(Chars)
  BY LspBounds DEF Texts
<1>2. PICK a \in 0..MaxLen, k \in 0..MaxLen, w \in Texts :
        c = Change(t, a, k, w) /\ c.at + c.del <= Len(t)
  BY DEF ChangesOf
<1>3. c = [len |-> Len(t), at |-> a, del |-> k, ins |-> w]
  BY <1>2 DEF Change
<1>4. Len(t) \in Nat /\ a \in Nat /\ k \in Nat /\ w \in Seq(Chars) /\ a + k <= Len(t)
  BY <1>1, <1>2, <1>3, LspBounds
<1>. HIDE DEF Texts
<1>. QED BY <1>3, <1>4 DEF Changes

\* What a server makes of a request is made for texts, and names the versions it has seen
\* of the documents it holds.
LEMMA AnswersFit ==
  ASSUME NEW p, NEW r, NEW a \in AnswersTo(p, r)
  PROVE  /\ r.kind = "formatting" => DOMAIN a.changes # {}
         /\ r.kind \in EditKinds =>
              /\ DOMAIN a.changes \subseteq Docs
              /\ \A d \in DOMAIN a.changes : a.changes[d] \in Changes
         /\ \A d \in DOMAIN a.versions :
              d \in Docs /\ p.copy[d] # None /\ a.versions[d] = p.seen[d]
<1>. DEFINE C == UNION {ChangesOf(t) : t \in Texts}
<1>1. C \subseteq Changes
  <2>1. ASSUME NEW c \in C PROVE c \in Changes
    <3>1. PICK t \in Texts : c \in ChangesOf(t)
      BY <2>1
    <3>2. t \in Seq(Chars)
      BY LspBounds DEF Texts
    <3>. QED BY <3>1, <3>2, ChangesFit
  <2>. QED BY <2>1
<1>. DEFINE held == {d \in Docs : p.copy[d] # None}
            Fits(ds, f) == \A d \in ds : /\ ~IsIdentity(f[d])
                                         /\ d \in held => f[d] \in ChangesOf(p.copy[d])
                                         /\ d \notin held => f[d].len = 0
            Edits(ds, vs) == {[changes |-> f, versions |-> [d \in vs |-> p.seen[d]]] :
                                f \in {x \in [ds -> C] : Fits(ds, x)}}
<1>0. /\ r.kind = "formatting" => a \in (IF r.doc \in held THEN Edits({r.doc}, {}) ELSE {})
      /\ r.kind = "rename" => a \in Edits(Docs, held)
      /\ r.kind \notin {"formatting", "rename"} => a = [changes |-> <<>>, versions |-> <<>>]
  BY DEF AnswersTo
<1>. HIDE DEF Fits, C
<1>4. \A ds, vs : a \in Edits(ds, vs) => a.changes \in [ds -> C]
  OBVIOUS
<1>5. \A ds, vs : a \in Edits(ds, vs) => a.versions = [d \in vs |-> p.seen[d]]
  OBVIOUS
<1>6. \A d \in held : d \in Docs /\ p.copy[d] # None
  OBVIOUS
<1>. HIDE DEF Edits, held
<1>2. CASE r.kind = "formatting"
  <2>1. r.doc \in Docs /\ a.changes \in [{r.doc} -> C]
    BY <1>0, <1>2, <1>4, <1>6
  <2>2. a.versions = [d \in {} |-> p.seen[d]]
    BY <1>0, <1>2, <1>5
  <2>. QED BY <1>1, <1>2, <2>1, <2>2
<1>3. CASE r.kind = "rename"
  <2>1. a.changes \in [Docs -> C]
    BY <1>0, <1>3, <1>4
  <2>2. a.versions = [d \in held |-> p.seen[d]]
    BY <1>0, <1>3, <1>5
  <2>. QED BY <1>1, <1>3, <1>6, <2>1, <2>2
<1>7. CASE r.kind \notin {"formatting", "rename"}
  <2>1. a.versions = <<>>
    BY <1>0, <1>7
  <2>2. DOMAIN a.versions = {}
    BY <2>1
  <2>. QED BY <1>7, <2>2 DEF EditKinds
<1>. QED BY <1>2, <1>3, <1>7

\* A step of the process, which the code takes as it comes.
LEMMA ServerStep ==
  ASSUME LspInv, NEW i \in 1..MaxSessions, Server(i)
  PROVE  LspInv'
<1>. DEFINE s == sessions[i]
            g == s.proc
<1>1. ProcFields \subseteq DOMAIN g
  BY DEF LspInv, Core, AreSessions, IsSession
<1>2. ASSUME NEW b, IsWork(b), b.t \notin {"open", "change", "close", "ask"}, NEW p,
             ProcFields \subseteq DOMAIN p, p.copy = g.copy, p.seen = g.seen,
             p.misled = g.misled, \A P : Process(P) /\ Weaker(g, P) => WorkPast(P, b),
             Sends(i, b, p)
      PROVE  LspInv'
  BY <1>2, SendsFacts
<1>. HIDE DEF g, s
<1>8. ASSUME NEW P, Process(P), Weaker(g, P), NEW d \in Docs, g.copy[d] # None
      PROVE  Past(P, d, g.seen[d], g.copy[d])
  <2>1. P.copy[d] = g.copy[d] /\ P.seen[d] = g.seen[d] /\ P.seen[d] # 0 /\ P.seen[d] \in Nat
    BY <1>8 DEF Weaker, Process
  <2>. QED BY <2>1 DEF Past
<1>3. CASE Initializes(i)
  <2>1. PICK ok \in BOOLEAN : Sends(i, [t |-> "initialized", gen |-> s.gen, ok |-> ok],
                                    [g EXCEPT !.hello = TRUE])
    BY <1>3 DEF Initializes, g, s
  <2>. DEFINE b == [t |-> "initialized", gen |-> s.gen, ok |-> ok]
              p == [g EXCEPT !.hello = TRUE]
  <2>2. IsWork(b) /\ b.t \notin {"open", "change", "close", "ask"} /\ \A P : WorkPast(P, b)
    BY DEF IsWork, WorkPast, Numbered
  <2>3. ProcFields \subseteq DOMAIN p /\ p.copy = g.copy /\ p.seen = g.seen /\ p.misled = g.misled
    BY <1>1 DEF ProcFields
  <2>. HIDE DEF b, p
  <2>. QED BY <1>2, <2>1, <2>2, <2>3 DEF b, p
<1>4. CASE Responds(i)
  <2>1. PICK r \in g.owes :
          LET p == [g EXCEPT !.owes = @ \ {r}] IN
          \/ \E a \in AnswersTo(g, r) :
               Sends(i, [t |-> "response", gen |-> s.gen, id |-> r.id, ok |-> TRUE,
                         event |-> [t |-> "answer", from |-> 0, id |-> r.id, kind |-> r.kind,
                                    changes |-> a.changes, versions |-> a.versions,
                                    base |-> g.copy]], p)
          \/ Sends(i, [t |-> "response", gen |-> s.gen, id |-> r.id, ok |-> FALSE,
                       event |-> <<>>], p)
    BY <1>4 DEF Responds, g, s
  <2>. DEFINE p == [g EXCEPT !.owes = @ \ {r}]
  <2>2. ProcFields \subseteq DOMAIN p /\ p.copy = g.copy /\ p.seen = g.seen /\ p.misled = g.misled
    BY <1>1 DEF ProcFields
  <2>3. CASE \E a \in AnswersTo(g, r) :
               Sends(i, [t |-> "response", gen |-> s.gen, id |-> r.id, ok |-> TRUE,
                         event |-> [t |-> "answer", from |-> 0, id |-> r.id, kind |-> r.kind,
                                    changes |-> a.changes, versions |-> a.versions,
                                    base |-> g.copy]], p)
    <3>1. PICK a \in AnswersTo(g, r) :
               Sends(i, [t |-> "response", gen |-> s.gen, id |-> r.id, ok |-> TRUE,
                         event |-> [t |-> "answer", from |-> 0, id |-> r.id, kind |-> r.kind,
                                    changes |-> a.changes, versions |-> a.versions,
                                    base |-> g.copy]], p)
      BY <2>3
    <3>. DEFINE e == [t |-> "answer", from |-> 0, id |-> r.id, kind |-> r.kind,
                      changes |-> a.changes, versions |-> a.versions, base |-> g.copy]
                b == [t |-> "response", gen |-> s.gen, id |-> r.id, ok |-> TRUE, event |-> e]
    <3>2. /\ r.kind = "formatting" => DOMAIN a.changes # {}
          /\ r.kind \in EditKinds =>
               /\ DOMAIN a.changes \subseteq Docs
               /\ \A d \in DOMAIN a.changes : a.changes[d] \in Changes
          /\ \A d \in DOMAIN a.versions :
               d \in Docs /\ g.copy[d] # None /\ a.versions[d] = g.seen[d]
      BY AnswersFit
    <3>3. /\ DOMAIN e = {"t", "from", "id", "kind", "changes", "versions", "base"}
          /\ e.t = "answer" /\ e.kind = r.kind /\ e.changes = a.changes
          /\ e.versions = a.versions /\ e.base = g.copy
      OBVIOUS
    <3>. HIDE DEF e
    <3>4. IsEvent(e)
      BY <3>2, <3>3 DEF IsEvent
    <3>7. ASSUME NEW P, Process(P), Weaker(g, P) PROVE EventPast(P, e)
      <4>1. ASSUME NEW d \in DOMAIN e.versions PROVE Past(P, d, e.versions[d], e.base[d])
        <5>1. d \in Docs /\ g.copy[d] # None /\ e.versions[d] = g.seen[d] /\ e.base[d] = g.copy[d]
          BY <3>2, <3>3, <4>1
        <5>. QED BY <1>8, <3>7, <5>1
      <4>. QED BY <3>3, <4>1 DEF EventPast
    <3>5. IsWork(b) /\ b.t \notin {"open", "change", "close", "ask"}
      BY <3>4 DEF IsWork, Numbered
    <3>6. Sends(i, b, p)
      BY <3>1 DEF e
    <3>8. \A P : Process(P) /\ Weaker(g, P) => WorkPast(P, b)
      BY <3>7 DEF WorkPast
    <3>. HIDE DEF b, p
    <3>. QED BY <1>2, <2>2, <3>5, <3>6, <3>8
  <2>4. CASE Sends(i, [t |-> "response", gen |-> s.gen, id |-> r.id, ok |-> FALSE, event |-> <<>>], p)
    <3>. DEFINE b == [t |-> "response", gen |-> s.gen, id |-> r.id, ok |-> FALSE, event |-> <<>>]
    <3>1. IsWork(b) /\ b.t \notin {"open", "change", "close", "ask"} /\ \A P : WorkPast(P, b)
      BY DEF IsWork, WorkPast, Numbered
    <3>2. Sends(i, b, p)
      BY <2>4
    <3>. HIDE DEF b, p
    <3>. QED BY <1>2, <2>2, <3>1, <3>2
  <2>. QED BY <2>1, <2>3, <2>4
<1>5. CASE Publishes(i)
  <2>1. PICK d \in Docs, versioned \in BOOLEAN :
          /\ g.copy[d] # None
          /\ Sends(i, [t |-> "publish", gen |-> s.gen,
                       event |-> [t |-> "diagnostics", from |-> 0, doc |-> d,
                                  version |-> IF versioned THEN g.seen[d] ELSE 0,
                                  text |-> g.copy[d]]], g)
    BY <1>5 DEF Publishes, g, s
  <2>. DEFINE v == IF versioned THEN g.seen[d] ELSE 0
              e == [t |-> "diagnostics", from |-> 0, doc |-> d, version |-> v, text |-> g.copy[d]]
              b == [t |-> "publish", gen |-> s.gen, event |-> e]
  <2>2. IsEvent(e)
    BY DEF IsEvent
  <2>3. Sends(i, b, g)
    BY <2>1
  <2>5. ASSUME NEW P, Process(P), Weaker(g, P) PROVE EventPast(P, e)
    <3>1. Past(P, d, g.seen[d], g.copy[d])
      BY <1>8, <2>1, <2>5
    <3>. QED BY <2>1, <3>1 DEF EventPast
  <2>. HIDE DEF e
  <2>4. IsWork(b) /\ b.t \notin {"open", "change", "close", "ask"}
    BY <2>2 DEF IsWork, Numbered
  <2>6. \A P : Process(P) /\ Weaker(g, P) => WorkPast(P, b)
    BY <2>5 DEF WorkPast
  <2>. HIDE DEF b
  <2>. QED BY <1>1, <1>2, <2>3, <2>4, <2>6
<1>6. CASE Progresses(i)
  <2>1. PICK token, end :
          Sends(i, [t |-> "progress", gen |-> s.gen, token |-> token, end |-> end],
                [g EXCEPT !.working = IF end THEN @ \ {token} ELSE @ \cup {token},
                          !.untold = end /\ token = "nameless"])
    BY <1>6 DEF Progresses, g, s
  <2>. DEFINE b == [t |-> "progress", gen |-> s.gen, token |-> token, end |-> end]
              p == [g EXCEPT !.working = IF end THEN @ \ {token} ELSE @ \cup {token},
                             !.untold = end /\ token = "nameless"]
  <2>2. IsWork(b) /\ b.t \notin {"open", "change", "close", "ask"} /\ \A P : WorkPast(P, b)
    BY DEF IsWork, WorkPast, Numbered
  <2>3. ProcFields \subseteq DOMAIN p /\ p.copy = g.copy /\ p.seen = g.seen /\ p.misled = g.misled
    BY <1>1 DEF ProcFields
  <2>. HIDE DEF b, p
  <2>. QED BY <1>2, <2>1, <2>2, <2>3 DEF b, p
<1>7. CASE Dies(i)
  <2>. DEFINE b == [t |-> "gone", gen |-> s.gen]
              p == [g EXCEPT !.alive = FALSE, !.owes = {}]
  <2>1. Sends(i, b, p)
    BY <1>7 DEF Dies, g, s
  <2>2. IsWork(b) /\ b.t \notin {"open", "change", "close", "ask"} /\ \A P : WorkPast(P, b)
    BY DEF IsWork, WorkPast, Numbered
  <2>3. ProcFields \subseteq DOMAIN p /\ p.copy = g.copy /\ p.seen = g.seen /\ p.misled = g.misled
    BY <1>1 DEF ProcFields
  <2>. HIDE DEF b, p
  <2>. QED BY <1>2, <2>1, <2>2, <2>3
<1>. QED BY <1>3, <1>4, <1>5, <1>6, <1>7 DEF Server


\* One change of one buffer.
LEMMA ApplyOneSims ==
  ASSUME NEW m, NEW p, Sim(m, p), NEW d \in Docs, m.text[d] # None,
         NEW c \in ChangesOf(m.text[d]), NEW w, w = ApplyToBuffer(m, d, c)
  PROVE  /\ Sim(w, p) /\ w.edit = m.edit /\ w.open = m.open /\ w.synced = m.synced
         /\ w.started = m.started /\ w.next = m.next /\ w.out = m.out /\ w.pend[d] # <<>>
         /\ w.diag = m.diag /\ Keeps(m, w)
         /\ \A x \in Docs : x # d => w.text[x] = m.text[x] /\ w.pend[x] = m.pend[x]
<1>. DEFINE cs == [x \in {d} |-> c]
<1>1. ModelFields \subseteq DOMAIN m /\ m.text[d] \in Seq(Chars)
  BY DEF Sim, IsModel
<1>2. c \in Changes /\ c.len = Len(m.text[d])
  BY <1>1, ChangesFit
<1>3. DOMAIN cs = {d} /\ cs[d] = c /\ w = ApplyToBuffers(m, cs)
  BY DEF ApplyToBuffer
<1>. HIDE DEF cs
<1>4. DOMAIN cs \subseteq Docs
      /\ \A x \in DOMAIN cs : cs[x] \in Changes /\ m.text[x] # None /\ cs[x].len = Len(m.text[x])
  BY <1>2, <1>3
<1>5. /\ Sim(w, p) /\ w.edit = m.edit /\ w.open = m.open /\ w.synced = m.synced
      /\ w.started = m.started /\ w.diag = m.diag /\ Keeps(m, w)
      /\ \A x \in Docs : x \in DOMAIN cs => w.pend[x] # <<>>
      /\ \A x \in Docs : x \notin DOMAIN cs => w.text[x] = m.text[x] /\ w.pend[x] = m.pend[x]
  BY <1>3, <1>4, ApplySims
<1>6. w.next = m.next /\ w.out = m.out
  BY <1>1, <1>3 DEF ApplyToBuffers, ModelFields
<1>. QED BY <1>3, <1>5, <1>6

-----------------------------------------------------------------------------
(***************************************************************************)
(* Waits: what an edit, a request and a status wait for is on its way.     *)
(***************************************************************************)

\* The members of lists.
LEMMA MembersFacts ==
  ASSUME NEW s, List(s), NEW x
  PROVE  /\ ToSet(<<>>) = {} /\ ToSet(Append(s, x)) = ToSet(s) \cup {x}
         /\ s # <<>> => ToSet(s) = {Head(s)} \cup ToSet(Tail(s)) /\ Head(s) \in ToSet(s)
         /\ ToSet(s) = {s[k] : k \in 1..Len(s)} /\ \A k \in 1..Len(s) : s[k] \in ToSet(s)
<1>1. Len(s) \in Nat /\ DOMAIN s = 1..Len(s)
  BY ListFacts
<1>2. ToSet(<<>>) = {}
  BY DEF ToSet
<1>3. ToSet(s) = {s[k] : k \in 1..Len(s)}
  BY <1>1 DEF ToSet
<1>4. ToSet(Append(s, x)) = ToSet(s) \cup {x}
  <2>. DEFINE z == Append(s, x)
              n == Len(s)
  <2>1. List(z) /\ Len(z) = n + 1 /\ z[n + 1] = x /\ \A k \in 1..n : z[k] = s[k]
    <3>1. List(z)
      BY ListFacts
    <3>2. Len(z) = n + 1 /\ z[n + 1] = x
      BY ListFacts
    <3>3. \A k \in 1..n : z[k] = s[k]
      BY ListFacts
    <3>. QED BY <3>1, <3>2, <3>3
  <2>. HIDE DEF z
  <2>2. DOMAIN z = 1..(n + 1)
    BY <2>1, ListFacts
  <2>3. ToSet(z) = {z[k] : k \in 1..(n + 1)}
    BY <2>2 DEF ToSet
  <2>4. 1..(n + 1) = (1..n) \cup {n + 1}
    BY <1>1
  <2>. HIDE DEF n
  <2>5. ToSet(z) = {z[k] : k \in 1..n} \cup {x}
    BY <2>1, <2>3, <2>4
  <2>6. {z[k] : k \in 1..n} = {s[k] : k \in 1..n}
    BY <2>1
  <2>. QED BY <1>3, <2>5, <2>6 DEF n, z
<1>5. ASSUME s # <<>>
      PROVE  ToSet(s) = {Head(s)} \cup ToSet(Tail(s)) /\ Head(s) \in ToSet(s)
  <2>. DEFINE t == Tail(s)
              h == Head(s)
  <2>1. /\ List(t) /\ s = <<h>> \o t /\ h = s[1] /\ 1 \in DOMAIN s
        /\ \A k \in DOMAIN t : k + 1 \in DOMAIN s /\ t[k] = s[k + 1]
    BY <1>5, ListFacts
  <2>7. Len(t) = Len(s) - 1
    <3>. DEFINE C == {s[k] : k \in DOMAIN s}
    <3>1. s \in Seq(C)
      BY DEF List
    <3>. HIDE DEF C
    <3>. QED BY <1>5, <3>1
  <2>. HIDE DEF t, h
  <2>2. DOMAIN t = 1..Len(t)
    BY <2>1, ListFacts
  <2>3. h \in ToSet(s)
    BY <2>1 DEF ToSet
  <2>4. ToSet(t) \subseteq ToSet(s)
    <3>1. ASSUME NEW k \in DOMAIN t PROVE t[k] \in ToSet(s)
      <4>1. k + 1 \in DOMAIN s /\ t[k] = s[k + 1]
        BY <2>1, <3>1
      <4>. QED BY <4>1 DEF ToSet
    <3>. QED BY <3>1 DEF ToSet
  <2>5. ASSUME NEW y \in ToSet(s) PROVE y = h \/ y \in ToSet(t)
    <3>1. PICK k \in 1..Len(s) : y = s[k]
      BY <1>3, <2>5
    <3>2. CASE k = 1
      BY <2>1, <3>1, <3>2
    <3>3. CASE k # 1
      <4>1. k - 1 \in DOMAIN t /\ (k - 1) + 1 = k
        BY <1>1, <2>2, <2>7, <3>3
      <4>2. t[k - 1] = s[k]
        BY <2>1, <4>1
      <4>. QED BY <3>1, <4>1, <4>2 DEF ToSet
    <3>. QED BY <3>2, <3>3
  <2>. QED BY <2>3, <2>4, <2>5 DEF t, h
<1>6. \A k \in 1..Len(s) : s[k] \in ToSet(s)
  BY <1>3
<1>. QED BY <1>2, <1>3, <1>4, <1>5, <1>6

\* A list after another, member by member.
LEMMA JoinFacts ==
  ASSUME NEW s, List(s), NEW t, List(t)
  PROVE  /\ Len(s \o t) = Len(s) + Len(t) /\ DOMAIN (s \o t) = 1..(Len(s) + Len(t))
         /\ Len(s) \in Nat /\ Len(t) \in Nat
         /\ \A k \in 1..Len(s) : (s \o t)[k] = s[k]
         /\ \A k \in 1..Len(t) : (s \o t)[Len(s) + k] = t[k]
<1>. DEFINE C == {s[k] : k \in DOMAIN s} \cup {t[k] : k \in DOMAIN t}
<1>1. s \in Seq(C) /\ t \in Seq(C)
  BY DEF List
<1>. HIDE DEF C
<1>2. Len(s \o t) = Len(s) + Len(t)
  BY <1>1
<1>3. DOMAIN (s \o t) = 1..(Len(s) + Len(t)) /\ Len(s) \in Nat /\ Len(t) \in Nat
  BY <1>1
<1>4. \A k \in 1..Len(s) : (s \o t)[k] = s[k]
  BY <1>1
<1>5. \A k \in 1..Len(t) : (s \o t)[Len(s) + k] = t[k]
  BY <1>1
<1>. QED BY <1>2, <1>3, <1>4, <1>5

\* The members of two lists, one after the other.
LEMMA MembersConcat ==
  ASSUME NEW s, List(s), NEW t, List(t)
  PROVE  ToSet(s \o t) = ToSet(s) \cup ToSet(t)
<1>. DEFINE z == s \o t
<1>2. /\ Len(s) \in Nat /\ Len(t) \in Nat /\ DOMAIN s = 1..Len(s) /\ DOMAIN t = 1..Len(t)
      /\ DOMAIN z = 1..(Len(s) + Len(t))
      /\ \A k \in 1..Len(s) : z[k] = s[k]
      /\ \A k \in 1..Len(t) : z[Len(s) + k] = t[k]
  BY JoinFacts, ListFacts
<1>. HIDE DEF z
<1>3. ToSet(s) \subseteq ToSet(z)
  BY <1>2 DEF ToSet
<1>4. ToSet(t) \subseteq ToSet(z)
  <2>1. \A k \in 1..Len(t) : Len(s) + k \in DOMAIN z
    BY <1>2
  <2>. QED BY <1>2, <2>1 DEF ToSet
<1>5. ASSUME NEW k \in DOMAIN z PROVE z[k] \in ToSet(s) \cup ToSet(t)
  <2>1. CASE k <= Len(s)
    <3>1. k \in 1..Len(s)
      BY <1>2, <1>5, <2>1
    <3>. QED BY <1>2, <3>1 DEF ToSet
  <2>2. CASE k > Len(s)
    <3>1. k - Len(s) \in 1..Len(t) /\ Len(s) + (k - Len(s)) = k
      BY <1>2, <1>5, <2>2
    <3>2. z[k] = t[k - Len(s)]
      BY <1>2, <3>1
    <3>. QED BY <1>2, <3>1, <3>2 DEF ToSet
  <2>. QED BY <1>2, <1>5, <2>1, <2>2
<1>6. ToSet(z) \subseteq ToSet(s) \cup ToSet(t)
  BY <1>5 DEF ToSet
<1>. QED BY <1>3, <1>4, <1>6 DEF z

DocRequests == {"open", "change", "close"}

\* sync_lsp_documents only: w has the waits of m, and asked for nothing but that documents
\* be opened, changed and closed, or for the start that the first one needs.
Syncs(m, w) ==
  /\ ModelFields \subseteq DOMAIN w /\ List(w.out)
  /\ w.edit = m.edit /\ w.reads = m.reads /\ w.restored = m.restored
  /\ w.active = m.active /\ w.nextId = m.nextId
  /\ m.started => w.started
  /\ w.load = m.load \/ (~m.started /\ w.load = "Starting")
  /\ ToSet(m.out) \subseteq ToSet(w.out)
  /\ \A r \in ToSet(w.out) : \/ r \in ToSet(m.out) \/ r.t \in DocRequests
                             \/ r.t = "start" /\ ~m.started /\ w.load = "Starting"

\* One after the other.
LEMMA SyncsTwice ==
  ASSUME NEW a, NEW b, NEW c, Syncs(a, b), Syncs(b, c)
  PROVE  Syncs(a, c)
BY DEF Syncs

\* The same waits, and one more message.
LEMMA SyncsPush ==
  ASSUME NEW m, ModelFields \subseteq DOMAIN m, List(m.out), NEW r, r.t \in DocRequests,
         NEW b, ModelFields \subseteq DOMAIN b, b.out = m.out, b.edit = m.edit, b.reads = m.reads,
         b.restored = m.restored, b.active = m.active, b.nextId = m.nextId,
         b.started = m.started, b.load = m.load
  PROVE  Syncs(m, b) /\ Syncs(m, Push(b, r))
<1>. DEFINE w == Push(b, r)
<1>1. /\ DOMAIN w = DOMAIN b /\ w.out = Append(b.out, r)
      /\ \A f \in DOMAIN b : f # "out" => w[f] = b[f]
  BY DEF Push, ModelFields
<1>. HIDE DEF w
<1>2. /\ w.edit = b.edit /\ w.reads = b.reads /\ w.restored = b.restored /\ w.active = b.active
      /\ w.nextId = b.nextId /\ w.started = b.started /\ w.load = b.load
  BY <1>1 DEF ModelFields
<1>3. List(w.out) /\ ToSet(w.out) = ToSet(m.out) \cup {r}
  <2>1. List(Append(m.out, r))
    BY ListFacts
  <2>. QED BY <1>1, <2>1, MembersFacts
<1>4. Syncs(m, w)
  BY <1>1, <1>2, <1>3 DEF Syncs
<1>. QED BY <1>4 DEF Syncs, w

\* A document is opened, changed or closed.
LEMMA OpenSyncs ==
  ASSUME NEW m, ModelFields \subseteq DOMAIN m, List(m.out), NEW d
  PROVE  Syncs(m, m) /\ Syncs(m, DidOpen(m, d)) /\ Syncs(m, DidClose(m, d))
<1>. DEFINE b == [m EXCEPT !.next = @ + 1, !.open[d] = m.next + 1, !.synced[d] = m.text[d]]
            r == [t |-> "open", doc |-> d, version |-> m.next + 1, text |-> m.text[d]]
            x == [t |-> "close", doc |-> d]
<1>1. /\ DOMAIN b = DOMAIN m /\ b.out = m.out /\ b.edit = m.edit /\ b.reads = m.reads
      /\ b.restored = m.restored /\ b.active = m.active /\ b.nextId = m.nextId
      /\ b.started = m.started /\ b.load = m.load
  BY DEF ModelFields
<1>2. DidOpen(m, d) = Push(b, r) /\ DidClose(m, d) = Push(m, x)
  BY DEF DidOpen, DidClose
<1>3. r.t \in DocRequests /\ x.t \in DocRequests
  BY DEF DocRequests
<1>. HIDE DEF b, r, x
<1>4. Syncs(m, Push(b, r))
  BY <1>1, <1>3, SyncsPush
<1>5. Syncs(m, m) /\ Syncs(m, Push(m, x))
  BY <1>3, SyncsPush
<1>. QED BY <1>2, <1>4, <1>5

\* One transaction.
LEMMA DidChangeSyncs ==
  ASSUME NEW a, {"m", "lost"} \subseteq DOMAIN a, ModelFields \subseteq DOMAIN a.m, List(a.m.out),
         NEW d, NEW c, NEW r, r = DidChange(a, c, d)
  PROVE  {"m", "lost"} \subseteq DOMAIN r /\ Syncs(a.m, r.m)
<1>. DEFINE m == a.m
            b == [m EXCEPT !.next = @ + 1, !.open[d] = m.next + 1, !.synced[d] = Replace(@, c)]
            x == [t |-> "change", doc |-> d, version |-> m.next + 1, change |-> c]
            w == Push(b, x)
<1>1. r = a \/ r = [a EXCEPT !.lost = TRUE] \/ r = [a EXCEPT !.m = w]
  BY DEF DidChange
<1>2. /\ DOMAIN b = DOMAIN m /\ b.out = m.out /\ b.edit = m.edit /\ b.reads = m.reads
      /\ b.restored = m.restored /\ b.active = m.active /\ b.nextId = m.nextId
      /\ b.started = m.started /\ b.load = m.load
  BY DEF ModelFields
<1>3. x.t \in DocRequests
  BY DEF DocRequests
<1>4. {"m", "lost"} \subseteq DOMAIN r /\ (r.m = m \/ r.m = w)
  <2>. HIDE DEF w
  <2>. QED BY <1>1
<1>. HIDE DEF b, x
<1>5. Syncs(m, m) /\ Syncs(m, w)
  <2>. HIDE DEF m
  <2>1. ModelFields \subseteq DOMAIN m /\ List(m.out)
    BY DEF m
  <2>2. Syncs(m, m)
    BY <2>1, OpenSyncs
  <2>. QED BY <1>2, <1>3, <2>1, <2>2, SyncsPush
<1>. QED BY <1>4, <1>5

\* The transactions of one document.
LEMMA SyncChangesSyncs ==
  ASSUME NEW m, ModelFields \subseteq DOMAIN m, List(m.out), NEW d, NEW cs, List(cs),
         NEW w, w = SyncChanges(m, d, cs)
  PROVE  Syncs(m, w)
<1>. DEFINE base == [m |-> m, lost |-> FALSE]
            o == [op |-> "change", doc |-> d]
            n == Len(cs)
            acc == FoldLeft(LAMBDA a, c : DidChange(a, c, d), base, cs)
            Ok(a) == {"m", "lost"} \subseteq DOMAIN a /\ Syncs(m, a.m)
<1>1. n \in Nat
  BY ListFacts
<1>2. acc = Fold(o, base, cs)
  BY FoldOfDidChange
<1>3. \A a, x : Do(o, a, x) = DidChange(a, x, d)
  BY DoFacts
<1>4. Ok(base)
  BY OpenSyncs
<1>5. w = IF acc.lost \/ acc.m.synced[d] # m.text[d] THEN DidOpen(DidClose(acc.m, d), d) ELSE acc.m
  BY DEF SyncChanges
<1>. HIDE DEF acc, base, o
<1>6. PICK at : IsRun(at, o, base, cs, n) /\ acc = at[n]
  BY <1>2, FoldIs
<1>. DEFINE T == {k \in Nat : k <= n => Ok(at[k])}
<1>7. 0 \in T
  BY <1>4, <1>6 DEF IsRun
<1>8. ASSUME NEW k \in Nat, k \in T PROVE k + 1 \in T
  <2>1. CASE k + 1 <= n
    <3>. DEFINE a == at[k]
                r == at[k + 1]
                c == cs[k + 1]
    <3>1. k + 1 \in 1..n /\ (k + 1) - 1 = k /\ k <= n
      BY <1>1, <2>1
    <3>2. r = DidChange(a, c, d)
      BY <1>3, <1>6, <3>1 DEF IsRun
    <3>3. Ok(a)
      BY <1>8, <3>1
    <3>. HIDE DEF a, r, c
    <3>4. {"m", "lost"} \subseteq DOMAIN r /\ Syncs(a.m, r.m)
      BY <3>2, <3>3, DidChangeSyncs DEF Syncs
    <3>5. Ok(r)
      BY <3>3, <3>4, SyncsTwice
    <3>. QED BY <3>5 DEF r
  <2>. QED BY <1>1, <2>1
<1>. HIDE DEF T
<1>9. Nat \subseteq T
  BY <1>7, <1>8, SetInduction
<1>10. Ok(acc)
  <2>1. n \in T
    BY <1>1, <1>9
  <2>. QED BY <1>1, <1>6, <2>1 DEF T
<1>. DEFINE b == acc.m
            e == DidClose(b, d)
<1>11. Syncs(m, b)
  BY <1>10
<1>12. w = DidOpen(e, d) \/ w = b
  BY <1>5
<1>. HIDE DEF b
<1>13. Syncs(b, e)
  BY <1>11, OpenSyncs DEF Syncs
<1>. HIDE DEF e
<1>14. Syncs(e, DidOpen(e, d))
  BY <1>13, OpenSyncs DEF Syncs
<1>. QED BY <1>11, <1>12, <1>13, <1>14, SyncsTwice

\* One document.
LEMMA SyncDocSyncs ==
  ASSUME NEW m, IsModel(m), NEW d \in Docs, NEW w, w = SyncDoc(m, d)
  PROVE  Syncs(m, w)
<1>. DEFINE cs == m.pend[d]
            b == [m EXCEPT !.pend[d] = <<>>, !.diag[d] = IF cs = <<>> THEN @ ELSE None]
            e == [b EXCEPT !.started = TRUE, !.load = "Starting"]
            r == [t |-> "start"]
            c == IF m.started THEN b ELSE Push(e, r)
<1>1. ModelFields \subseteq DOMAIN m /\ List(m.out) /\ cs \in Seq(Changes)
  BY DEF IsModel
<1>2. List(cs)
  BY <1>1, SequencesAreLists
<1>3. Syncs(m, m)
  BY <1>1, OpenSyncs
<1>4. w = m \/ w = DidOpen(c, d) \/ w = SyncChanges(c, d, cs)
  BY DEF SyncDoc
<1>5. /\ DOMAIN b = DOMAIN m /\ b.out = m.out /\ b.edit = m.edit /\ b.reads = m.reads
      /\ b.restored = m.restored /\ b.active = m.active /\ b.nextId = m.nextId
      /\ b.started = m.started /\ b.load = m.load
  BY <1>1 DEF ModelFields
<1>6. r.t = "start"
  OBVIOUS
<1>. HIDE DEF b, r
<1>7. /\ DOMAIN e = DOMAIN b /\ e.out = b.out /\ e.edit = b.edit /\ e.reads = b.reads
      /\ e.restored = b.restored /\ e.active = b.active /\ e.nextId = b.nextId
      /\ e.started = TRUE /\ e.load = "Starting"
  BY <1>1, <1>5 DEF ModelFields
<1>. HIDE DEF e
<1>8. Syncs(m, c)
  <2>1. CASE m.started
    <3>1. Syncs(m, b)
      BY <1>1, <1>5 DEF Syncs
    <3>. QED BY <2>1, <3>1
  <2>2. CASE ~m.started
    <3>1. c = Push(e, r)
      BY <2>2
    <3>. HIDE DEF c
    <3>2. /\ DOMAIN c = DOMAIN e /\ c.out = Append(e.out, r)
          /\ \A f \in DOMAIN e : f # "out" => c[f] = e[f]
      BY <1>1, <1>5, <1>7, <3>1 DEF Push, ModelFields
    <3>3. List(c.out) /\ ToSet(c.out) = ToSet(m.out) \cup {r}
      <4>1. List(Append(m.out, r))
        BY <1>1, ListFacts
      <4>. QED BY <1>1, <1>5, <1>7, <3>2, <4>1, MembersFacts
    <3>4. /\ c.edit = e.edit /\ c.reads = e.reads /\ c.restored = e.restored
          /\ c.active = e.active /\ c.nextId = e.nextId /\ c.load = e.load
      BY <1>1, <1>5, <1>7, <3>2 DEF ModelFields
    <3>. QED BY <1>1, <1>5, <1>6, <1>7, <2>2, <3>2, <3>3, <3>4 DEF Syncs
  <2>. QED BY <2>1, <2>2
<1>. HIDE DEF c, cs
<1>9. Syncs(c, DidOpen(c, d)) /\ Syncs(c, SyncChanges(c, d, cs))
  BY <1>2, <1>8, OpenSyncs, SyncChangesSyncs DEF Syncs
<1>. QED BY <1>3, <1>4, <1>8, <1>9, SyncsTwice

\* All documents.
LEMMA SyncAllSyncs ==
  ASSUME NEW m, NEW p, Sim(m, p), NEW w, w = SyncLspDocuments(m)
  PROVE  Syncs(m, w)
<1>. DEFINE q == SetToSeq(Docs)
            o == [op |-> "sync"]
            n == Len(q)
            Ok(a) == Sim(a, p) /\ Syncs(m, a)
<1>1. q \in Seq(Docs)
  BY SetToSeqFacts, LspBounds
<1>. HIDE DEF q
<1>2. List(q) /\ n \in Nat /\ \A k \in 1..n : q[k] \in Docs
  BY <1>1, SequencesAreLists
<1>3. w = Fold(o, m, q)
  BY <1>2, FoldOfSyncDoc DEF SyncLspDocuments, q
<1>4. \A a, x : Do(o, a, x) = SyncDoc(a, x)
  BY DoFacts
<1>. HIDE DEF o, n
<1>5. PICK at : IsRun(at, o, m, q, n) /\ w = at[n]
  BY <1>2, <1>3, FoldIs DEF n
<1>. DEFINE T == {k \in Nat : k <= n => Ok(at[k])}
<1>6. 0 \in T
  <2>1. at[0] = m
    BY <1>5 DEF IsRun
  <2>2. Ok(m)
    BY OpenSyncs DEF Sim, IsModel
  <2>. QED BY <2>1, <2>2
<1>7. ASSUME NEW k \in Nat, k \in T PROVE k + 1 \in T
  <2>1. CASE k + 1 <= n
    <3>. DEFINE a == at[k]
                r == at[k + 1]
                d == q[k + 1]
    <3>1. k + 1 \in 1..n /\ (k + 1) - 1 = k /\ k <= n
      BY <1>2, <2>1
    <3>2. r = SyncDoc(a, d) /\ d \in Docs
      BY <1>2, <1>4, <1>5, <3>1 DEF IsRun
    <3>3. Ok(a)
      BY <1>7, <3>1
    <3>. HIDE DEF a, r, d
    <3>4. Sim(r, p)
      BY <3>2, <3>3, SyncDocSims
    <3>5. Syncs(a, r)
      BY <3>2, <3>3, SyncDocSyncs DEF Sim
    <3>6. Ok(r)
      BY <3>3, <3>4, <3>5, SyncsTwice
    <3>. QED BY <3>6 DEF r
  <2>. QED BY <1>2, <2>1 DEF n
<1>. HIDE DEF T
<1>8. Nat \subseteq T
  BY <1>6, <1>7, SetInduction
<1>9. n \in T /\ n <= n
  BY <1>2, <1>8 DEF n
<1>. QED BY <1>5, <1>9 DEF T

-----------------------------------------------------------------------------
(***************************************************************************)
(* The invariant of the waits.                                             *)
(***************************************************************************)

\* An edit that is held waits for a file, and each of them is being read.
Held(m) == m.edit # None => m.edit.waiting \subseteq m.reads \cup m.restored
EditEnds(m) == Held(m) /\ (m.edit # None => m.edit.waiting # {})

\* Requests are numbered one after the other, and none is made before the recipe is started.
Ids(m) ==
  /\ m.nextId \in Nat /\ m.active \in [Kinds -> 0..m.nextId]
  /\ \A k, j \in Kinds : m.active[k] = m.active[j] /\ m.active[k] # 0 => k = j
  /\ ~m.started => \A k \in Kinds : m.active[k] = 0

\* What a session has not made anything of yet.
Unread(s) == ToSet(s.tr.queued) \cup ToSet(s.inbox)

\* Q is what is on its way to session s and back, E what waits for the model. No number of a
\* request is in use that the model did not give.
Bounded(s, Q, n) ==
  /\ s.tr.cancelled \subseteq 1..n
  /\ \A r \in s.proc.owes : r.id \in 1..n
  /\ \A w \in Q : w.t \in {"ask", "cancel", "response"} => w.id \in 1..n

\* The request with that number is not cancelled, is of kind k wherever it is met, and is on
\* its way: to the server, at the server, back, or pending at a process that is gone.
Live(s, Q, E, k, id) ==
  /\ id \notin s.tr.cancelled
  /\ \A w \in Q : /\ w.t = "cancel" => w.id # id
                  /\ w.t = "ask" => (w.id = id => w.kind = k)
                  /\ w.t = "response" /\ w.ok => (w.id = id => w.event.kind = k)
  /\ \A r \in s.proc.owes : r.id = id => r.kind = k
  /\ \/ \E w \in Q : w.t = "ask" /\ w.id = id
     \/ /\ id \in s.tr.pending
        /\ \/ ~s.proc.alive
           \/ \E w \in Q : w.t = "response" /\ w.id = id /\ w.gen = s.gen
           \/ \E r \in s.proc.owes : r.id = id
     \/ \E e \in E : \/ e.t = "failed" /\ e.id = id
                     \/ e.t = "answer" /\ e.id = id /\ e.kind = k

\* The model waits for a request of kind k, and it did not go down with an earlier process.
Waits(m, s, k) == m.active[k] # 0 /\ m.active[k] \notin s.lost

\* The session serves what the model waits for.
Serves(s, Q, E, m) ==
  Bounded(s, Q, m.nextId) /\ \A k \in Kinds : Waits(m, s, k) => Live(s, Q, E, k, m.active[k])

\* A report of work from the process that runs, and one of the end of work without a token.
Report(w, g) == w.t = "progress" /\ w.gen = g
NamelessEnd(w, g) == Report(w, g) /\ w.end /\ w.token = "nameless"
News(w, g, t) == Report(w, g) /\ w.token = t

\* Where the last report on its way is of the end of such work, that was the last report.
EndIsTold(s) ==
  \A k \in 1..Len(s.inbox) :
    NamelessEnd(s.inbox[k], s.gen)
      /\ (\A j \in 1..Len(s.inbox) : j > k => ~Report(s.inbox[j], s.gen)) => s.proc.untold

\* A token that the translator lists is worked on, or news of it is on its way; and where the
\* last news of it is of a begin, it is worked on.
Tracks(s, t) ==
  /\ t \in s.tr.progress => t \in s.proc.working \/ \E k \in 1..Len(s.inbox) : News(s.inbox[k], s.gen, t)
  /\ \A k \in 1..Len(s.inbox) :
       News(s.inbox[k], s.gen, t) /\ ~s.inbox[k].end
         /\ (\A j \in 1..Len(s.inbox) : j > k => ~News(s.inbox[j], s.gen, t)) => t \in s.proc.working
  /\ EndIsTold(s)

\* A message in the inbox of a session that was not told to shut down.
Proper(w, g) ==
  /\ w.t # "shutdown"
  /\ w.t \in {"initialized", "response", "publish", "progress", "gone"} => w.gen \in 0..g
  /\ w.t = "publish" => w.event.t = "diagnostics"
  /\ w.t = "response" /\ w.ok => w.event.t = "answer" /\ w.event.id = w.id

\* The session that the main loop holds, unless its supervisor has returned: it queues
\* requests, it was not told to shut down, the end of its process is on its way, and it knows
\* what the server works on.
QueuesRequests(s) == \A w \in ToSet(s.tr.queued) : w.t \in {"open", "change", "close", "ask", "cancel"}
ProperInbox(s) == \A w \in ToSet(s.inbox) : Proper(w, s.gen)
EndIsKnown(s) ==
  s.stage = "running" /\ ~s.proc.alive => \E w \in ToSet(s.inbox) : w.t = "gone" /\ w.gen = s.gen
TracksAll(s) == \A t : Tracks(s, t)
Orderly(s) ==
  s.stage # "over" => QueuesRequests(s) /\ ProperInbox(s) /\ EndIsKnown(s) /\ TracksAll(s)

\* The process of the session works, may seem to for it ended work without a token, or reports.
Works(s) ==
  /\ s.stage = "running"
  /\ s.proc.working # {} \/ s.proc.untold \/ \E w \in ToSet(s.inbox) : Report(w, s.gen)

\* The events that set the status, and what the last of them says: if it is that the server
\* indexes, it does.
Sets(e) == e.t = "load" \/ (e.t = "failed" /\ e.id = 0)
Loads(es, l, W) ==
  /\ l = "Indexing" /\ (\A j \in 1..Len(es) : ~Sets(es[j])) => W
  /\ \A k \in 1..Len(es) :
       es[k].t = "load" /\ es[k].load = "Indexing" /\ (\A j \in 1..Len(es) : j > k => ~Sets(es[j])) => W

\* The main loop holds a session, and its supervisor has not returned.
Supervised == current # 0 /\ sessions[current].stage # "over"

WaitInv ==
  /\ EditEnds(ed) /\ Ids(ed) /\ current \in {0, Used}
  /\ current # 0 => Orderly(sessions[current])
  /\ Supervised => Serves(sessions[current], Unread(sessions[current]), ToSet(events), ed)
  /\ current = 1 => Loads(events, ed.load, Works(sessions[1]))

-----------------------------------------------------------------------------
(***************************************************************************)
(* What a handler leaves of it.                                            *)
(***************************************************************************)

HasStart(m) == \E r \in ToSet(m.out) : r.t = "start"

\* The model m of a handler that was begun: it starts a session and waits for nothing, or
\* whatever served the model serves m once it has the requests of m.
Asked(m) ==
  /\ Ids(m)
  /\ HasStart(m) => /\ \A k \in Kinds : m.active[k] = 0
                    /\ m.load # "Indexing"
                    /\ \A r \in ToSet(m.out) : r.t \in DocRequests \cup {"start"}
  /\ ~HasStart(m) =>
       /\ \A s, Q : Serves(s, Q, ToSet(events), ed) => Serves(s, Q \cup ToSet(m.out), ToSet(events'), m)
       /\ \A W : Loads(events, ed.load, W) => Loads(events', m.load, W)

\* More requests that are about documents, and more answers, change nothing of it.
LEMMA ServesMore ==
  ASSUME NEW s, NEW Q, NEW E, NEW m, Serves(s, Q, E, m),
         NEW R, Q \subseteq R, \A w \in R : w \in Q \/ w.t \in DocRequests \cup {"start"},
         NEW D, E \subseteq D, NEW a, a.active = m.active, a.nextId = m.nextId
  PROVE  Serves(s, R, D, a)
<1>1. \A w \in R : w \notin Q => w.t \notin {"ask", "cancel", "response"}
  BY DEF DocRequests
<1>2. Bounded(s, R, a.nextId)
  BY <1>1 DEF Serves, Bounded
<1>3. ASSUME NEW k \in Kinds, Waits(a, s, k) PROVE Live(s, R, D, k, a.active[k])
  <2>1. Live(s, Q, E, k, a.active[k])
    BY <1>3 DEF Serves, Waits
  <2>. QED BY <1>1, <2>1 DEF Live
<1>. QED BY <1>2, <1>3 DEF Serves

\* No status says more than that a session is starting.
LEMMA LoadsLess ==
  ASSUME NEW es, NEW l, NEW W, Loads(es, l, W), NEW x, x = l \/ x # "Indexing"
  PROVE  Loads(es, x, W)
BY DEF Loads

\* A handler that changes nothing of it.
LEMMA QuietAsked ==
  ASSUME NEW m, Asked(m), NEW w, w.active = m.active, w.nextId = m.nextId, w.out = m.out,
         w.load = m.load, m.started => w.started
  PROVE  Asked(w)
<1>1. Ids(w)
  BY DEF Asked, Ids
<1>2. HasStart(w) <=> HasStart(m)
  BY DEF HasStart
<1>3. ASSUME NEW s, NEW Q, NEW E, Serves(s, Q, E, m) PROVE Serves(s, Q, E, w)
  BY <1>3 DEF Serves, Waits
<1>. QED BY <1>1, <1>2, <1>3 DEF Asked

\* The documents are synchronised.
LEMMA SyncsAsked ==
  ASSUME NEW m, IsModel(m), Asked(m), NEW w, Syncs(m, w)
  PROVE  Asked(w) /\ (EditEnds(m) => EditEnds(w)) /\ (Held(m) => Held(w))
<1>1. Ids(w)
  BY DEF Asked, Ids, Syncs
<1>2. (EditEnds(m) => EditEnds(w)) /\ (Held(m) => Held(w))
  BY DEF Syncs, EditEnds, Held
<1>3. ASSUME HasStart(w)
      PROVE  /\ \A k \in Kinds : w.active[k] = 0
             /\ w.load # "Indexing"
             /\ \A r \in ToSet(w.out) : r.t \in DocRequests \cup {"start"}
  <2>1. CASE HasStart(m)
    BY <2>1 DEF Syncs, Asked
  <2>2. CASE ~HasStart(m)
    <3>1. ~m.started /\ w.load = "Starting"
      BY <1>3, <2>2 DEF HasStart, Syncs, DocRequests
    <3>2. ToSet(m.out) = {}
      <4>1. m.out = <<>>
        BY <3>1 DEF IsModel
      <4>. QED BY <4>1 DEF ToSet
    <3>3. \A k \in Kinds : m.active[k] = 0
      BY <3>1 DEF Asked, Ids
    <3>. QED BY <3>1, <3>2, <3>3 DEF Syncs
  <2>. QED BY <2>1, <2>2
<1>4. ASSUME ~HasStart(w)
      PROVE  /\ \A s, Q : Serves(s, Q, ToSet(events), ed)
                            => Serves(s, Q \cup ToSet(w.out), ToSet(events'), w)
             /\ \A W : Loads(events, ed.load, W) => Loads(events', w.load, W)
  <2>1. ~HasStart(m)
    BY <1>4 DEF HasStart, Syncs
  <2>2. ASSUME NEW s, NEW Q, Serves(s, Q, ToSet(events), ed)
        PROVE  Serves(s, Q \cup ToSet(w.out), ToSet(events'), w)
    <3>. DEFINE A == Q \cup ToSet(m.out)
                B == Q \cup ToSet(w.out)
                E == ToSet(events')
    <3>1. Serves(s, A, E, m)
      BY <2>1, <2>2 DEF Asked
    <3>2. A \subseteq B /\ \A x \in B : x \in A \/ x.t \in DocRequests \cup {"start"}
      BY DEF Syncs
    <3>3. w.active = m.active /\ w.nextId = m.nextId
      BY DEF Syncs
    <3>. HIDE DEF A, B, E
    <3>4. Serves(s, B, E, w)
      BY <3>1, <3>2, <3>3, ServesMore
    <3>. QED BY <3>4 DEF B, E
  <2>3. w.load = m.load \/ w.load # "Indexing"
    BY DEF Syncs
  <2>4. ASSUME NEW W, Loads(events, ed.load, W) PROVE Loads(events', w.load, W)
    <3>1. Loads(events', m.load, W)
      BY <2>1, <2>4 DEF Asked
    <3>. QED BY <2>3, <3>1, LoadsLess
  <2>. QED BY <2>2, <2>4
<1>. QED BY <1>1, <1>2, <1>3, <1>4 DEF Asked

\* Transactions on some buffers, after which the documents are synchronised.
LEMMA ApplyAsked ==
  ASSUME NEW m, NEW p, Sim(m, p), Asked(m), EditEnds(m), NEW cs, DOMAIN cs \subseteq Docs,
         \A d \in DOMAIN cs : cs[d] \in Changes /\ m.text[d] # None /\ cs[d].len = Len(m.text[d]),
         NEW w, w = SyncLspDocuments(ApplyToBuffers(m, cs))
  PROVE  Asked(w) /\ EditEnds(w)
<1>. DEFINE a == ApplyToBuffers(m, cs)
<1>1. Sim(a, p)
  BY ApplySims
<1>2. ModelFields \subseteq DOMAIN m
  BY DEF Sim, IsModel
<1>3. /\ a.edit = m.edit /\ a.reads = m.reads /\ a.restored = m.restored /\ a.active = m.active
      /\ a.nextId = m.nextId /\ a.out = m.out /\ a.load = m.load /\ a.started = m.started
  BY <1>2 DEF ApplyToBuffers, ModelFields
<1>4. w = SyncLspDocuments(a)
  OBVIOUS
<1>. HIDE DEF a
<1>5. Asked(a) /\ EditEnds(a)
  BY <1>3, QuietAsked DEF EditEnds, Held
<1>6. Syncs(a, w)
  BY <1>1, <1>4, SyncAllSyncs
<1>. QED BY <1>1, <1>5, <1>6, SyncsAsked DEF Sim

\* Before it does anything.
LEMMA BeginsAsked ==
  ASSUME LspInv, WaitInv, events' = events
  PROVE  Asked(ed) /\ EditEnds(ed) /\ Held(ed) /\ ed.out = <<>> /\ ~HasStart(ed)
<1>1. ed.out = <<>> /\ EditEnds(ed) /\ Ids(ed) /\ Held(ed)
  BY DEF LspInv, Core, WaitInv, EditEnds
<1>2. ToSet(ed.out) = {}
  BY <1>1 DEF ToSet
<1>3. ~HasStart(ed)
  BY <1>2 DEF HasStart
<1>4. ASSUME NEW s, NEW Q, Serves(s, Q, ToSet(events), ed)
      PROVE  Serves(s, Q \cup ToSet(ed.out), ToSet(events'), ed)
  <2>1. Q \cup ToSet(ed.out) = Q
    BY <1>2
  <2>. QED BY <1>4, <2>1
<1>. QED BY <1>1, <1>3, <1>4 DEF Asked

\* finish_pending_workspace_edit.
LEMMA FinishAsked ==
  ASSUME NEW m, NEW p, Sim(m, p), Asked(m), Held(m), NEW w, w = FinishWorkspaceEdit(m)
  PROVE  Asked(w) /\ EditEnds(w)
<1>0. IsModel(m)
  BY DEF Sim
<1>1. /\ ModelFields \subseteq DOMAIN m /\ m.text \in [Docs -> Seq(Chars) \cup {None}]
      /\ m.pend \in [Docs -> Seq(Changes)] /\ DOMAIN m.diag = Docs
  BY <1>0 DEF IsModel
<1>. DEFINE e == m.edit
            b == [m EXCEPT !.edit = None]
            cs == [d \in DOMAIN e.changes |-> BuildLspChanges(m.text[d], e.changes[d])]
<1>2. CASE w = m /\ (m.edit # None => m.edit.waiting # {})
  BY <1>2 DEF EditEnds
<1>3. /\ b.text = m.text /\ b.pend = m.pend /\ b.open = m.open /\ b.next = m.next
      /\ b.synced = m.synced /\ b.started = m.started /\ b.out = m.out /\ b.edit = None
      /\ ModelFields \subseteq DOMAIN b /\ b.diag = m.diag
      /\ b.active = m.active /\ b.nextId = m.nextId /\ b.load = m.load
  BY <1>1 DEF ModelFields
<1>4. Sim(b, p)
  <2>. HIDE DEF b
  <2>. QED BY <1>1, <1>3, QuietSims
<1>5. Asked(b) /\ EditEnds(b)
  <2>. HIDE DEF b
  <2>. QED BY <1>3, QuietAsked DEF EditEnds, Held
<1>6. CASE w = b
  BY <1>5, <1>6
<1>7. CASE /\ m.edit # None /\ \A d \in DOMAIN e.changes : m.text[d] # None
           /\ w = SyncLspDocuments(ApplyToBuffers(b, cs))
  <2>1. DOMAIN e.changes \subseteq Docs /\ \A d \in DOMAIN e.changes : e.changes[d] \in Changes
    BY <1>0, <1>7 DEF IsModel, IsEdit
  <2>2. \A d \in DOMAIN cs : cs[d] \in Changes /\ b.text[d] # None /\ cs[d].len = Len(b.text[d])
    <3>. TAKE d \in DOMAIN cs
    <3>1. d \in DOMAIN e.changes /\ d \in Docs
      BY <2>1
    <3>2. m.text[d] \in Seq(Chars) /\ e.changes[d] \in Changes
      BY <1>1, <1>7, <2>1, <3>1
    <3>3. cs[d] = BuildLspChanges(m.text[d], e.changes[d])
      BY <3>1
    <3>. QED BY <1>3, <1>7, <3>1, <3>2, <3>3, BuiltChangesFit
  <2>3. DOMAIN cs \subseteq Docs
    BY <2>1
  <2>. HIDE DEF b, cs
  <2>4. w = SyncLspDocuments(ApplyToBuffers(b, cs))
    BY <1>7
  <2>. QED BY <1>4, <1>5, <2>2, <2>3, <2>4, ApplyAsked
<1>. QED BY <1>2, <1>6, <1>7 DEF FinishWorkspaceEdit

\* apply_workspace_edit.
LEMMA ApplyEditAsked ==
  ASSUME NEW m, NEW p, Sim(m, p), Asked(m), EditEnds(m), NEW e, DOMAIN e.changes \subseteq Docs,
         \A d \in DOMAIN e.changes : e.changes[d] \in Changes,
         NEW w, w = ApplyWorkspaceEdit(m, e)
  PROVE  Asked(w) /\ EditEnds(w)
<1>1. /\ ModelFields \subseteq DOMAIN m /\ m.text \in [Docs -> Seq(Chars) \cup {None}]
      /\ m.pend \in [Docs -> Seq(Changes)] /\ DOMAIN m.diag = Docs
  BY DEF Sim, IsModel
<1>. DEFINE missing == {d \in DOMAIN e.changes : m.text[d] = None}
            g == [changes |-> e.changes, waiting |-> missing]
            b == [m EXCEPT !.reads = @ \cup missing, !.edit = g]
<1>2. CASE w = m
  BY <1>2
<1>3. CASE w = FinishWorkspaceEdit(b)
  <2>1. IsEdit(g) /\ g.waiting = missing
    BY DEF IsEdit
  <2>. HIDE DEF missing, g
  <2>2. /\ b.text = m.text /\ b.pend = m.pend /\ b.open = m.open /\ b.next = m.next
        /\ b.synced = m.synced /\ b.started = m.started /\ b.out = m.out /\ b.edit = g
        /\ ModelFields \subseteq DOMAIN b /\ b.diag = m.diag /\ b.reads = m.reads \cup missing
        /\ b.active = m.active /\ b.nextId = m.nextId /\ b.load = m.load
    BY <1>1 DEF ModelFields
  <2>. HIDE DEF b
  <2>3. Sim(b, p)
    BY <1>1, <2>1, <2>2, QuietSims
  <2>4. Asked(b)
    BY <2>2, QuietAsked
  <2>5. Held(b)
    BY <2>1, <2>2 DEF Held
  <2>. QED BY <1>3, <2>3, <2>4, <2>5, FinishAsked
<1>. QED BY <1>2, <1>3 DEF ApplyWorkspaceEdit

\* apply_text_edits.
LEMMA ApplyTextEditsAsked ==
  ASSUME NEW m, NEW p, Sim(m, p), Asked(m), EditEnds(m), NEW e, DOMAIN e.changes \subseteq Docs,
         DOMAIN e.changes # {}, \A d \in DOMAIN e.changes : e.changes[d] \in Changes,
         NEW w, w = ApplyTextEdits(m, e)
  PROVE  Asked(w) /\ EditEnds(w)
<1>. DEFINE d == CHOOSE x \in DOMAIN e.changes : TRUE
            c == BuildLspChanges(m.text[d], e.changes[d])
            cs == [x \in {d} |-> c]
<1>1. d \in DOMAIN e.changes /\ d \in Docs /\ e.changes[d] \in Changes
  OBVIOUS
<1>2. m.text \in [Docs -> Seq(Chars) \cup {None}]
  BY DEF Sim, IsModel
<1>3. CASE m.text[d] = None
  BY <1>3 DEF ApplyTextEdits
<1>4. CASE m.text[d] # None
  <2>1. w = SyncLspDocuments(ApplyToBuffers(m, cs))
    BY <1>4 DEF ApplyTextEdits, ApplyToBuffer
  <2>. HIDE DEF d
  <2>2. m.text[d] \in Seq(Chars)
    BY <1>1, <1>2, <1>4
  <2>3. c \in Changes /\ c.len = Len(m.text[d])
    BY <1>1, <2>2, BuiltChangesFit
  <2>. HIDE DEF c
  <2>4. DOMAIN cs = {d} /\ cs[d] = c
    OBVIOUS
  <2>. HIDE DEF cs
  <2>5. DOMAIN cs \subseteq Docs
        /\ \A x \in DOMAIN cs : cs[x] \in Changes /\ m.text[x] # None /\ cs[x].len = Len(m.text[x])
    BY <1>1, <1>4, <2>3, <2>4
  <2>. QED BY <2>1, <2>5, ApplyAsked
<1>. QED BY <1>3, <1>4

\* close_lsp_document.
LEMMA CloseSyncs ==
  ASSUME NEW m, ModelFields \subseteq DOMAIN m, List(m.out), NEW d, NEW w, w = CloseLspDocument(m, d)
  PROVE  Syncs(m, w)
<1>. DEFINE b == [m EXCEPT !.open[d] = 0, !.synced[d] = <<>>]
            r == [t |-> "close", doc |-> d]
            s == IF m.open[d] = 0 THEN m ELSE Push(b, r)
<1>1. /\ ModelFields \subseteq DOMAIN b /\ b.out = m.out /\ b.edit = m.edit /\ b.reads = m.reads
      /\ b.restored = m.restored /\ b.active = m.active /\ b.nextId = m.nextId
      /\ b.started = m.started /\ b.load = m.load
  BY DEF ModelFields
<1>2. r.t \in DocRequests
  BY DEF DocRequests
<1>3. w = [s EXCEPT !.diag[d] = None]
  BY DEF CloseLspDocument, DidClose
<1>. HIDE DEF b, r
<1>4. Syncs(m, s)
  BY <1>1, <1>2, SyncsPush, OpenSyncs
<1>. HIDE DEF s
<1>5. ModelFields \subseteq DOMAIN s
  BY <1>4 DEF Syncs
<1>6. /\ DOMAIN w = DOMAIN s /\ w.out = s.out /\ w.edit = s.edit /\ w.reads = s.reads
      /\ w.restored = s.restored /\ w.active = s.active /\ w.nextId = s.nextId
      /\ w.started = s.started /\ w.load = s.load
  BY <1>3, <1>5 DEF ModelFields
<1>. QED BY <1>4, <1>6 DEF Syncs

\* A request, after the cancellation of the one of its kind.
LEMMA AskAsked ==
  ASSUME LspInv, WaitInv, events' = events, ed.started, NEW k \in Kinds, NEW d,
         NEW w, w = AskServer(ed, k, d)
  PROVE  Asked(w) /\ EditEnds(w)
<1>. DEFINE i == ed.active[k]
            n == ed.nextId + 1
            c == [t |-> "cancel", id |-> i]
            x == [t |-> "ask", id |-> n, kind |-> k, doc |-> d]
            a == IF i = 0 THEN ed ELSE Push(ed, c)
            b == [a EXCEPT !.nextId = n, !.active[k] = n]
<1>1. /\ w = Push(b, x) /\ x.t = "ask" /\ x.id = n /\ x.kind = k /\ c.t = "cancel" /\ c.id = i
  BY DEF AskServer
<1>2. ModelFields \subseteq DOMAIN ed /\ List(ed.out) /\ ed.out = <<>> /\ EditEnds(ed) /\ Ids(ed)
  BY DEF LspInv, Core, IsModel, WaitInv
<1>3. ed.nextId \in Nat /\ ed.active \in [Kinds -> 0..ed.nextId] /\ i \in 0..ed.nextId /\ n \in Nat
  BY <1>2 DEF Ids
<1>. HIDE DEF i, n, c, x
<1>4. /\ DOMAIN a = DOMAIN ed /\ a.edit = ed.edit /\ a.reads = ed.reads /\ a.restored = ed.restored
      /\ a.active = ed.active /\ a.load = ed.load /\ a.started = ed.started
      /\ ((i = 0 /\ a.out = ed.out) \/ (i # 0 /\ a.out = Append(ed.out, c)))
  <2>. DEFINE y == [ed EXCEPT !.out = Append(@, c)]
  <2>1. (i = 0 /\ a = ed) \/ (i # 0 /\ a = y)
    BY DEF Push
  <2>2. /\ DOMAIN y = DOMAIN ed /\ y.edit = ed.edit /\ y.reads = ed.reads /\ y.restored = ed.restored
        /\ y.active = ed.active /\ y.load = ed.load /\ y.started = ed.started
        /\ y.out = Append(ed.out, c)
    BY <1>2 DEF ModelFields
  <2>. HIDE DEF y, a
  <2>. QED BY <2>1, <2>2
<1>5. List(a.out) /\ ToSet(a.out) = IF i = 0 THEN {} ELSE {c}
  <2>. DEFINE q == ed.out
  <2>1. List(q) /\ ToSet(q) = {} /\ ((i = 0 /\ a.out = q) \/ (i # 0 /\ a.out = Append(q, c)))
    BY <1>2, <1>4 DEF ToSet
  <2>. HIDE DEF q
  <2>2. List(Append(q, c)) /\ ToSet(Append(q, c)) = ToSet(q) \cup {c}
    <3>1. List(Append(q, c))
      BY <2>1, ListFacts
    <3>. QED BY <2>1, <3>1, MembersFacts
  <2>. QED BY <2>1, <2>2
<1>. HIDE DEF a
<1>6. /\ DOMAIN b = DOMAIN a /\ b.edit = a.edit /\ b.reads = a.reads /\ b.restored = a.restored
      /\ b.active = [a.active EXCEPT ![k] = n] /\ b.nextId = n /\ b.load = a.load
      /\ b.started = a.started /\ b.out = a.out
  BY <1>2, <1>4 DEF ModelFields
<1>. HIDE DEF b
<1>7. /\ w.edit = ed.edit /\ w.reads = ed.reads /\ w.restored = ed.restored
      /\ w.active = [ed.active EXCEPT ![k] = n] /\ w.nextId = n /\ w.load = ed.load
      /\ w.started = ed.started /\ w.out = Append(a.out, x)
  <2>1. /\ w.edit = b.edit /\ w.reads = b.reads /\ w.restored = b.restored
        /\ w.active = b.active /\ w.nextId = b.nextId /\ w.load = b.load
        /\ w.started = b.started /\ w.out = Append(b.out, x)
    <3>1. w = [b EXCEPT !.out = Append(@, x)]
      BY <1>1 DEF Push
    <3>2. ModelFields \subseteq DOMAIN b
      BY <1>2, <1>4, <1>6
    <3>. QED BY <3>1, <3>2 DEF ModelFields
  <2>. QED BY <1>4, <1>6, <2>1
<1>8. ToSet(w.out) = {x} \cup IF i = 0 THEN {} ELSE {c}
  <2>. DEFINE q == a.out
  <2>1. List(q) /\ w.out = Append(q, x)
    BY <1>5, <1>7
  <2>. HIDE DEF q
  <2>2. ToSet(w.out) = ToSet(q) \cup {x}
    BY <2>1, MembersFacts
  <2>. QED BY <1>5, <2>2 DEF q
<1>9. EditEnds(w)
  BY <1>2, <1>7 DEF EditEnds, Held
<1>10. w.active \in [Kinds -> 0..n] /\ w.active[k] = n /\ \A j \in Kinds \ {k} : w.active[j] = ed.active[j]
  BY <1>3, <1>7 DEF n
<1>11. n \notin 0..ed.nextId /\ n # 0 /\ n \in 1..n /\ (i # 0 => i \in 1..n) /\ 1..ed.nextId \subseteq 1..n
  BY <1>3 DEF n
<1>12. Ids(w)
  <2>1. ASSUME NEW j \in Kinds, NEW l \in Kinds, w.active[j] = w.active[l], w.active[j] # 0 PROVE j = l
    <3>1. j # k => w.active[j] \in 0..ed.nextId
      BY <1>3, <1>10
    <3>2. l # k => w.active[l] \in 0..ed.nextId
      BY <1>3, <1>10
    <3>3. CASE j = k \/ l = k
      BY <1>10, <1>11, <2>1, <3>1, <3>2, <3>3
    <3>4. CASE j # k /\ l # k
      BY <1>2, <1>10, <2>1, <3>4 DEF Ids
    <3>. QED BY <3>3, <3>4
  <2>. QED BY <1>3, <1>7, <1>10, <2>1 DEF Ids
<1>13. ~HasStart(w)
  BY <1>1, <1>8 DEF HasStart
<1>14. ASSUME NEW s, NEW Q, Serves(s, Q, ToSet(events), ed)
       PROVE  Serves(s, Q \cup ToSet(w.out), ToSet(events'), w)
  <2>. DEFINE R == Q \cup ToSet(w.out)
              E == ToSet(events)
  <2>1. R = Q \cup {x} \cup IF i = 0 THEN {} ELSE {c}
    BY <1>8
  <2>. HIDE DEF R, E
  <2>2. Bounded(s, Q, ed.nextId) /\ \A j \in Kinds : Waits(ed, s, j) => Live(s, Q, E, j, ed.active[j])
    BY <1>14 DEF Serves, E
  <2>3. Bounded(s, R, n)
    BY <1>1, <1>11, <2>1, <2>2 DEF Bounded
  <2>4. ASSUME NEW j \in Kinds, j # k, Waits(w, s, j) PROVE Live(s, R, E, j, w.active[j])
    <3>. DEFINE l == w.active[j]
    <3>1. l = ed.active[j] /\ l # 0 /\ l \in 0..ed.nextId /\ Waits(ed, s, j)
      BY <1>3, <1>10, <2>4 DEF Waits
    <3>2. l # i /\ l # n
      BY <1>2, <1>11, <2>4, <3>1 DEF Ids, i
    <3>3. Live(s, Q, E, j, l)
      BY <2>2, <3>1
    <3>. HIDE DEF l
    <3>4. Live(s, R, E, j, l)
      BY <1>1, <2>1, <3>2, <3>3 DEF Live
    <3>. QED BY <3>4 DEF l
  <2>5. Live(s, R, E, k, n)
    <3>1. n \notin s.tr.cancelled /\ (\A r \in s.proc.owes : r.id # n)
          /\ \A y \in Q : y.t \in {"ask", "cancel", "response"} => y.id # n
      <4>1. n \notin 1..ed.nextId
        BY <1>3, <1>11
      <4>. QED BY <2>2, <4>1 DEF Bounded
    <3>2. i # n
      BY <1>3, <1>11
    <3>. QED BY <1>1, <2>1, <3>1, <3>2 DEF Live
  <2>. QED BY <1>7, <1>10, <2>3, <2>4, <2>5 DEF Serves, R, E
<1>. QED BY <1>7, <1>9, <1>12, <1>13, <1>14 DEF Asked

\* reset_for_restart, and the start that follows it.
LEMMA RestartAsked ==
  ASSUME LspInv, WaitInv, ed.started, NEW w, w = Push(ResetForRestart(ed), [t |-> "start"])
  PROVE  Asked(w) /\ EditEnds(w)
<1>. DEFINE b == ResetForRestart(ed)
            r == [t |-> "start"]
<1>1. ModelFields \subseteq DOMAIN ed /\ ed.out = <<>> /\ List(ed.out) /\ EditEnds(ed) /\ Ids(ed)
  BY DEF LspInv, Core, IsModel, WaitInv
<1>2. /\ DOMAIN b = DOMAIN ed /\ b.out = ed.out /\ b.edit = ed.edit /\ b.reads = ed.reads
      /\ b.restored = ed.restored /\ b.active = [k \in Kinds |-> 0] /\ b.nextId = ed.nextId
      /\ b.started = ed.started /\ b.load = "Starting"
  BY <1>1 DEF ResetForRestart, ModelFields
<1>3. r.t = "start" /\ w = Push(b, r)
  OBVIOUS
<1>. HIDE DEF b, r
<1>4. /\ w.edit = ed.edit /\ w.reads = ed.reads /\ w.restored = ed.restored
      /\ w.active = [k \in Kinds |-> 0] /\ w.nextId = ed.nextId /\ w.started = ed.started
      /\ w.load = "Starting" /\ w.out = Append(ed.out, r)
  BY <1>1, <1>2, <1>3 DEF Push, ModelFields
<1>5. ToSet(w.out) = {r}
  <2>. DEFINE q == ed.out
  <2>1. List(q) /\ ToSet(q) = {} /\ w.out = Append(q, r)
    BY <1>1, <1>4 DEF ToSet
  <2>. HIDE DEF q
  <2>2. ToSet(Append(q, r)) = ToSet(q) \cup {r}
    BY <2>1, MembersFacts
  <2>. QED BY <2>1, <2>2
<1>6. EditEnds(w)
  BY <1>1, <1>4 DEF EditEnds, Held
<1>7. Ids(w)
  BY <1>1, <1>4 DEF Ids
<1>8. HasStart(w)
  BY <1>3, <1>5 DEF HasStart
<1>. QED BY <1>3, <1>4, <1>5, <1>6, <1>7, <1>8 DEF Asked

\* A list without its head, member by member.
LEMMA TailIs ==
  ASSUME NEW q, List(q), q # <<>>
  PROVE  /\ List(Tail(q)) /\ Head(q) = q[1] /\ 1 \in 1..Len(q) /\ Len(Tail(q)) = Len(q) - 1
         /\ Len(q) \in Nat /\ \A j \in 1..Len(q) : j # 1 => j - 1 \in 1..Len(Tail(q)) /\ Tail(q)[j - 1] = q[j]
         /\ \A k \in 1..Len(Tail(q)) : k + 1 \in 1..Len(q) /\ Tail(q)[k] = q[k + 1]
<1>. DEFINE t == Tail(q)
<1>1. /\ List(t) /\ Head(q) = q[1] /\ 1 \in 1..Len(q)
      /\ \A k \in 1..Len(t) : k + 1 \in 1..Len(q) /\ t[k] = q[k + 1]
  BY TailFacts
<1>2. Len(t) = Len(q) - 1
  <2>. DEFINE C == {q[k] : k \in DOMAIN q}
  <2>1. q \in Seq(C)
    BY DEF List
  <2>. HIDE DEF C
  <2>. QED BY <2>1
<1>3. Len(q) \in Nat
  BY ListFacts
<1>. HIDE DEF t
<1>4. ASSUME NEW j \in 1..Len(q), j # 1 PROVE j - 1 \in 1..Len(t) /\ t[j - 1] = q[j]
  <2>1. j - 1 \in 1..Len(t) /\ (j - 1) + 1 = j
    BY <1>2, <1>3, <1>4
  <2>. QED BY <1>1, <2>1
<1>. QED BY <1>1, <1>2, <1>3, <1>4 DEF t

\* The status is set by an event that is taken, or by those that wait.
LEMMA TailLoads ==
  ASSUME NEW es, List(es), es # <<>>, NEW l, NEW W, Loads(es, l, W), NEW x,
         \/ x # "Indexing"
         \/ ~Sets(Head(es)) /\ x = l
         \/ Head(es).t = "load" /\ x = Head(es).load
  PROVE  Loads(Tail(es), x, W)
<1>. DEFINE q == Tail(es)
<1>1. /\ Head(es) = es[1] /\ 1 \in 1..Len(es) /\ Len(es) \in Nat
      /\ \A j \in 1..Len(es) : j # 1 => j - 1 \in 1..Len(q) /\ q[j - 1] = es[j]
      /\ \A k \in 1..Len(q) : k + 1 \in 1..Len(es) /\ q[k] = es[k + 1]
  BY TailIs
<1>. HIDE DEF q
<1>2. ASSUME x = "Indexing", \A j \in 1..Len(q) : ~Sets(q[j]) PROVE W
  <2>1. \A j \in 1..Len(es) : j # 1 => ~Sets(es[j])
    BY <1>1, <1>2
  <2>2. CASE ~Sets(Head(es)) /\ x = l
    <3>1. \A j \in 1..Len(es) : ~Sets(es[j])
      BY <1>1, <2>1, <2>2
    <3>. QED BY <1>2, <2>2, <3>1 DEF Loads
  <2>3. CASE Head(es).t = "load" /\ x = Head(es).load
    <3>1. es[1].t = "load" /\ es[1].load = "Indexing" /\ \A j \in 1..Len(es) : j > 1 => ~Sets(es[j])
      BY <1>1, <1>2, <2>1, <2>3
    <3>. QED BY <1>1, <3>1 DEF Loads
  <2>. QED BY <1>2, <2>2, <2>3
<1>3. ASSUME NEW k \in 1..Len(q), q[k].t = "load", q[k].load = "Indexing",
             \A j \in 1..Len(q) : j > k => ~Sets(q[j])
      PROVE  W
  <2>1. k + 1 \in 1..Len(es) /\ q[k] = es[k + 1]
    BY <1>1
  <2>2. ASSUME NEW j \in 1..Len(es), j > k + 1 PROVE ~Sets(es[j])
    <3>1. j # 1 /\ j - 1 > k
      BY <1>1, <1>3, <2>2
    <3>. QED BY <1>1, <1>3, <3>1
  <2>. QED BY <1>3, <2>1, <2>2 DEF Loads
<1>. QED BY <1>2, <1>3 DEF Loads, q

\* An event is taken: what it answers is not waited for any more.
LEMMA TakenAsked ==
  ASSUME LspInv, WaitInv, events # <<>>, events' = Tail(events), NEW e, e = Head(events),
         NEW b, b.out = <<>>, Ids(b), b.nextId = ed.nextId,
         \A k \in Kinds : b.active[k] \in {0, ed.active[k]},
         \A k \in Kinds : b.active[k] # 0 =>
           /\ e.t = "failed" => e.id # b.active[k]
           /\ e.t = "answer" => e.id # b.active[k] \/ e.kind # k,
         b.load # "Indexing" \/ (~Sets(e) /\ b.load = ed.load) \/ (e.t = "load" /\ b.load = e.load)
  PROVE  Asked(b)
<1>1. ToSet(b.out) = {}
  BY DEF ToSet
<1>2. List(events)
  BY DEF LspInv, Core, Follows, Tidings
<1>3. ~HasStart(b)
  BY <1>1 DEF HasStart
<1>4. ToSet(events) = {e} \cup ToSet(events')
  BY <1>2, MembersFacts
<1>5. ASSUME NEW s, NEW Q, Serves(s, Q, ToSet(events), ed)
      PROVE  Serves(s, Q \cup ToSet(b.out), ToSet(events'), b)
  <2>. DEFINE E == ToSet(events)
              D == ToSet(events')
              R == Q \cup ToSet(b.out)
  <2>1. R = Q /\ E = {e} \cup D
    BY <1>1, <1>4
  <2>. HIDE DEF E, D, R
  <2>2. Serves(s, Q, E, ed)
    BY <1>5 DEF E
  <2>3. ASSUME NEW k \in Kinds, Waits(b, s, k) PROVE Live(s, Q, D, k, b.active[k])
    <3>1. b.active[k] = ed.active[k] /\ b.active[k] # 0 /\ Waits(ed, s, k)
      BY <2>3 DEF Waits
    <3>2. Live(s, Q, E, k, b.active[k])
      BY <2>2, <3>1 DEF Serves
    <3>. QED BY <2>1, <3>1, <3>2 DEF Live
  <2>4. Serves(s, R, D, b)
    BY <2>1, <2>2, <2>3 DEF Serves
  <2>. QED BY <2>4 DEF R, D
<1>6. ASSUME NEW W, Loads(events, ed.load, W) PROVE Loads(events', b.load, W)
  BY <1>2, <1>6, TailLoads
<1>. QED BY <1>3, <1>5, <1>6 DEF Asked

\* on_lsp_event.
LEMMA EventAsked ==
  ASSUME LspInv, WaitInv, events # <<>>, events' = Tail(events), NEW e, e = Head(events),
         IsEvent(e), NEW w, w = OnLspEvent(ed, e)
  PROVE  Asked(w) /\ EditEnds(w)
<1>1. /\ ModelFields \subseteq DOMAIN ed /\ ed.out = <<>> /\ EditEnds(ed) /\ Ids(ed) /\ IsModel(ed)
      /\ DOMAIN ed.diag = Docs /\ ed.text \in [Docs -> Seq(Chars) \cup {None}]
      /\ ed.pend \in [Docs -> Seq(Changes)] /\ (ed.edit # None => IsEdit(ed.edit))
  BY DEF LspInv, Core, IsModel, WaitInv
<1>2. ed.nextId \in Nat /\ ed.active \in [Kinds -> 0..ed.nextId]
  BY <1>1 DEF Ids
<1>3. CASE e.t = "diagnostics"
  <2>1. w = ed \/ w = [ed EXCEPT !.diag[e.doc] = e]
    BY <1>3 DEF OnLspEvent, OnDiagnostics, SyncLspDiagnostics
  <2>2. /\ w.out = ed.out /\ w.active = ed.active /\ w.nextId = ed.nextId /\ w.load = ed.load
        /\ w.started = ed.started /\ w.edit = ed.edit /\ w.reads = ed.reads
        /\ w.restored = ed.restored
    BY <1>1, <2>1 DEF ModelFields
  <2>3. Ids(w) /\ EditEnds(w)
    BY <1>1, <2>2 DEF Ids, EditEnds, Held
  <2>4. ~Sets(e)
    BY <1>3 DEF Sets
  <2>5. w.out = <<>> /\ (\A k \in Kinds : w.active[k] \in {0, ed.active[k]}) /\ e.t \notin {"failed", "answer"}
    BY <1>1, <1>3, <2>2
  <2>6. Asked(w)
    BY <2>2, <2>3, <2>4, <2>5, TakenAsked
  <2>. QED BY <2>3, <2>6
<1>4. CASE e.t = "load"
  <2>1. w = [ed EXCEPT !.load = e.load]
    BY <1>4 DEF OnLspEvent
  <2>2. /\ w.out = ed.out /\ w.active = ed.active /\ w.nextId = ed.nextId /\ w.load = e.load
        /\ w.started = ed.started /\ w.edit = ed.edit /\ w.reads = ed.reads
        /\ w.restored = ed.restored
    BY <1>1, <2>1 DEF ModelFields
  <2>3. Ids(w) /\ EditEnds(w)
    BY <1>1, <2>2 DEF Ids, EditEnds, Held
  <2>4. w.out = <<>> /\ (\A k \in Kinds : w.active[k] \in {0, ed.active[k]}) /\ e.t \notin {"failed", "answer"}
    BY <1>1, <1>4, <2>2
  <2>5. Asked(w)
    BY <1>4, <2>2, <2>3, <2>4, TakenAsked
  <2>. QED BY <2>3, <2>5
<1>5. CASE e.t = "failed"
  <2>. DEFINE f == [k \in Kinds |-> IF ed.active[k] = e.id THEN 0 ELSE ed.active[k]]
  <2>1. \/ e.id = 0 /\ w = [ed EXCEPT !.load = "Unavailable"]
        \/ e.id # 0 /\ (\A k \in Kinds : ed.active[k] # e.id) /\ w = ed
        \/ e.id # 0 /\ w = [ed EXCEPT !.load = "Stale", !.active = f]
    BY <1>5 DEF OnLspEvent, OnFailed
  <2>2. f \in [Kinds -> 0..ed.nextId] /\ (\A k \in Kinds : f[k] # 0 => f[k] = ed.active[k] /\ f[k] # e.id)
        /\ (\A k \in Kinds : f[k] \in {0, ed.active[k]})
    BY <1>2
  <2>. HIDE DEF f
  <2>3. /\ w.out = ed.out /\ w.nextId = ed.nextId /\ w.started = ed.started /\ w.edit = ed.edit
        /\ w.reads = ed.reads /\ w.restored = ed.restored
        /\ \/ e.id = 0 /\ w.active = ed.active /\ w.load = "Unavailable"
           \/ e.id # 0 /\ (\A k \in Kinds : ed.active[k] # e.id) /\ w.active = ed.active /\ w.load = ed.load
           \/ e.id # 0 /\ w.active = f /\ w.load = "Stale"
    BY <1>1, <2>1 DEF ModelFields
  <2>4. Ids(w)
    <3>1. CASE w.active = ed.active
      BY <1>1, <2>3, <3>1 DEF Ids
    <3>2. CASE w.active = f
      BY <1>1, <2>2, <2>3, <3>2 DEF Ids
    <3>. QED BY <2>3, <3>1, <3>2
  <2>5. EditEnds(w)
    BY <1>1, <2>3 DEF EditEnds, Held
  <2>6. w.out = <<>> /\ (\A k \in Kinds : w.active[k] \in {0, ed.active[k]}) /\ e.t # "answer"
        /\ \A k \in Kinds : w.active[k] # 0 => e.id # w.active[k]
    BY <1>1, <1>5, <2>2, <2>3
  <2>7. w.load # "Indexing" \/ (~Sets(e) /\ w.load = ed.load)
    BY <1>5, <2>3 DEF Sets
  <2>8. Asked(w)
    BY <2>3, <2>4, <2>6, <2>7, TakenAsked
  <2>. QED BY <2>5, <2>8
<1>6. CASE e.t = "answer"
  <2>. DEFINE f == [ed.active EXCEPT ![e.kind] = 0]
              c == [ed EXCEPT !.active[e.kind] = 0]
  <2>0. ~Sets(e)
    BY <1>6 DEF Sets
  <2>1. CASE ed.active[e.kind] # e.id
    <3>1. w = ed
      BY <1>6, <2>1 DEF OnLspEvent, OnAnswer
    <3>2. Asked(w)
      BY <1>1, <1>6, <2>0, <2>1, <3>1, TakenAsked
    <3>. QED BY <1>1, <3>1, <3>2
  <2>2. CASE ed.active[e.kind] = e.id
    <3>1. /\ e.kind = "formatting" => w = ApplyTextEdits(c, e)
          /\ e.kind = "rename" => w = ApplyWorkspaceEdit(c, e)
          /\ e.kind \notin {"formatting", "rename"} => w = c
      BY <1>6, <2>2 DEF OnLspEvent, OnAnswer
    <3>2. /\ ModelFields \subseteq DOMAIN c /\ c.text = ed.text /\ c.pend = ed.pend
          /\ c.open = ed.open /\ c.next = ed.next /\ c.synced = ed.synced
          /\ c.started = ed.started /\ c.out = ed.out /\ c.edit = ed.edit /\ c.diag = ed.diag
          /\ c.reads = ed.reads /\ c.restored = ed.restored /\ c.nextId = ed.nextId
          /\ c.load = ed.load /\ c.active = f
      BY <1>1 DEF ModelFields
    <3>3. f \in [Kinds -> 0..ed.nextId] /\ \A k \in Kinds : f[k] = IF k = e.kind THEN 0 ELSE ed.active[k]
      <4>. DEFINE N == 0..ed.nextId
                  x == e.kind
                  g == ed.active
      <4>1. g \in [Kinds -> N] /\ 0 \in N /\ f = [g EXCEPT ![x] = 0]
        BY <1>2
      <4>. HIDE DEF N, x, g, f
      <4>2. f \in [Kinds -> N] /\ \A k \in Kinds : f[k] = IF k = x THEN 0 ELSE g[k]
        BY <4>1
      <4>. QED BY <4>2 DEF N, x, g
    <3>. HIDE DEF c, f
    <3>4. PICK h : Follows(h)
      BY DEF LspInv, Core
    <3>5. Sim(c, h)
      <4>1. Sim(ed, h)
        BY <3>4, FollowsSims DEF LspInv
      <4>. QED BY <1>1, <3>2, <4>1, QuietSims
    <3>6. Ids(c)
      BY <1>1, <3>2, <3>3 DEF Ids
    <3>7. EditEnds(c)
      BY <1>1, <3>2 DEF EditEnds, Held
    <3>8. /\ c.out = <<>> /\ (\A k \in Kinds : c.active[k] \in {0, ed.active[k]}) /\ e.t # "failed"
          /\ \A k \in Kinds : c.active[k] # 0 => e.kind # k
      BY <1>1, <1>6, <3>2, <3>3
    <3>9. Asked(c)
      BY <2>0, <3>2, <3>6, <3>8, TakenAsked
    <3>10. e.kind \in EditKinds => DOMAIN e.changes \subseteq Docs
                                   /\ \A d \in DOMAIN e.changes : e.changes[d] \in Changes
      BY <1>6 DEF IsEvent
    <3>11. CASE e.kind = "formatting"
      <4>1. DOMAIN e.changes # {}
        BY <1>6, <3>11 DEF IsEvent
      <4>. QED BY <3>1, <3>5, <3>7, <3>9, <3>10, <3>11, <4>1, ApplyTextEditsAsked DEF EditKinds
    <3>12. CASE e.kind = "rename"
      BY <3>1, <3>5, <3>7, <3>9, <3>10, <3>12, ApplyEditAsked DEF EditKinds
    <3>13. CASE e.kind \notin {"formatting", "rename"}
      BY <3>1, <3>7, <3>9, <3>13
    <3>. QED BY <3>11, <3>12, <3>13
  <2>. QED BY <2>1, <2>2
<1>. QED BY <1>3, <1>4, <1>5, <1>6 DEF IsEvent

-----------------------------------------------------------------------------
(***************************************************************************)
(* What the forwarding of requests leaves of it.                           *)
(***************************************************************************)

SessionFields == {"inbox", "gen", "stage", "tr", "proc", "lost"}

\* One more message: what is known of a token stays true.
LEMMA TracksMore ==
  ASSUME NEW s, List(s.inbox), NEW t, Tracks(s, t), NEW w, NEW x, x.inbox = Append(s.inbox, w),
         x.gen = s.gen, x.tr.progress = s.tr.progress,
         News(w, s.gen, t) /\ ~w.end => t \in x.proc.working,
         News(w, s.gen, t) \/ (t \in s.proc.working => t \in x.proc.working),
         NamelessEnd(w, s.gen) => x.proc.untold,
         Report(w, s.gen) \/ (s.proc.untold => x.proc.untold)
  PROVE  Tracks(x, t)
<1>. DEFINE q == s.inbox
            z == x.inbox
            g == s.gen
            n == Len(q)
<1>1. List(q) /\ z = Append(q, w)
  OBVIOUS
<1>. HIDE DEF q
<1>2. n \in Nat /\ Len(z) = n + 1
  BY <1>1, ListFacts
<1>3. z[n + 1] = w
  BY <1>1, ListFacts
<1>4. \A k \in 1..n : z[k] = q[k]
  BY <1>1, ListFacts
<1>. HIDE DEF z, n
<1>5. ASSUME t \in x.tr.progress, t \notin x.proc.working
      PROVE  \E k \in 1..Len(z) : News(z[k], g, t)
  <2>1. CASE News(w, g, t)
    <3>1. n + 1 \in 1..Len(z)
      BY <1>2
    <3>. QED BY <1>3, <2>1, <3>1
  <2>2. CASE ~News(w, g, t)
    <3>1. t \in s.tr.progress /\ t \notin s.proc.working
      BY <1>5, <2>2
    <3>2. PICK k \in 1..n : News(q[k], g, t)
      BY <3>1 DEF Tracks, q, n
    <3>3. k \in 1..Len(z)
      BY <1>2
    <3>. QED BY <1>4, <3>2, <3>3
  <2>. QED BY <2>1, <2>2
<1>6. ASSUME NEW k \in 1..Len(z), News(z[k], g, t), ~z[k].end,
             \A j \in 1..Len(z) : j > k => ~News(z[j], g, t)
      PROVE  t \in x.proc.working
  <2>1. CASE k = n + 1
    BY <1>3, <1>6, <2>1
  <2>2. CASE k # n + 1
    <3>1. k \in 1..n /\ n + 1 > k /\ n + 1 \in 1..Len(z)
      BY <1>2, <2>2
    <3>2. ~News(w, g, t)
      BY <1>3, <1>6, <3>1
    <3>3. \A j \in 1..n : j > k => ~News(q[j], g, t)
      <4>1. \A j \in 1..n : j \in 1..Len(z)
        BY <1>2
      <4>. QED BY <1>4, <1>6, <4>1
    <3>4. News(q[k], g, t) /\ ~q[k].end
      BY <1>4, <1>6, <3>1
    <3>5. t \in s.proc.working
      BY <3>1, <3>3, <3>4 DEF Tracks, q, n
    <3>. QED BY <3>2, <3>5
  <2>. QED BY <2>1, <2>2
<1>7. ASSUME NEW k \in 1..Len(z), NamelessEnd(z[k], g),
             \A j \in 1..Len(z) : j > k => ~Report(z[j], g)
      PROVE  x.proc.untold
  <2>1. CASE k = n + 1
    BY <1>3, <1>7, <2>1
  <2>2. CASE k # n + 1
    <3>1. k \in 1..n /\ n + 1 > k /\ n + 1 \in 1..Len(z)
      BY <1>2, <2>2
    <3>2. ~Report(w, g)
      BY <1>3, <1>7, <3>1
    <3>3. \A j \in 1..n : j > k => ~Report(q[j], g)
      <4>1. \A j \in 1..n : j \in 1..Len(z)
        BY <1>2
      <4>. QED BY <1>4, <1>7, <4>1
    <3>4. NamelessEnd(q[k], g)
      BY <1>4, <1>7, <3>1
    <3>5. s.proc.untold
      BY <3>1, <3>3, <3>4 DEF Tracks, EndIsTold, q, n
    <3>. QED BY <3>2, <3>5
  <2>. QED BY <2>1, <2>2
<1>. QED BY <1>5, <1>6, <1>7 DEF Tracks, EndIsTold, z

\* x is session s with the requests of Q in its inbox.
Reaches(x, s, Q) ==
  /\ SessionFields \subseteq DOMAIN x /\ List(x.inbox)
  /\ x.gen = s.gen /\ x.stage = s.stage /\ x.tr = s.tr /\ x.proc = s.proc /\ x.lost = s.lost
  /\ s.stage # "over" => ToSet(x.inbox) = ToSet(s.inbox) \cup Q
  /\ Orderly(s) => Orderly(x)

\* One request.
LEMMA SendReaches ==
  ASSUME NEW s, NEW x, NEW Q, Reaches(x, s, Q), NEW r, r.t \in Requests
  PROVE  Reaches(SendTo(x, r), s, Q \cup {r})
<1>. DEFINE y == SendTo(x, r)
<1>1. CASE x.stage = "over"
  BY <1>1 DEF Reaches, SendTo
<1>2. CASE x.stage # "over"
  <2>1. y = [x EXCEPT !.inbox = Append(@, r)]
    BY <1>2 DEF SendTo
  <2>2. /\ DOMAIN y = DOMAIN x /\ y.inbox = Append(x.inbox, r) /\ y.gen = x.gen
        /\ y.stage = x.stage /\ y.tr = x.tr /\ y.proc = x.proc /\ y.lost = x.lost
    BY <2>1 DEF Reaches, SessionFields
  <2>. HIDE DEF y
  <2>3. List(x.inbox)
    BY DEF Reaches
  <2>4. List(y.inbox) /\ ToSet(y.inbox) = ToSet(x.inbox) \cup {r}
    <3>. DEFINE q == x.inbox
    <3>1. List(q) /\ y.inbox = Append(q, r)
      BY <2>2, <2>3
    <3>. HIDE DEF q
    <3>2. List(Append(q, r))
      BY <3>1, ListFacts
    <3>3. ToSet(Append(q, r)) = ToSet(q) \cup {r}
      BY <3>1, MembersFacts
    <3>. QED BY <3>1, <3>2, <3>3 DEF q
  <2>5. ASSUME Orderly(x) PROVE Orderly(y)
    <3>1. Proper(r, x.gen)
      BY DEF Proper, Requests
    <3>2. ProperInbox(y)
      BY <1>2, <2>2, <2>4, <2>5, <3>1 DEF Orderly, ProperInbox
    <3>3. ASSUME NEW t PROVE Tracks(y, t)
      <4>1. ~News(r, x.gen, t) /\ ~Report(r, x.gen) /\ ~NamelessEnd(r, x.gen)
        BY DEF News, Report, NamelessEnd, Requests
      <4>2. Tracks(x, t)
        BY <1>2, <2>5 DEF Orderly, TracksAll
      <4>. QED BY <2>2, <2>3, <4>1, <4>2, TracksMore
    <3>4. EndIsKnown(y)
      <4>1. ToSet(x.inbox) \subseteq ToSet(y.inbox)
        BY <2>4
      <4>. QED BY <1>2, <2>2, <2>5, <4>1 DEF Orderly, EndIsKnown
    <3>5. QueuesRequests(y)
      BY <1>2, <2>2, <2>5 DEF Orderly, QueuesRequests
    <3>6. TracksAll(y)
      BY <3>3 DEF TracksAll
    <3>. QED BY <3>2, <3>4, <3>5, <3>6 DEF Orderly
  <2>6. Reaches(y, s, Q \cup {r})
    <3>1. s.stage # "over" /\ ToSet(y.inbox) = ToSet(s.inbox) \cup (Q \cup {r})
      BY <1>2, <2>4 DEF Reaches
    <3>. QED BY <2>2, <2>4, <2>5, <3>1 DEF Reaches
  <2>. QED BY <2>6 DEF y
<1>. QED BY <1>1, <1>2

ForwardFields == {"sess", "at", "used"}

\* b is a with the requests of Q forwarded, none of which is a start.
Forwards(b, a, Q) ==
  /\ ForwardFields \subseteq DOMAIN b /\ DOMAIN b.sess = DOMAIN a.sess
  /\ b.at = a.at /\ b.used = a.used
  /\ a.at # 0 => Reaches(b.sess[a.at], a.sess[a.at], Q)

\* Requests are forwarded to the session that is bound to the server id.
LEMMA ForwardQuiet ==
  ASSUME NEW a, ForwardFields \subseteq DOMAIN a, a.at # 0 => a.at \in DOMAIN a.sess,
         a.at # 0 => Reaches(a.sess[a.at], a.sess[a.at], {}),
         NEW s, List(s), \A k \in 1..Len(s) : s[k].t \in Requests \ {"start"}
  PROVE  Forwards(Fold([op |-> "forward"], a, s), a, ToSet(s))
<1>. DEFINE o == [op |-> "forward"]
            n == Len(s)
            In(k) == {s[j] : j \in 1..k}
<1>1. n \in Nat
  BY ListFacts
<1>2. \A b, x : Do(o, b, x) = Forward(b, x)
  BY DoFacts
<1>. HIDE DEF o, n
<1>3. PICK f : IsRun(f, o, a, s, n) /\ Fold(o, a, s) = f[n]
  BY FoldIs DEF n
<1>. DEFINE T == {k \in Nat : k <= n => Forwards(f[k], a, In(k))}
<1>4. 0 \in T
  <2>1. In(0) = {} /\ f[0] = a
    BY <1>3 DEF IsRun
  <2>2. Forwards(a, a, {})
    BY DEF Forwards
  <2>. HIDE DEF In
  <2>. QED BY <2>1, <2>2
<1>5. ASSUME NEW k \in Nat, k \in T PROVE k + 1 \in T
  <2>1. CASE k + 1 <= n
    <3>. DEFINE x == f[k]
                y == f[k + 1]
                r == s[k + 1]
                Q == In(k)
    <3>1. k + 1 \in 1..n /\ (k + 1) - 1 = k /\ k <= n
      BY <1>1, <2>1
    <3>2. y = Forward(x, r)
      BY <1>2, <1>3, <3>1 DEF IsRun
    <3>3. Forwards(x, a, Q)
      BY <1>5, <3>1
    <3>4. r.t \in Requests \ {"start"}
      BY <3>1 DEF n
    <3>5. In(k + 1) = Q \cup {r}
      <4>1. 1..(k + 1) = (1..k) \cup {k + 1}
        OBVIOUS
      <4>. QED BY <4>1
    <3>. HIDE DEF x, y, r, Q, In
    <3>6. Forwards(y, a, Q \cup {r})
      <4>1. CASE a.at = 0
        BY <3>2, <3>3, <3>4, <4>1 DEF Forward, Forwards
      <4>2. CASE a.at # 0
        <5>. DEFINE i == a.at
                    u == SendTo(x.sess[i], r)
        <5>1. y = [x EXCEPT !.sess[i] = u]
          BY <3>2, <3>3, <3>4, <4>2 DEF Forward, Forwards
        <5>2. Reaches(u, a.sess[i], Q \cup {r})
          BY <3>3, <3>4, <4>2, SendReaches DEF Forwards
        <5>. HIDE DEF u
        <5>3. /\ DOMAIN y = DOMAIN x /\ y.sess = [x.sess EXCEPT ![i] = u]
              /\ y.at = x.at /\ y.used = x.used
          BY <3>3, <5>1 DEF Forwards, ForwardFields
        <5>4. DOMAIN y.sess = DOMAIN x.sess /\ y.sess[i] = u
          BY <3>3, <4>2, <5>3 DEF Forwards
        <5>. QED BY <3>3, <5>2, <5>3, <5>4 DEF Forwards
      <4>. QED BY <4>1, <4>2
    <3>7. Forwards(f[k + 1], a, In(k + 1))
      BY <3>5, <3>6 DEF y
    <3>. QED BY <3>7
  <2>. QED BY <1>1, <2>1
<1>. HIDE DEF T
<1>6. Nat \subseteq T
  BY <1>4, <1>5, SetInduction
<1>7. n \in T /\ n <= n
  BY <1>1, <1>6
<1>8. ToSet(s) = In(n)
  BY MembersFacts DEF n
<1>9. Forwards(f[n], a, In(n))
  BY <1>7 DEF T
<1>. QED BY <1>3, <1>8, <1>9 DEF o

\* A session that was just created.
LEMMA NewSessionWaits ==
  /\ Orderly(NewSession) /\ Reaches(NewSession, NewSession, {})
  /\ ToSet(NewSession.inbox) = {} /\ ToSet(NewSession.tr.queued) = {}
  /\ NewSession.tr.cancelled = {} /\ NewSession.proc.owes = {} /\ NewSession.stage = "running"
<1>. DEFINE s == NewSession
<1>1. /\ SessionFields \subseteq DOMAIN s /\ s.inbox = <<>> /\ s.tr.queued = <<>> /\ s.stage = "running"
      /\ s.tr.cancelled = {} /\ s.tr.progress = {} /\ s.proc.owes = {} /\ s.proc.alive = TRUE
  BY DEF NewSession, NewTranslator, NewProcess, SessionFields
<1>. HIDE DEF s
<1>2. ToSet(s.inbox) = {} /\ ToSet(s.tr.queued) = {}
  BY <1>1 DEF ToSet
<1>3. List(s.inbox)
  BY NewSessionFacts DEF IsSession, s
<1>4. ASSUME NEW t PROVE Tracks(s, t)
  <2>1. 1..Len(s.inbox) = {}
    BY <1>1
  <2>. QED BY <1>1, <2>1 DEF Tracks, EndIsTold
<1>5. TracksAll(s)
  BY <1>4 DEF TracksAll
<1>6. QueuesRequests(s) /\ ProperInbox(s) /\ EndIsKnown(s)
  BY <1>1, <1>2 DEF QueuesRequests, ProperInbox, EndIsKnown
<1>7. Orderly(s)
  BY <1>5, <1>6 DEF Orderly
<1>8. Reaches(s, s, {})
  BY <1>1, <1>3 DEF Reaches
<1>. QED BY <1>1, <1>2, <1>7, <1>8 DEF s

\* The sessions after a handler: the current one has the requests, or it is a new one.
LEMMA ForwardedIs ==
  ASSUME LspInv, NEW m, IsModel(m), NEW b, b = Forwarded(m)
  PROVE  /\ ~HasStart(m) => /\ b.at = current /\ b.used = Used
                            /\ current # 0 => Reaches(b.sess[current], sessions[current], ToSet(m.out))
         /\ HasStart(m) /\ b.at # 0 =>
              /\ b.at = Used + 1 /\ b.used = Used + 1 /\ Installed
              /\ \E Q \in SUBSET ToSet(m.out) :
                   Reaches(b.sess[b.at], NewSession, Q) /\ \A r \in Q : r.t # "start"
<1>. DEFINE a == [sess |-> sessions, at |-> current, used |-> Used, installed |-> Installed]
            s == m.out
            o == [op |-> "forward"]
<1>1. /\ AreSessions(sessions) /\ Used \in Nat /\ Used <= MaxSessions /\ current \in 0..Used
      /\ MaxSessions \in Nat
  BY LspBounds DEF LspInv, Core
<1>2. List(s) /\ \A k \in 1..Len(s) : s[k].t \in Requests /\ (s[k].t = "start" => k = 1 /\ Used < MaxSessions)
  BY DEF IsModel
<1>3. /\ DOMAIN a = {"sess", "at", "used", "installed"} /\ a.sess = sessions /\ a.at = current
      /\ a.used = Used /\ a.installed = Installed
  OBVIOUS
<1>4. b = FoldLeft(Forward, a, s)
  BY DEF Forwarded
<1>. HIDE DEF a, s, o
<1>5. b = Fold(o, a, s)
  BY <1>2, <1>4, FoldOfForward DEF o
<1>6. \A x, r : Do(o, x, r) = Forward(x, r)
  BY DoFacts DEF o
<1>7. ASSUME NEW x, IsSession(x) PROVE Reaches(x, x, {})
  <2>1. SessionFields \subseteq DOMAIN x /\ List(x.inbox)
    BY <1>7 DEF IsSession, SessionFields
  <2>. QED BY <2>1 DEF Reaches
<1>8. CASE ~HasStart(m)
  <2>1. \A k \in 1..Len(s) : s[k].t \in Requests \ {"start"}
    <3>1. \A k \in 1..Len(s) : s[k] \in ToSet(s)
      BY <1>2, MembersFacts
    <3>. QED BY <1>2, <1>8, <3>1 DEF HasStart, s
  <2>2. ForwardFields \subseteq DOMAIN a /\ (a.at # 0 => a.at \in DOMAIN a.sess)
    BY <1>1, <1>3 DEF ForwardFields, AreSessions
  <2>3. a.at # 0 => Reaches(a.sess[a.at], a.sess[a.at], {})
    <3>1. current # 0 => IsSession(sessions[current])
      BY <1>1 DEF AreSessions
    <3>. QED BY <1>3, <1>7, <3>1
  <2>4. Forwards(b, a, ToSet(s))
    BY <1>2, <1>5, <2>1, <2>2, <2>3, ForwardQuiet DEF o
  <2>. QED BY <1>3, <1>8, <2>4 DEF Forwards, s
<1>9. CASE HasStart(m)
  <2>1. PICK k \in 1..Len(s) : s[k].t = "start"
    BY <1>2, <1>9, MembersFacts DEF HasStart, s
  <2>. DEFINE q == Tail(s)
  <2>2. s # <<>> /\ s[1].t = "start" /\ Used < MaxSessions
    BY <1>2, <2>1
  <2>3. /\ List(q) /\ Head(s) = s[1] /\ \A j \in 1..Len(q) : j + 1 \in 1..Len(s) /\ q[j] = s[j + 1]
    BY <1>2, <2>2, TailFacts
  <2>4. ToSet(q) \subseteq ToSet(s)
    BY <1>2, <2>2, MembersFacts
  <2>5. b = Fold(o, Forward(a, Head(s)), q)
    BY <1>2, <1>5, <1>6, <2>2, FoldHead
  <2>. HIDE DEF q
  <2>6. \A j \in 1..Len(q) : q[j].t \in Requests \ {"start"}
    <3>1. Len(q) \in Nat
      BY <2>3, ListFacts
    <3>. QED BY <1>2, <2>3, <3>1
  <2>. DEFINE c == Forward(a, Head(s))
              old == IF a.at = 0 THEN a.sess
                     ELSE [a.sess EXCEPT ![a.at] = SendTo(@, [t |-> "shutdown"])]
  <2>7. c = IF a.installed
            THEN [a EXCEPT !.sess = [old EXCEPT ![a.used + 1] = NewSession],
                           !.at = a.used + 1, !.used = a.used + 1]
            ELSE [a EXCEPT !.sess = old, !.at = 0]
    BY <2>2, <2>3 DEF Forward
  <2>8. DOMAIN old = 1..MaxSessions
    BY <1>1, <1>3 DEF AreSessions
  <2>. HIDE DEF c, old
  <2>9. ForwardFields \subseteq DOMAIN c /\ DOMAIN c.sess = 1..MaxSessions
        /\ \/ Installed /\ c.at = Used + 1 /\ c.used = Used + 1 /\ c.sess[Used + 1] = NewSession
           \/ c.at = 0
    <3>1. CASE Installed
      <4>. DEFINE n == Used + 1
                  S == [old EXCEPT ![n] = NewSession]
      <4>1. c = [a EXCEPT !.sess = S, !.at = n, !.used = n]
        BY <1>3, <2>7, <3>1
      <4>2. n \in 1..MaxSessions
        BY <1>1, <2>2
      <4>3. DOMAIN S = 1..MaxSessions /\ S[n] = NewSession
        BY <2>8, <4>2
      <4>. HIDE DEF n, S
      <4>4. DOMAIN c = DOMAIN a /\ c.sess = S /\ c.at = n /\ c.used = n
        BY <1>3, <4>1
      <4>. QED BY <1>3, <3>1, <4>3, <4>4 DEF ForwardFields, n
    <3>2. CASE ~Installed
      <4>1. DOMAIN c = DOMAIN a /\ c.sess = old /\ c.at = 0
        BY <1>3, <2>7, <3>2
      <4>. QED BY <1>3, <2>8, <4>1 DEF ForwardFields
    <3>. QED BY <3>1, <3>2
  <2>10. /\ c.at # 0 => c.at \in DOMAIN c.sess
         /\ c.at # 0 => Reaches(c.sess[c.at], c.sess[c.at], {})
    <3>1. c.at # 0 => Used + 1 \in 1..MaxSessions
      BY <1>1, <2>2
    <3>. QED BY <2>9, <3>1, NewSessionWaits
  <2>11. Forwards(b, c, ToSet(q))
    BY <2>3, <2>5, <2>6, <2>9, <2>10, ForwardQuiet DEF o, c
  <2>12. \A r \in ToSet(q) : r.t # "start"
    BY <2>3, <2>6, MembersFacts
  <2>13. ASSUME b.at # 0
         PROVE  /\ b.at = Used + 1 /\ b.used = Used + 1 /\ Installed
                /\ Reaches(b.sess[b.at], NewSession, ToSet(q))
    BY <2>9, <2>11, <2>13 DEF Forwards
  <2>14. ToSet(q) \in SUBSET ToSet(m.out)
    BY <2>4 DEF s
  <2>15. b.at # 0 => \E Q \in SUBSET ToSet(m.out) :
                       Reaches(b.sess[b.at], NewSession, Q) /\ \A r \in Q : r.t # "start"
    BY <2>12, <2>13, <2>14
  <2>. QED BY <1>9, <2>13, <2>15
<1>. QED BY <1>8, <1>9

\* A handler and the forwarding of what it asked for.
LEMMA HandledWaits ==
  ASSUME LspInv, WaitInv, NEW m, IsModel(m), Handled(m), Asked(m), EditEnds(m),
         Used' = Forwarded(m).used,
         \/ events' = events
         \/ events # <<>> /\ events' = Tail(events)
  PROVE  WaitInv'
<1>. DEFINE b == Forwarded(m)
            failed == ~Installed /\ \E k \in DOMAIN m.out : m.out[k].t = "start"
            i == current
            j == b.at
            s == sessions[i]
            x == b.sess[j]
            E == ToSet(events)
            F == ToSet(events')
            R == ToSet(m.out)
<1>1. /\ ed' = [m EXCEPT !.out = <<>>, !.load = IF failed THEN "Unavailable" ELSE @]
      /\ sessions' = b.sess /\ current' = j /\ Used' = b.used
  BY DEF Handled, Forwarded
<1>2. /\ ~HasStart(m) => /\ j = i /\ b.used = Used /\ (i # 0 => Reaches(b.sess[i], s, R))
      /\ HasStart(m) /\ j # 0 =>
           /\ j = Used + 1 /\ b.used = Used + 1 /\ Installed
           /\ \E Q \in SUBSET R : Reaches(x, NewSession, Q) /\ \A r \in Q : r.t # "start"
  BY ForwardedIs
<1>3. failed => HasStart(m)
  <2>1. \A k \in DOMAIN m.out : m.out[k] \in ToSet(m.out)
    BY DEF ToSet
  <2>. QED BY <2>1 DEF HasStart
<1>4. failed => ~Installed
  OBVIOUS
<1>5. ModelFields \subseteq DOMAIN m
  BY DEF IsModel
<1>. HIDE DEF b, failed
<1>6. /\ ed'.edit = m.edit /\ ed'.reads = m.reads /\ ed'.restored = m.restored
      /\ ed'.active = m.active /\ ed'.nextId = m.nextId /\ ed'.started = m.started
      /\ ed'.load = IF failed THEN "Unavailable" ELSE m.load
  BY <1>1, <1>5 DEF ModelFields
<1>7. EditEnds(ed)' /\ Ids(ed)'
  <2>1. Ids(m)
    BY DEF Asked
  <2>. QED BY <1>6, <2>1 DEF EditEnds, Held, Ids
<1>8. i \in {0, Used} /\ (i # 0 => Orderly(s))
      /\ (i # 0 /\ s.stage # "over" => Serves(s, Unread(s), E, ed))
      /\ (i = 1 => Loads(events, ed.load, Works(sessions[1])))
  BY DEF WaitInv, Supervised
<1>9. Used \in Nat /\ \E h : Tidings(events, h, current, Used)
  BY DEF LspInv, Core, Follows
<1>. HIDE DEF i, j
<1>10. CASE ~HasStart(m)
  <2>1. j = i /\ b.used = Used /\ (i # 0 => Reaches(x, s, R)) /\ ~failed
    BY <1>2, <1>3, <1>10
  <2>. HIDE DEF x, s, E, F, R
  <2>2. i # 0 => Orderly(x)
    BY <1>8, <2>1 DEF Reaches
  <2>3. ASSUME x.stage # "over", i # 0
        PROVE  Serves(x, Unread(x), F, ed')
    <3>1. Reaches(x, s, R)
      BY <2>1, <2>3
    <3>2. s.stage # "over"
      BY <2>3, <3>1 DEF Reaches
    <3>3. Serves(s, Unread(s) \cup R, F, m)
      BY <1>8, <1>10, <2>3, <3>2 DEF Asked, E, F, R
    <3>4. Unread(x) = Unread(s) \cup R
      BY <3>1, <3>2 DEF Reaches, Unread
    <3>5. x.tr = s.tr /\ x.proc = s.proc /\ x.gen = s.gen /\ x.lost = s.lost
      BY <3>1 DEF Reaches
    <3>6. ASSUME NEW k, NEW id, Live(s, Unread(x), F, k, id) PROVE Live(x, Unread(x), F, k, id)
      BY <3>5, <3>6 DEF Live
    <3>7. Bounded(x, Unread(x), m.nextId)
      BY <3>3, <3>4, <3>5 DEF Serves, Bounded
    <3>8. \A k \in Kinds : Waits(ed', x, k) => Waits(m, s, k)
      BY <1>6, <3>5 DEF Waits
    <3>. QED BY <1>6, <3>3, <3>4, <3>6, <3>7, <3>8 DEF Serves
  <2>4. ASSUME j = 1 PROVE Loads(events', ed'.load, Works(x))
    <3>. DEFINE V == Works(s)
                W == Works(x)
    <3>1. Reaches(x, s, R) /\ Loads(events, ed.load, V)
      BY <1>8, <2>1, <2>4 DEF s
    <3>2. V => W
      BY <3>1 DEF Works, Reaches
    <3>3. Loads(events', m.load, V)
      BY <1>10, <3>1 DEF Asked
    <3>. HIDE DEF V, W
    <3>4. Loads(events', m.load, W)
      BY <3>2, <3>3 DEF Loads
    <3>. QED BY <1>6, <2>1, <3>4 DEF W
  <2>5. ASSUME Supervised' PROVE Serves(x, Unread(x), F, ed')
    <3>1. j # 0 /\ x.stage # "over"
      BY <1>1, <2>5 DEF Supervised, x
    <3>. QED BY <2>1, <2>3, <3>1
  <2>6. (current # 0 => Orderly(sessions[current]))'
    BY <1>1, <2>1, <2>2 DEF x
  <2>7. (Supervised => Serves(sessions[current], Unread(sessions[current]), ToSet(events), ed))'
    BY <1>1, <2>5 DEF x, F
  <2>8. (current = 1 => Loads(events, ed.load, Works(sessions[1])))'
    BY <1>1, <2>4 DEF x
  <2>9. (current \in {0, Used})'
    BY <1>1, <1>8, <2>1
  <2>. QED BY <1>7, <2>6, <2>7, <2>8, <2>9 DEF WaitInv
<1>11. CASE HasStart(m) /\ j = 0
  <2>1. current' = 0 /\ ~Supervised'
    BY <1>1, <1>11 DEF Supervised
  <2>. QED BY <1>7, <2>1 DEF WaitInv
<1>12. CASE HasStart(m) /\ j # 0
  <2>1. j = Used + 1 /\ b.used = Used + 1 /\ ~failed
    BY <1>2, <1>4, <1>12
  <2>2. PICK Q \in SUBSET R : Reaches(x, NewSession, Q) /\ \A r \in Q : r.t # "start"
    BY <1>2, <1>12
  <2>3. /\ \A k \in Kinds : m.active[k] = 0
        /\ m.load # "Indexing"
        /\ \A r \in Q : r.t \in DocRequests
    BY <1>12, <2>2 DEF Asked
  <2>. HIDE DEF x, s, E, F, R
  <2>4. Orderly(x)
    BY <2>2, NewSessionWaits DEF Reaches
  <2>5. Serves(x, Unread(x), F, ed')
    <3>1. x.tr.cancelled = {} /\ x.proc.owes = {} /\ Unread(x) = Q
      BY <2>2, NewSessionWaits DEF Reaches, Unread
    <3>2. Bounded(x, Unread(x), m.nextId)
      BY <2>3, <3>1 DEF Bounded, DocRequests
    <3>. QED BY <1>6, <2>3, <3>2 DEF Serves, Waits
  <2>6. ASSUME j = 1 PROVE Loads(events', ed'.load, Works(x))
    <3>1. Used = 0
      BY <1>9, <2>1, <2>6
    <3>2. List(events) /\ Len(events) = 0
      <4>1. List(events) /\ \A k \in 1..Len(events) : events[k].from \in 1..0
        BY <1>9, <3>1 DEF Tidings
      <4>2. Len(events) \in Nat
        BY <4>1, ListFacts
      <4>3. 1 \notin 1..Len(events)
        BY <4>1
      <4>. QED BY <4>1, <4>2, <4>3
    <3>3. events' = events
      <4>1. ASSUME events # <<>> PROVE FALSE
        <5>1. 1 \in 1..Len(events)
          BY <3>2, <4>1, TailFacts
        <5>. QED BY <3>2, <5>1
      <4>. QED BY <4>1
    <3>4. ed'.load # "Indexing"
      BY <1>6, <2>3
    <3>. QED BY <3>2, <3>3, <3>4 DEF Loads
  <2>7. (current # 0 => Orderly(sessions[current]))'
    BY <1>1, <2>4 DEF x
  <2>8. (Supervised => Serves(sessions[current], Unread(sessions[current]), ToSet(events), ed))'
    BY <1>1, <2>5 DEF x, F
  <2>9. (current = 1 => Loads(events, ed.load, Works(sessions[1])))'
    BY <1>1, <2>6 DEF x
  <2>10. (current \in {0, Used})'
    BY <1>1, <2>1
  <2>. QED BY <1>7, <2>7, <2>8, <2>9, <2>10 DEF WaitInv
<1>. QED BY <1>10, <1>11, <1>12

\* A step of the model.
LEMMA MainStep ==
  ASSUME LspInv, WaitInv, MainThread
  PROVE  LspInv' /\ WaitInv'
<1>1. /\ Core /\ ShownOk /\ IsModel(ed) /\ ed.out = <<>> /\ AllSettled(ed)
      /\ ModelFields \subseteq DOMAIN ed /\ ed.text \in [Docs -> Seq(Chars) \cup {None}]
      /\ ed.pend \in [Docs -> Seq(Changes)] /\ (ed.edit # None => IsEdit(ed.edit))
      /\ DOMAIN ed.diag = Docs
  BY DEF LspInv, Core, IsModel
<1>2. PICK p : Follows(p)
  BY <1>1 DEF Core
<1>22. Sim(ed, p)
  BY <1>1, <1>2, FollowsSims
<1>23. ASSUME UNCHANGED events PROVE Asked(ed) /\ EditEnds(ed) /\ Held(ed)
  BY <1>23, BeginsAsked
<1>3. ASSUME NEW m, Sim(m, p), AllSettled(m), Handled(m), Keeps(ed, m), UNCHANGED events,
             Asked(m), EditEnds(m)
      PROVE  LspInv' /\ WaitInv'
  <2>1. Took(m)
    BY <1>3 DEF Took
  <2>2. LspInv' /\ Used' = Forwarded(m).used
    BY <1>2, <1>3, <2>1, HandledFacts
  <2>3. IsModel(m) /\ events' = events
    BY <1>3 DEF Sim
  <2>4. WaitInv'
    BY <1>3, <2>2, <2>3, HandledWaits
  <2>. QED BY <2>2, <2>4
<1>4. \A a, b, c : Keeps(a, b) /\ Keeps(b, c) => Keeps(a, c)
  BY DEF Keeps
<1>5. ASSUME NEW m, IsModel(m), AllSettled(m), m.out = ed.out, m.open = ed.open,
             m.synced = ed.synced, m.next = ed.next, Keeps(ed, m), ed' = m,
             m.active = ed.active, m.nextId = ed.nextId, m.started = ed.started,
             m.load = ed.load, EditEnds(m), UNCHANGED <<sessions, current, events>>
      PROVE  LspInv' /\ WaitInv'
  <2>. DEFINE h == p
  <2>1. Used' = Used
    BY <1>5 DEF Used
  <2>2. IsModel(ed)' /\ (ed.out = <<>>)'
    <3>1. (ed.out = <<>>)'
      BY <1>1, <1>5
    <3>2. NoneStarted' <=> NoneStarted
      BY <1>5 DEF NoneStarted
    <3>3. IsModel(ed)'
      BY <1>5, <2>1, <3>2 DEF IsModel
    <3>. QED BY <3>1, <3>3
  <2>3. AllSettled(ed)'
    BY <1>5 DEF AllSettled, IsSettled
  <2>4. (AreSessions(sessions) /\ current \in 0..Used /\ Used \in Nat /\ Used <= MaxSessions)'
    BY <1>1, <1>5, <2>1 DEF Core
  <2>5. Launched(sessions, Used)'
    BY <1>1, <1>5, <2>1 DEF Core
  <2>6. AgreeBut(ed, p, {})'
    BY <1>2, <1>5 DEF Follows, AgreeBut
  <2>7. (current # 0 => Leads(sessions[current], p))'
    BY <1>2, <1>5 DEF Follows
  <2>8. Tidings(events, p, current, Used)'
    BY <1>2, <1>5, <2>1 DEF Follows
  <2>9. Follows(p)'
    BY <2>6, <2>7, <2>8 DEF Follows
  <2>10. (\E g : Follows(g))'
    BY <2>9
  <2>11. ShownOk'
    <3>1. ASSUME NEW c, c = current \/ c = 0 \/ (c \in Nat /\ c > Used) PROVE Shown(m, c)
      BY <1>1, <1>5, <3>1 DEF ShownOk, Keeps
    <3>. QED BY <1>5, <2>1, <3>1 DEF ShownOk
  <2>12. LspInv'
    BY <2>2, <2>3, <2>4, <2>5, <2>10, <2>11 DEF LspInv, Core
  <2>13. WaitInv'
    <3>1. EditEnds(ed)' /\ Ids(ed)'
      BY <1>5 DEF WaitInv, EditEnds, Held, Ids
    <3>2. (current \in {0, Used})' /\ (current # 0 => Orderly(sessions[current]))'
      BY <1>5, <2>1 DEF WaitInv
    <3>3. (Supervised => Serves(sessions[current], Unread(sessions[current]), ToSet(events), ed))'
      BY <1>5 DEF WaitInv, Supervised, Serves, Waits
    <3>4. (current = 1 => Loads(events, ed.load, Works(sessions[1])))'
      BY <1>5 DEF WaitInv
    <3>. QED BY <3>1, <3>2, <3>3, <3>4 DEF WaitInv
  <2>. QED BY <2>12, <2>13
<1>6. ASSUME NEW m, Sim(m, p), Keeps(ed, m), NEW w, w = SyncLspDocuments(m)
      PROVE  /\ Sim(w, p) /\ AllSettled(w) /\ Keeps(ed, w)
             /\ Asked(m) /\ EditEnds(m) => Asked(w) /\ EditEnds(w)
  <2>1. Sim(w, p) /\ AllSettled(w) /\ Keeps(m, w)
    BY <1>6, SyncAllSims
  <2>2. Syncs(m, w) /\ IsModel(m)
    BY <1>6, SyncAllSyncs DEF Sim
  <2>3. Asked(m) /\ EditEnds(m) => Asked(w) /\ EditEnds(w)
    BY <2>2, SyncsAsked
  <2>. QED BY <1>4, <1>6, <2>1, <2>3
<1>7. \A t \in Texts : t \in Seq(Chars)
  BY LspBounds DEF Texts
<1>8. ASSUME NEW d \in Docs, OpenFile(d) \/ RestoreFile(d) PROVE LspInv' /\ WaitInv'
  <2>1. UNCHANGED <<sessions, current, events>>
    BY <1>8 DEF OpenFile, RestoreFile
  <2>. DEFINE m == ed'
  <2>2. \/ m = [ed EXCEPT !.reads = @ \cup {d}]
        \/ m = [ed EXCEPT !.reads = @ \cup {d}, !.restored = @ \cup {d}]
    BY <1>8 DEF OpenFile, RestoreFile
  <2>. HIDE DEF m
  <2>3. /\ DOMAIN m = DOMAIN ed
        /\ \A f \in ModelFields : f \notin {"reads", "restored"} => m[f] = ed[f]
    BY <1>1, <2>2
  <2>4. IsModel(m)
    BY <1>1, <2>3 DEF IsModel, ModelFields
  <2>5. AllSettled(m)
    BY <1>1, <2>3 DEF AllSettled, IsSettled, ModelFields
  <2>6. /\ m.out = ed.out /\ m.open = ed.open /\ m.synced = ed.synced /\ m.next = ed.next
        /\ m.text = ed.text /\ m.pend = ed.pend /\ m.diag = ed.diag
    BY <2>3 DEF ModelFields
  <2>8. Keeps(ed, m)
    BY <2>6, KeepsSame
  <2>7. ed' = m
    BY DEF m
  <2>9. /\ m.active = ed.active /\ m.nextId = ed.nextId /\ m.started = ed.started
        /\ m.load = ed.load /\ m.edit = ed.edit
    BY <2>3 DEF ModelFields
  <2>10. ed.reads \subseteq m.reads /\ ed.restored \subseteq m.restored
    BY <1>1, <2>2 DEF ModelFields
  <2>11. EditEnds(m)
    BY <2>9, <2>10 DEF WaitInv, EditEnds, Held
  <2>. QED BY <1>5, <2>1, <2>4, <2>5, <2>6, <2>7, <2>8, <2>9, <2>11
<1>9. ASSUME NEW d \in Docs, FileFailed(d) PROVE LspInv' /\ WaitInv'
  <2>1. UNCHANGED <<sessions, current, events>>
    BY <1>9 DEF FileFailed
  <2>. DEFINE m == ed'
  <2>2. \/ m = [ed EXCEPT !.reads = @ \ {d}]
        \/ m = [ed EXCEPT !.reads = @ \ {d}, !.edit = None]
    BY <1>9 DEF FileFailed
  <2>. HIDE DEF m
  <2>3. /\ DOMAIN m = DOMAIN ed /\ (m.edit = ed.edit \/ m.edit = None)
        /\ \A f \in ModelFields : f \notin {"reads", "edit"} => m[f] = ed[f]
    BY <1>1, <2>2 DEF ModelFields
  <2>4. IsModel(m)
    BY <1>1, <2>3 DEF IsModel, ModelFields
  <2>5. AllSettled(m)
    BY <1>1, <2>3 DEF AllSettled, IsSettled, ModelFields
  <2>6. /\ m.out = ed.out /\ m.open = ed.open /\ m.synced = ed.synced /\ m.next = ed.next
        /\ m.text = ed.text /\ m.pend = ed.pend /\ m.diag = ed.diag
    BY <2>3 DEF ModelFields
  <2>8. Keeps(ed, m)
    BY <2>6, KeepsSame
  <2>7. ed' = m
    BY DEF m
  <2>9. /\ m.active = ed.active /\ m.nextId = ed.nextId /\ m.started = ed.started
        /\ m.load = ed.load /\ m.restored = ed.restored
    BY <2>3 DEF ModelFields
  <2>10. /\ m.reads = ed.reads \ {d}
         /\ m.edit = IF ed.edit = None \/ d \in ed.restored THEN ed.edit
                     ELSE IF d \in ed.edit.waiting THEN None ELSE ed.edit
    <3>. DEFINE v == IF ed.edit = None \/ d \in ed.restored THEN ed.edit
                     ELSE IF d \in ed.edit.waiting THEN None ELSE ed.edit
                u == ed.reads \ {d}
    <3>1. m = [ed EXCEPT !.reads = u, !.edit = v]
      BY <1>9, <2>7 DEF FileFailed
    <3>. HIDE DEF v, u
    <3>2. m.reads = u /\ m.edit = v
      BY <1>1, <3>1 DEF ModelFields
    <3>. QED BY <3>2 DEF v, u
  <2>11. EditEnds(m)
    BY <2>9, <2>10 DEF WaitInv, EditEnds, Held
  <2>. QED BY <1>5, <2>1, <2>4, <2>5, <2>6, <2>7, <2>8, <2>9, <2>11
<1>10. ASSUME NEW d \in Docs, FileLoaded(d) PROVE LspInv' /\ WaitInv'
  <2>1. PICK t \in Texts :
          Handled(FinishWorkspaceEdit(ReadDone(
            SyncLspDocuments([ed EXCEPT !.text[d] = t, !.pend[d] = <<>>]), d)))
    BY <1>10 DEF FileLoaded
  <2>. DEFINE a == [ed EXCEPT !.text[d] = t, !.pend[d] = <<>>]
              b == SyncLspDocuments(a)
              c == ReadDone(b, d)
              e == FinishWorkspaceEdit(c)
  <2>2. Sim(a, p) /\ Keeps(ed, a) /\ Asked(a) /\ EditEnds(a)
    <3>1. /\ DOMAIN a = DOMAIN ed /\ a.text = [ed.text EXCEPT ![d] = t]
          /\ a.pend = [ed.pend EXCEPT ![d] = <<>>] /\ a.open = ed.open /\ a.next = ed.next
          /\ a.synced = ed.synced /\ a.started = ed.started /\ a.out = ed.out /\ a.edit = ed.edit
          /\ a.diag = ed.diag /\ a.reads = ed.reads /\ a.restored = ed.restored
          /\ a.active = ed.active /\ a.nextId = ed.nextId /\ a.load = ed.load
      BY <1>1 DEF ModelFields
    <3>. HIDE DEF a
    <3>2. a.text \in [Docs -> Seq(Chars) \cup {None}] /\ a.pend \in [Docs -> Seq(Changes)]
      BY <1>1, <1>7, <3>1
    <3>3. Sim(a, p)
      BY <1>1, <1>22, <3>1, <3>2, QuietSims
    <3>4. ed.text[d] = None
      BY <1>10 DEF FileLoaded
    <3>5. ASSUME NEW z, Shown(ed, z) PROVE Shown(a, z)
      <4>1. ed.open[d] = 0
        BY <3>4, <3>5 DEF Shown
      <4>2. \A x \in Docs : x # d => a.text[x] = ed.text[x] /\ a.pend[x] = ed.pend[x]
        BY <1>1, <3>1
      <4>. QED BY <3>1, <3>5, <4>1, <4>2 DEF Shown
    <3>6. Keeps(ed, a)
      BY <3>5 DEF Keeps
    <3>7. Asked(ed) /\ EditEnds(ed)
      BY <1>10, <1>23 DEF FileLoaded
    <3>8. Asked(a) /\ EditEnds(a)
      BY <3>1, <3>7, QuietAsked DEF EditEnds, Held
    <3>. QED BY <3>3, <3>6, <3>8
  <2>. HIDE DEF a
  <2>3. Sim(b, p) /\ AllSettled(b) /\ Keeps(ed, b) /\ Asked(b) /\ EditEnds(b)
    BY <1>6, <2>2
  <2>. HIDE DEF b
  <2>4. /\ DOMAIN b.diag = Docs /\ ModelFields \subseteq DOMAIN b /\ b.text \in [Docs -> Seq(Chars) \cup {None}]
        /\ b.pend \in [Docs -> Seq(Changes)] /\ (b.edit # None => IsEdit(b.edit))
    BY <2>3 DEF Sim, IsModel
  <2>5. /\ DOMAIN c = DOMAIN b /\ c.text = b.text /\ c.pend = b.pend /\ c.open = b.open
        /\ c.next = b.next /\ c.synced = b.synced /\ c.started = b.started /\ c.out = b.out
        /\ c.diag = b.diag /\ c.reads = b.reads \ {d} /\ c.restored = b.restored
        /\ c.active = b.active /\ c.nextId = b.nextId /\ c.load = b.load
        /\ c.edit = IF b.edit = None THEN None ELSE [b.edit EXCEPT !.waiting = @ \ {d}]
    BY <2>4 DEF ReadDone, ModelFields
  <2>6. c.edit # None => IsEdit(c.edit)
    <3>1. c.edit = IF b.edit = None THEN None ELSE [b.edit EXCEPT !.waiting = @ \ {d}]
      BY <2>5
    <3>. HIDE DEF c
    <3>2. CASE b.edit # None
      <4>. DEFINE x == [b.edit EXCEPT !.waiting = @ \ {d}]
      <4>1. {"changes", "waiting"} \subseteq DOMAIN x /\ x.changes = b.edit.changes
        BY <2>4, <3>2 DEF IsEdit
      <4>2. c.edit = x
        BY <3>1, <3>2
      <4>. HIDE DEF x
      <4>. QED BY <2>4, <3>2, <4>1, <4>2 DEF IsEdit
    <3>. QED BY <3>1, <3>2
  <2>. HIDE DEF c
  <2>7. Sim(c, p)
    BY <2>3, <2>4, <2>5, <2>6, QuietSims
  <2>8. AllSettled(c)
    BY <2>3, <2>5 DEF AllSettled, IsSettled
  <2>9. Sim(e, p) /\ AllSettled(e) /\ Keeps(c, e)
    BY <2>7, <2>8, FinishSims
  <2>13. Held(c)
    <3>1. CASE b.edit = None
      BY <2>5, <3>1 DEF Held
    <3>2. CASE b.edit # None
      <4>. DEFINE x == [b.edit EXCEPT !.waiting = @ \ {d}]
      <4>1. x.waiting = b.edit.waiting \ {d}
        BY <2>4, <3>2 DEF IsEdit
      <4>2. c.edit = x
        BY <2>5, <3>2
      <4>. HIDE DEF x
      <4>3. b.edit.waiting \subseteq b.reads \cup b.restored
        BY <2>3, <3>2 DEF EditEnds, Held
      <4>4. c.edit.waiting \subseteq c.reads \cup c.restored
        BY <2>5, <4>1, <4>2, <4>3
      <4>. QED BY <4>4 DEF Held
    <3>. QED BY <3>1, <3>2
  <2>14. Asked(c)
    BY <2>3, <2>5, QuietAsked
  <2>15. Asked(e) /\ EditEnds(e)
    BY <2>7, <2>13, <2>14, FinishAsked
  <2>11. Keeps(b, c)
    BY <2>5, KeepsSame
  <2>10. Handled(e) /\ UNCHANGED events
    BY <1>10, <2>1 DEF FileLoaded, a, b, c
  <2>. HIDE DEF e
  <2>12. Keeps(ed, e)
    <3>1. Keeps(ed, c)
      BY <1>4, <2>3, <2>11
    <3>. QED BY <1>4, <2>9, <3>1
  <2>. QED BY <1>3, <2>9, <2>10, <2>12, <2>15
<1>11. ASSUME NEW d \in Docs, NEW t \in Seq(Chars) \cup {None}, NEW m,
              m = [CloseLspDocument(ed, d) EXCEPT !.text[d] = t, !.pend[d] = <<>>]
       PROVE  /\ Sim(m, p) /\ Keeps(ed, m) /\ (t = None => AllSettled(m))
              /\ UNCHANGED events => Asked(m) /\ EditEnds(m)
  <2>. DEFINE c == CloseLspDocument(ed, d)
  <2>1. /\ Sim(c, p) /\ c.text = ed.text /\ c.pend = ed.pend /\ c.edit = ed.edit
        /\ c.started = ed.started
        /\ c.open[d] = 0 /\ DOMAIN c.diag = Docs /\ c.diag[d] = None
        /\ \A x \in Docs : x # d => /\ c.open[x] = ed.open[x] /\ c.synced[x] = ed.synced[x]
                                    /\ c.diag[x] = ed.diag[x]
    BY <1>22, CloseDocSims
  <2>11. Syncs(ed, c)
    BY <1>1, CloseSyncs DEF IsModel
  <2>2. m = [c EXCEPT !.text[d] = t, !.pend[d] = <<>>]
    BY <1>11
  <2>. HIDE DEF c
  <2>3. ModelFields \subseteq DOMAIN c
    BY <2>1 DEF Sim, IsModel
  <2>4. /\ DOMAIN m = DOMAIN c /\ m.text = [c.text EXCEPT ![d] = t]
        /\ m.pend = [c.pend EXCEPT ![d] = <<>>] /\ m.open = c.open /\ m.next = c.next
        /\ m.synced = c.synced /\ m.started = c.started /\ m.out = c.out /\ m.edit = c.edit
        /\ m.diag = c.diag /\ m.reads = c.reads /\ m.restored = c.restored
        /\ m.active = c.active /\ m.nextId = c.nextId /\ m.load = c.load
    BY <2>2, <2>3 DEF ModelFields
  <2>5. m.text \in [Docs -> Seq(Chars) \cup {None}] /\ m.pend \in [Docs -> Seq(Changes)]
    <3>1. c.text \in [Docs -> Seq(Chars) \cup {None}] /\ c.pend \in [Docs -> Seq(Changes)]
      BY <1>1, <2>1
    <3>2. t \in Seq(Chars) \cup {None} /\ <<>> \in Seq(Changes)
      BY <1>11
    <3>. QED BY <2>4, <3>1, <3>2
  <2>6. m.edit # None => IsEdit(m.edit)
    BY <1>1, <2>1, <2>4
  <2>7. Sim(m, p)
    BY <2>1, <2>3, <2>4, <2>5, <2>6, QuietSims
  <2>8. t = None => AllSettled(m)
    <3>1. ASSUME t = None, NEW x \in Docs PROVE IsSettled(m, x)
      <4>1. CASE x = d
        <5>1. m.text[d] = None
          BY <1>1, <2>1, <2>4, <3>1
        <5>. QED BY <4>1, <5>1 DEF IsSettled
      <4>2. CASE x # d
        <5>1. m.text[x] = ed.text[x] /\ m.pend[x] = ed.pend[x] /\ m.open[x] = ed.open[x]
              /\ m.synced[x] = ed.synced[x]
          BY <1>1, <2>1, <2>4, <4>2
        <5>. QED BY <1>1, <5>1 DEF AllSettled, IsSettled
      <4>. QED BY <4>1, <4>2
    <3>. QED BY <3>1 DEF AllSettled
  <2>9. ASSUME NEW z, Shown(ed, z) PROVE Shown(m, z)
    <3>1. \A x \in Docs : x # d => /\ m.text[x] = ed.text[x] /\ m.pend[x] = ed.pend[x]
                                   /\ m.open[x] = ed.open[x] /\ m.synced[x] = ed.synced[x]
                                   /\ m.diag[x] = ed.diag[x]
      BY <1>1, <2>1, <2>4
    <3>2. m.open[d] = 0 /\ m.diag[d] = None
      BY <2>1, <2>4
    <3>. QED BY <2>9, <3>1, <3>2 DEF Shown
  <2>10. Keeps(ed, m)
    BY <2>9 DEF Keeps
  <2>12. ASSUME UNCHANGED events PROVE Asked(m) /\ EditEnds(m)
    <3>1. Asked(c) /\ EditEnds(c)
      BY <1>1, <1>23, <2>11, <2>12, SyncsAsked
    <3>. QED BY <2>4, <3>1, QuietAsked DEF EditEnds, Held
  <2>. QED BY <2>7, <2>8, <2>10, <2>12
<1>12. ASSUME NEW d \in Docs, Reload(d) PROVE LspInv' /\ WaitInv'
  <2>1. PICK t \in Texts :
          Handled(SyncLspDocuments([CloseLspDocument(ed, d) EXCEPT !.text[d] = t, !.pend[d] = <<>>]))
    BY <1>12 DEF Reload
  <2>. DEFINE m == [CloseLspDocument(ed, d) EXCEPT !.text[d] = t, !.pend[d] = <<>>]
              w == SyncLspDocuments(m)
  <2>3. Handled(w) /\ UNCHANGED events
    BY <1>12, <2>1 DEF Reload
  <2>2. Sim(m, p) /\ Keeps(ed, m) /\ Asked(m) /\ EditEnds(m)
    BY <1>7, <1>11, <2>3
  <2>. HIDE DEF m
  <2>4. Sim(w, p) /\ AllSettled(w) /\ Keeps(ed, w) /\ Asked(w) /\ EditEnds(w)
    BY <1>6, <2>2
  <2>. HIDE DEF w
  <2>. QED BY <1>3, <2>3, <2>4
<1>13. ASSUME NEW d \in Docs, CloseTab(d) PROVE LspInv' /\ WaitInv'
  <2>. DEFINE m == [CloseLspDocument(ed, d) EXCEPT !.text[d] = None, !.pend[d] = <<>>]
  <2>2. Handled(m) /\ UNCHANGED events
    BY <1>13 DEF CloseTab
  <2>1. Sim(m, p) /\ AllSettled(m) /\ Keeps(ed, m) /\ Asked(m) /\ EditEnds(m)
    BY <1>11, <2>2
  <2>. HIDE DEF m
  <2>. QED BY <1>3, <2>1, <2>2
<1>14. ASSUME NEW d \in Docs, EditSynced(d) PROVE LspInv' /\ WaitInv'
  <2>1. PICK c \in ChangesOf(ed.text[d]) : Handled(SyncLspDocuments(ApplyToBuffer(ed, d, c)))
    BY <1>14 DEF EditSynced
  <2>. DEFINE m == ApplyToBuffer(ed, d, c)
              w == SyncLspDocuments(m)
  <2>2. Sim(m, p) /\ Keeps(ed, m)
    BY <1>14, <1>22, ApplyOneSims DEF EditSynced
  <2>3. Handled(w) /\ UNCHANGED events
    BY <1>14, <2>1 DEF EditSynced
  <2>5. /\ m.edit = ed.edit /\ m.reads = ed.reads /\ m.restored = ed.restored /\ m.out = ed.out
        /\ m.active = ed.active /\ m.nextId = ed.nextId /\ m.load = ed.load /\ m.started = ed.started
    BY <1>1 DEF ApplyToBuffer, ApplyToBuffers, ModelFields
  <2>. HIDE DEF m
  <2>6. Asked(m) /\ EditEnds(m)
    BY <1>23, <2>3, <2>5, QuietAsked DEF EditEnds, Held
  <2>4. Sim(w, p) /\ AllSettled(w) /\ Keeps(ed, w) /\ Asked(w) /\ EditEnds(w)
    BY <1>6, <2>2, <2>6
  <2>. HIDE DEF w
  <2>. QED BY <1>3, <2>3, <2>4
<1>15. ASSUME NEW d \in Docs, EditUnsynced(d) PROVE LspInv' /\ WaitInv'
  <2>1. PICK c \in ChangesOf(ed.text[d]) : ed' = ApplyToBuffer(ed, d, c)
    BY <1>15 DEF EditUnsynced
  <2>2. UNCHANGED <<sessions, current, events>> /\ ed.text[d] # None
    BY <1>15 DEF EditUnsynced
  <2>. DEFINE m == ApplyToBuffer(ed, d, c)
  <2>3. /\ Sim(m, p) /\ m.edit = ed.edit /\ m.open = ed.open /\ m.synced = ed.synced
        /\ m.started = ed.started /\ m.next = ed.next /\ m.out = ed.out /\ m.pend[d] # <<>>
        /\ Keeps(ed, m)
        /\ \A x \in Docs : x # d => m.text[x] = ed.text[x] /\ m.pend[x] = ed.pend[x]
    BY <1>22, <2>2, ApplyOneSims
  <2>4. ed' = m
    BY <2>1
  <2>7. /\ m.reads = ed.reads /\ m.restored = ed.restored /\ m.active = ed.active
        /\ m.nextId = ed.nextId /\ m.load = ed.load
    BY <1>1 DEF ApplyToBuffer, ApplyToBuffers, ModelFields
  <2>. HIDE DEF m
  <2>5. AllSettled(m)
    BY <1>1, <2>3 DEF AllSettled, IsSettled
  <2>6. IsModel(m)
    BY <2>3 DEF Sim
  <2>8. EditEnds(m)
    BY <2>3, <2>7 DEF WaitInv, EditEnds, Held
  <2>. QED BY <1>5, <2>2, <2>3, <2>4, <2>5, <2>6, <2>7, <2>8
<1>16. ASSUME NEW d \in Docs, NEW k \in Kinds, Request(k, d) PROVE LspInv' /\ WaitInv'
  <2>. DEFINE m == AskServer(ed, k, d)
              w == SyncLspDocuments(m)
  <2>1. ed.started /\ Handled(w) /\ UNCHANGED events
    BY <1>16 DEF Request
  <2>2. Sim(m, p) /\ Keeps(ed, m)
    BY <1>22, <2>1, AskSims
  <2>4. Asked(m) /\ EditEnds(m)
    BY <2>1, AskAsked
  <2>. HIDE DEF m
  <2>3. Sim(w, p) /\ AllSettled(w) /\ Keeps(ed, w) /\ Asked(w) /\ EditEnds(w)
    BY <1>6, <2>2, <2>4
  <2>. HIDE DEF w
  <2>. QED BY <1>3, <2>1, <2>3
<1>17. ASSUME RestartServers PROVE LspInv' /\ WaitInv'
  <2>. DEFINE m == Push(ResetForRestart(ed), [t |-> "start"])
              w == SyncLspDocuments(m)
  <2>1. ed.started /\ Used < MaxSessions /\ Handled(w) /\ UNCHANGED events
    BY <1>17 DEF RestartServers
  <2>2. Sim(m, p) /\ Keeps(ed, m)
    BY <1>1, <2>1, RestartSims
  <2>4. Asked(m) /\ EditEnds(m)
    BY <2>1, RestartAsked
  <2>. HIDE DEF m
  <2>3. Sim(w, p) /\ AllSettled(w) /\ Keeps(ed, w) /\ Asked(w) /\ EditEnds(w)
    BY <1>6, <2>2, <2>4
  <2>. HIDE DEF w
  <2>. QED BY <1>3, <2>1, <2>3
<1>18. ASSUME OnEvent PROVE LspInv' /\ WaitInv'
  <2>. DEFINE e == Head(events)
              m == OnLspEvent(ed, e)
  <2>1. events # <<>> /\ events' = Tail(events) /\ Handled(m)
    BY <1>18 DEF OnEvent
  <2>2. IsEvent(e)
    <3>. DEFINE q == events
    <3>1. List(q) /\ q # <<>> /\ \A k \in 1..Len(q) : IsEvent(q[k])
      BY <1>2, <2>1 DEF Follows, Tidings
    <3>. HIDE DEF q
    <3>2. Head(q) = q[1] /\ 1 \in 1..Len(q)
      BY <3>1, TailFacts
    <3>. QED BY <3>1, <3>2 DEF q
  <2>5. Asked(m) /\ EditEnds(m)
    BY <2>1, <2>2, EventAsked
  <2>. HIDE DEF e
  <2>3. Sim(m, p) /\ AllSettled(m) /\ KeepsFitting(ed, m, e)
    BY <1>1, <1>22, <2>2, EventSims
  <2>. HIDE DEF m
  <2>4. Took(m)
    BY <2>1, <2>3 DEF Took, e
  <2>6. LspInv' /\ Used' = Forwarded(m).used
    BY <1>2, <2>1, <2>3, <2>4, HandledFacts
  <2>7. IsModel(m) /\ (events' = events \/ (events # <<>> /\ events' = Tail(events)))
    BY <2>1, <2>3 DEF Sim
  <2>8. WaitInv'
    BY <2>1, <2>5, <2>6, <2>7, HandledWaits
  <2>. QED BY <2>6, <2>8
<1>. QED
  BY <1>8, <1>9, <1>10, <1>12, <1>13, <1>14, <1>15, <1>16, <1>17, <1>18 DEF MainThread

-----------------------------------------------------------------------------
(***************************************************************************)
(* What the supervisors and the processes leave of it.                     *)
(***************************************************************************)

\* One message less, which the translator took note of if it was news.
LEMMA TracksTail ==
  ASSUME NEW s, List(s.inbox), s.inbox # <<>>, NEW t, Tracks(s, t), NEW x, x.inbox = Tail(s.inbox),
         x.gen = s.gen, x.proc.working = s.proc.working, x.proc.untold = s.proc.untold,
         \/ ~News(Head(s.inbox), s.gen, t) /\ (t \in x.tr.progress => t \in s.tr.progress)
         \/ News(Head(s.inbox), s.gen, t) /\ (t \in x.tr.progress => ~Head(s.inbox).end)
  PROVE  Tracks(x, t)
<1>. DEFINE q == s.inbox
            z == Tail(q)
            g == s.gen
            A == t \in s.proc.working
<1>1. /\ List(z) /\ Head(q) = q[1] /\ 1 \in 1..Len(q) /\ Len(q) \in Nat
      /\ (\A j \in 1..Len(q) : j # 1 => j - 1 \in 1..Len(z) /\ z[j - 1] = q[j])
      /\ \A k \in 1..Len(z) : k + 1 \in 1..Len(q) /\ z[k] = q[k + 1]
  BY TailIs
<1>2. /\ t \in s.tr.progress => A \/ \E k \in 1..Len(q) : News(q[k], g, t)
      /\ \A k \in 1..Len(q) : News(q[k], g, t) /\ ~q[k].end
           /\ (\A j \in 1..Len(q) : j > k => ~News(q[j], g, t)) => A
  BY DEF Tracks
<1>3. \/ ~News(q[1], g, t) /\ (t \in x.tr.progress => t \in s.tr.progress)
      \/ News(q[1], g, t) /\ (t \in x.tr.progress => ~q[1].end)
  BY <1>1
<1>4. x.inbox = z /\ (t \in x.proc.working <=> A)
  OBVIOUS
<1>. HIDE DEF z, q, A
<1>5. ASSUME t \in x.tr.progress, ~A PROVE \E k \in 1..Len(z) : News(z[k], g, t)
  <2>1. PICK k \in 1..Len(q) : k # 1 /\ News(q[k], g, t)
    <3>1. CASE ~News(q[1], g, t)
      <4>1. \E k \in 1..Len(q) : News(q[k], g, t)
        BY <1>2, <1>3, <1>5, <3>1
      <4>. QED BY <3>1, <4>1
    <3>2. CASE News(q[1], g, t)
      <4>1. ~q[1].end
        BY <1>3, <1>5, <3>2
      <4>2. \E k \in 1..Len(q) : k > 1 /\ News(q[k], g, t)
        BY <1>1, <1>2, <1>5, <3>2, <4>1
      <4>3. \A k \in 1..Len(q) : k > 1 => k # 1
        OBVIOUS
      <4>. QED BY <4>2, <4>3
    <3>. QED BY <3>1, <3>2
  <2>. QED BY <1>1, <2>1
<1>6. ASSUME NEW k \in 1..Len(z), News(z[k], g, t), ~z[k].end,
             \A j \in 1..Len(z) : j > k => ~News(z[j], g, t)
      PROVE  A
  <2>1. k + 1 \in 1..Len(q) /\ z[k] = q[k + 1]
    BY <1>1
  <2>2. ASSUME NEW j \in 1..Len(q), j > k + 1 PROVE ~News(q[j], g, t)
    <3>1. j # 1 /\ j - 1 > k
      BY <1>1, <1>6, <2>2
    <3>. QED BY <1>1, <1>6, <3>1
  <2>. QED BY <1>2, <1>6, <2>1, <2>2
<1>7. ASSUME NEW k \in 1..Len(z), NamelessEnd(z[k], g),
             \A j \in 1..Len(z) : j > k => ~Report(z[j], g)
      PROVE  s.proc.untold
  <2>1. k + 1 \in 1..Len(q) /\ z[k] = q[k + 1]
    BY <1>1
  <2>2. ASSUME NEW j \in 1..Len(q), j > k + 1 PROVE ~Report(q[j], g)
    <3>1. j # 1 /\ j - 1 > k
      BY <1>1, <1>7, <2>2
    <3>. QED BY <1>1, <1>7, <3>1
  <2>. QED BY <1>7, <2>1, <2>2 DEF Tracks, EndIsTold, q
<1>8. EndIsTold(x)
  BY <1>4, <1>7 DEF EndIsTold
<1>. QED BY <1>4, <1>5, <1>6, <1>8 DEF Tracks

\* An event that is on its way says what it said.
Alike(f, e) ==
  /\ f.t = e.t
  /\ e.t \in {"answer", "failed"} => f.id = e.id
  /\ e.t = "answer" => f.kind = e.kind
  /\ e.t = "load" => f.load = e.load

\* Events of a session join the channel: the status is as it was, or the last of them sets it.
LEMMA EmittedIs ==
  ASSUME NEW i, NEW es, Emit(i, es), List(events), List(es), \A k \in 1..Len(es) : IsEvent(es[k])
  PROVE  /\ ToSet(events) \subseteq ToSet(events')
         /\ \A k \in 1..Len(es) : \E f \in ToSet(events') : Alike(f, es[k])
         /\ \A l, W, V : Loads(events, l, W) /\ (W => V) /\ (\A k \in 1..Len(es) : ~Sets(es[k]))
                           => Loads(events', l, V)
         /\ \A l, V : es # <<>> /\ Sets(es[Len(es)])
                        /\ (es[Len(es)].t = "load" /\ es[Len(es)].load = "Indexing" => V)
                        => Loads(events', l, V)
<1>. DEFINE new == [k \in DOMAIN es |-> [es[k] EXCEPT !.from = i]]
            z == events'
            n == Len(events)
            m == Len(es)
<1>1. z = events \o new
  BY DEF Emit
<1>2. DOMAIN es = 1..m /\ m \in Nat /\ DOMAIN events = 1..n /\ n \in Nat
  BY ListFacts
<1>3. ASSUME NEW k \in 1..m PROVE Alike(new[k], es[k])
  <2>. DEFINE e == es[k]
              f == [e EXCEPT !.from = i]
  <2>1. IsEvent(e) /\ new[k] = f
    BY <1>2, <1>3
  <2>. HIDE DEF e
  <2>2. DOMAIN f = DOMAIN e /\ \A x \in DOMAIN e : x # "from" => f[x] = e[x]
    OBVIOUS
  <2>. HIDE DEF f
  <2>3. Alike(f, e)
    BY <2>1, <2>2 DEF IsEvent, Alike
  <2>. HIDE DEF new
  <2>. QED BY <2>1, <2>3 DEF e
<1>4. Len(z) = n + m /\ (\A k \in 1..n : z[k] = events[k]) /\ (\A k \in 1..m : z[n + k] = new[k])
      /\ DOMAIN z = 1..(n + m)
  <2>. DEFINE C == {events[k] : k \in DOMAIN events} \cup {new[k] : k \in 1..m}
              q == events
  <2>1. q \in Seq({events[k] : k \in DOMAIN events})
    BY DEF List
  <2>2. \A k \in 1..n : q[k] \in C
    BY <1>2
  <2>3. \A k \in 1..m : new[k] \in C
    OBVIOUS
  <2>4. new = [k \in 1..m |-> new[k]]
    BY <1>2
  <2>5. q = [k \in 1..n |-> q[k]]
    BY <2>1
  <2>6. z = q \o new /\ Len(q) = n
    BY <1>1
  <2>. HIDE DEF C, new, z, q
  <2>7. new \in Seq(C) /\ Len(new) = m
    BY <1>2, <2>3, <2>4
  <2>8. q \in Seq(C)
    BY <1>2, <2>2, <2>5
  <2>11. List(q) /\ List(new)
    BY <2>7, <2>8, SequencesAreLists
  <2>9. /\ Len(z) = Len(q) + Len(new) /\ DOMAIN z = 1..(Len(q) + Len(new))
        /\ \A k \in 1..Len(q) : z[k] = q[k]
        /\ \A k \in 1..Len(new) : z[Len(q) + k] = new[k]
    <3>1. z = q \o new
      BY <2>6
    <3>2. /\ Len(q \o new) = Len(q) + Len(new) /\ DOMAIN (q \o new) = 1..(Len(q) + Len(new))
          /\ \A k \in 1..Len(q) : (q \o new)[k] = q[k]
          /\ \A k \in 1..Len(new) : (q \o new)[Len(q) + k] = new[k]
      BY <2>11, JoinFacts
    <3>. QED BY <3>1, <3>2, Zenon
  <2>10. Len(q) = n /\ Len(new) = m
    BY <2>6, <2>7
  <2>. HIDE DEF n, m
  <2>. QED BY <2>9, <2>10 DEF q
<1>. HIDE DEF new, z
<1>5. ToSet(events) \subseteq ToSet(z)
  BY <1>2, <1>4 DEF ToSet
<1>6. ASSUME NEW k \in 1..m PROVE \E f \in ToSet(z) : Alike(f, es[k])
  <2>1. n + k \in DOMAIN z
    BY <1>2, <1>4
  <2>2. z[n + k] \in ToSet(z)
    BY <2>1 DEF ToSet
  <2>. QED BY <1>3, <1>4, <2>2
<1>. HIDE DEF n, m
<1>7. \A k \in 1..m : z[n + k].t = es[k].t /\ (Sets(z[n + k]) <=> Sets(es[k]))
                      /\ (es[k].t = "load" => z[n + k].load = es[k].load)
  <2>1. \A e, f : Alike(f, e) => f.t = e.t /\ (Sets(f) <=> Sets(e)) /\ (e.t = "load" => f.load = e.load)
    BY DEF Alike, Sets
  <2>. QED BY <1>3, <1>4, <2>1
<1>8. ASSUME NEW l, NEW W, NEW V, Loads(events, l, W), W => V, \A k \in 1..m : ~Sets(es[k])
      PROVE  Loads(z, l, V)
  <2>1. ASSUME l = "Indexing", \A j \in 1..Len(z) : ~Sets(z[j]) PROVE V
    <3>1. \A j \in 1..n : j \in 1..Len(z)
      BY <1>2, <1>4
    <3>2. \A j \in 1..n : ~Sets(events[j])
      BY <1>4, <2>1, <3>1
    <3>. QED BY <1>8, <2>1, <3>2 DEF Loads, n
  <2>2. ASSUME NEW k \in 1..Len(z), z[k].t = "load", z[k].load = "Indexing",
               \A j \in 1..Len(z) : j > k => ~Sets(z[j])
        PROVE  V
    <3>1. CASE k \in 1..n
      <4>1. \A j \in 1..n : j \in 1..Len(z)
        BY <1>2, <1>4
      <4>2. \A j \in 1..n : j > k => ~Sets(events[j])
        BY <1>4, <2>2, <4>1
      <4>. QED BY <1>4, <1>8, <2>2, <3>1, <4>2 DEF Loads, n
    <3>2. CASE k \notin 1..n
      <4>1. k - n \in 1..m /\ n + (k - n) = k
        BY <1>2, <1>4, <3>2
      <4>2. Sets(z[k])
        BY <2>2 DEF Sets
      <4>. QED BY <1>7, <1>8, <4>1, <4>2
    <3>. QED BY <3>1, <3>2
  <2>. QED BY <2>1, <2>2 DEF Loads
<1>9. ASSUME NEW l, NEW V, es # <<>>, Sets(es[m]), es[m].t = "load" /\ es[m].load = "Indexing" => V
      PROVE  Loads(z, l, V)
  <2>1. m \in 1..m
    <3>1. 1 \in DOMAIN es
      BY <1>9, ListFacts
    <3>. QED BY <1>2, <3>1
  <2>2. Sets(z[n + m]) /\ n + m \in 1..Len(z)
    BY <1>2, <1>4, <1>7, <1>9, <2>1
  <2>3. ASSUME NEW k \in 1..Len(z), z[k].t = "load", z[k].load = "Indexing",
               \A j \in 1..Len(z) : j > k => ~Sets(z[j])
        PROVE  V
    <3>1. k = n + m
      BY <1>2, <1>4, <2>2, <2>3
    <3>. QED BY <1>7, <1>9, <2>1, <2>3, <3>1
  <2>. QED BY <2>2, <2>3 DEF Loads
<1>. QED BY <1>5, <1>6, <1>8, <1>9 DEF z, n, m

\* One session that is not over takes a step of its own.
LEMMA StepWaits ==
  ASSUME LspInv, WaitInv, NEW i \in 1..MaxSessions, NEW x, sessions' = [sessions EXCEPT ![i] = x],
         ed' = ed, current' = current, sessions[i].stage # "over", x.gen \in Nat,
         ToSet(events) \subseteq ToSet(events'),
         i = current => Orderly(x),
         i = current /\ x.stage # "over" =>
           Serves(x, Unread(x), ToSet(events'), ed),
         i = 1 /\ current = 1 => Loads(events', ed.load, Works(x))
  PROVE  WaitInv'
<1>. DEFINE s == sessions[i]
            c == current
            q == sessions'
<1>1. /\ AreSessions(sessions) /\ Used \in Nat /\ Launched(sessions, Used) /\ c \in 0..Used
      /\ Used <= MaxSessions /\ MaxSessions \in Nat
  BY LspBounds DEF LspInv, Core
<1>2. s.gen \in Nat /\ s # NoSession /\ x # NoSession
  <2>1. IsSession(s)
    BY <1>1 DEF AreSessions
  <2>2. NoSession.gen \notin Nat
    BY DEF NoSession, NewSession
  <2>. QED BY <2>1, <2>2, RunningFacts
<1>3. i <= Used
  BY <1>1, <1>2 DEF Launched
<1>4. q[i] = x /\ \A j \in 1..MaxSessions : j # i => q[j] = sessions[j]
  BY <1>1 DEF AreSessions
<1>. HIDE DEF q, s
<1>5. Used' = Used
  <2>1. {j \in 1..MaxSessions : q[j] # NoSession} = {j \in 1..MaxSessions : sessions[j] # NoSession}
    BY <1>2, <1>4 DEF s
  <2>. QED BY <2>1 DEF Used, q
<1>6. /\ EditEnds(ed) /\ Ids(ed) /\ c \in {0, Used} /\ (c # 0 => Orderly(sessions[c]))
      /\ (c # 0 /\ sessions[c].stage # "over" =>
            Serves(sessions[c], Unread(sessions[c]), ToSet(events), ed))
  BY DEF WaitInv, Supervised
<1>7. EditEnds(ed)' /\ Ids(ed)'
  BY <1>6 DEF EditEnds, Held, Ids
<1>8. c # 0 => c \in 1..MaxSessions
  BY <1>1
<1>9. (c # 0 => Orderly(q[c]))
  BY <1>4, <1>6, <1>8
<1>10. ASSUME c # 0, q[c].stage # "over"
       PROVE  Serves(q[c], Unread(q[c]), ToSet(events'), ed)
  <2>1. CASE c = i
    BY <1>4, <1>10, <2>1
  <2>2. CASE c # i
    <3>. DEFINE y == sessions[c]
    <3>1. q[c] = y
      BY <1>4, <1>8, <1>10, <2>2
    <3>2. y.stage # "over"
      BY <1>10, <3>1
    <3>3. Serves(y, Unread(y), ToSet(events), ed)
      BY <1>6, <1>10, <3>2
    <3>. HIDE DEF y
    <3>4. Serves(y, Unread(y), ToSet(events'), ed)
      BY <3>3, ServesMore
    <3>. QED BY <3>1, <3>4
  <2>. QED BY <2>1, <2>2
<1>11. ASSUME c = 1 PROVE Loads(events', ed.load, Works(q[1]))
  <2>1. i = 1
    BY <1>3, <1>6, <1>11
  <2>. QED BY <1>4, <1>11, <2>1
<1>12. (current \in {0, Used})' /\ (current # 0 => Orderly(sessions[current]))'
  BY <1>5, <1>6, <1>9 DEF q
<1>13. (Supervised => Serves(sessions[current], Unread(sessions[current]), ToSet(events), ed))'
  <2>1. ASSUME Supervised' PROVE c # 0 /\ q[c].stage # "over"
    BY <2>1 DEF Supervised, q
  <2>. QED BY <1>10, <2>1 DEF q
<1>14. (current = 1 => Loads(events, ed.load, Works(sessions[1])))'
  BY <1>11 DEF q
<1>. QED BY <1>7, <1>12, <1>13, <1>14 DEF WaitInv

\* A message that is no answer of the process that runs is taken; a request is lost.
LEMMA ServesLess ==
  ASSUME NEW s, NEW Q, NEW h, NEW E, NEW m, Serves(s, Q \cup {h}, E, m), NEW D, E \subseteq D,
         NEW x, x.tr.cancelled = s.tr.cancelled, x.tr.pending = s.tr.pending,
         x.proc.owes = s.proc.owes, x.gen = s.gen, x.proc.alive = s.proc.alive,
         s.lost \subseteq x.lost,
         h.t = "ask" => h.id \in x.lost, h.t = "response" => h.gen # s.gen
  PROVE  Serves(x, Q, D, m)
<1>1. Bounded(x, Q, m.nextId)
  BY DEF Serves, Bounded
<1>2. ASSUME NEW k \in Kinds, Waits(m, x, k) PROVE Live(x, Q, D, k, m.active[k])
  <2>1. Waits(m, s, k) /\ (h.t = "ask" => h.id # m.active[k])
    BY <1>2 DEF Waits
  <2>2. Live(s, Q \cup {h}, E, k, m.active[k])
    BY <2>1 DEF Serves
  <2>. QED BY <2>1, <2>2 DEF Live
<1>. QED BY <1>1, <1>2 DEF Serves

\* Translator::outgoing: what it makes of a request.
LEMMA OutgoingKeeps ==
  ASSUME NEW s, IsSession(s), NEW r, NEW x, x = Outgoing(s, r)
  PROVE  /\ x.tr.progress = s.tr.progress /\ x.proc.working = s.proc.working
         /\ x.proc.untold = s.proc.untold /\ x.proc.alive = s.proc.alive
         /\ x.gen = s.gen /\ x.lost = s.lost
         /\ ~s.tr.ready \/ r.t # "ask" => x.tr.pending = s.tr.pending /\ x.proc.owes = s.proc.owes
         /\ ~s.tr.ready \/ r.t # "cancel" => x.tr.cancelled = s.tr.cancelled
         /\ s.tr.ready /\ r.t = "ask" =>
              x.tr.pending = s.tr.pending \cup {r.id} /\ x.proc.owes = s.proc.owes \cup {r}
         /\ s.tr.ready /\ r.t = "cancel" => x.tr.cancelled \subseteq s.tr.cancelled \cup {r.id}
<1>1. /\ {"inbox", "gen", "stage", "tr", "proc", "lost"} \subseteq DOMAIN s
      /\ {"ready", "queued", "pending", "cancelled", "progress"} \subseteq DOMAIN s.tr
      /\ ProcFields \subseteq DOMAIN s.proc
  BY DEF IsSession
<1>2. CASE ~s.tr.ready
  <2>1. x = [s EXCEPT !.tr.queued = Append(@, r)]
    BY <1>2 DEF Outgoing
  <2>. QED BY <1>1, <1>2, <2>1
<1>3. CASE s.tr.ready
  <2>. DEFINE y == ServerReads(s.proc, r)
  <2>1. \/ r.t = "ask" /\ x = [s EXCEPT !.tr.pending = @ \cup {r.id}, !.proc = y]
        \/ r.t = "cancel" /\ x = [s EXCEPT !.tr.cancelled = @ \cup {r.id}]
        \/ r.t = "cancel" /\ x = s
        \/ r.t \notin {"ask", "cancel"} /\ x = [s EXCEPT !.proc = y]
    BY <1>3 DEF Outgoing
  <2>2. /\ y.working = s.proc.working /\ y.untold = s.proc.untold /\ y.alive = s.proc.alive
        /\ y.owes = IF r.t = "ask" THEN s.proc.owes \cup {r} ELSE s.proc.owes
    BY <1>1 DEF ServerReads, ProcFields
  <2>. HIDE DEF y
  <2>3. CASE r.t = "ask" /\ x = [s EXCEPT !.tr.pending = @ \cup {r.id}, !.proc = y]
    <3>1. /\ x.tr.pending = s.tr.pending \cup {r.id} /\ x.proc = y
          /\ x.tr.cancelled = s.tr.cancelled /\ x.tr.progress = s.tr.progress
          /\ x.gen = s.gen /\ x.lost = s.lost
      BY <1>1, <2>3
    <3>. QED BY <1>3, <2>2, <2>3, <3>1
  <2>4. CASE r.t = "cancel" /\ x = [s EXCEPT !.tr.cancelled = @ \cup {r.id}]
    <3>1. /\ x.tr.cancelled = s.tr.cancelled \cup {r.id} /\ x.proc = s.proc
          /\ x.tr.pending = s.tr.pending /\ x.tr.progress = s.tr.progress
          /\ x.gen = s.gen /\ x.lost = s.lost
      BY <1>1, <2>4
    <3>. QED BY <1>3, <2>4, <3>1
  <2>5. CASE r.t = "cancel" /\ x = s
    BY <1>3, <2>5
  <2>6. CASE r.t \notin {"ask", "cancel"} /\ x = [s EXCEPT !.proc = y]
    <3>1. x.tr = s.tr /\ x.proc = y /\ x.gen = s.gen /\ x.lost = s.lost
      BY <1>1, <2>6
    <3>. QED BY <1>3, <2>2, <2>6, <3>1
  <2>. QED BY <2>1, <2>3, <2>4, <2>5, <2>6
<1>. QED BY <1>2, <1>3

\* A request that is handed to a process is waited for there.
LEMMA OutgoingServes ==
  ASSUME NEW s, IsSession(s), s.tr.ready, NEW r, r.t \in Requests, NEW x, x = Outgoing(s, r),
         NEW Q, NEW E, NEW m, Serves(s, Q \cup {r}, E, m)
  PROVE  Serves(x, Q, E, m)
<1>1. /\ r.t # "ask" => x.tr.pending = s.tr.pending /\ x.proc.owes = s.proc.owes
      /\ r.t # "cancel" => x.tr.cancelled = s.tr.cancelled
      /\ r.t = "ask" => x.tr.pending = s.tr.pending \cup {r.id} /\ x.proc.owes = s.proc.owes \cup {r}
      /\ r.t = "cancel" => x.tr.cancelled \subseteq s.tr.cancelled \cup {r.id}
      /\ x.gen = s.gen /\ x.proc.alive = s.proc.alive /\ x.lost = s.lost
  BY OutgoingKeeps
<1>2. Bounded(s, Q \cup {r}, m.nextId)
  BY DEF Serves
<1>3. \A k \in Kinds : Waits(m, x, k) => Live(s, Q \cup {r}, E, k, m.active[k])
  BY <1>1 DEF Serves, Waits
<1>4. CASE r.t = "ask"
  <2>1. Bounded(x, Q, m.nextId)
    BY <1>1, <1>2, <1>4 DEF Bounded
  <2>2. ASSUME NEW k, NEW id, Live(s, Q \cup {r}, E, k, id) PROVE Live(x, Q, E, k, id)
    <3>1. id \notin x.tr.cancelled
      BY <1>1, <1>4, <2>2 DEF Live
    <3>2. \A w \in x.proc.owes : w.id = id => w.kind = k
      BY <1>1, <1>4, <2>2 DEF Live
    <3>3. \/ \E w \in Q : w.t = "ask" /\ w.id = id
          \/ /\ id \in x.tr.pending
             /\ \/ ~x.proc.alive
                \/ \E w \in Q : w.t = "response" /\ w.id = id /\ w.gen = x.gen
                \/ \E w \in x.proc.owes : w.id = id
          \/ \E e \in E : \/ e.t = "failed" /\ e.id = id
                          \/ e.t = "answer" /\ e.id = id /\ e.kind = k
      BY <1>1, <1>4, <2>2 DEF Live
    <3>. QED BY <2>2, <3>1, <3>2, <3>3 DEF Live
  <2>. QED BY <1>3, <2>1, <2>2 DEF Serves
<1>5. CASE r.t = "cancel"
  <2>1. Bounded(x, Q, m.nextId)
    BY <1>1, <1>2, <1>5 DEF Bounded
  <2>2. ASSUME NEW k, NEW id, Live(s, Q \cup {r}, E, k, id) PROVE Live(x, Q, E, k, id)
    BY <1>1, <1>5, <2>2 DEF Live
  <2>. QED BY <1>3, <2>1, <2>2 DEF Serves
<1>6. CASE r.t \notin {"ask", "cancel"}
  <2>1. r.t \notin {"ask", "cancel", "response"}
    BY <1>6 DEF Requests
  <2>. QED BY <1>1, <1>6, <2>1, ServesLess
<1>. QED BY <1>4, <1>5, <1>6

\* The handshake: what was queued is handed to the process.
LEMMA ReadyServes ==
  ASSUME NEW s, IsSession(s), s.gen \in Nat, QueuesRequests(s), NEW x, x = Ready(s),
         NEW R, NEW E, NEW m
  PROVE  /\ x.tr.progress = s.tr.progress /\ x.proc.working = s.proc.working
         /\ x.proc.untold = s.proc.untold
         /\ Serves(s, ToSet(s.tr.queued) \cup R, E, m) => Serves(x, R, E, m)
<1>. DEFINE q == s.tr.queued
            n == Len(q)
            o == [op |-> "outgoing"]
            b == [s EXCEPT !.tr.ready = TRUE, !.tr.queued = <<>>]
            A == Serves(s, ToSet(q) \cup R, E, m)
            Rest0(k) == {q[j] : j \in (k + 1)..n} \cup R
            Ok(y, k) == /\ IsSession(y) /\ y.gen = s.gen /\ y.tr.ready
                        /\ y.tr.progress = s.tr.progress /\ y.proc.working = s.proc.working
                        /\ y.proc.untold = s.proc.untold
                        /\ A => Serves(y, Rest0(k), E, m)
<1>1. /\ {"inbox", "gen", "stage", "tr", "proc", "lost"} \subseteq DOMAIN s
      /\ {"ready", "queued", "pending", "cancelled", "progress"} \subseteq DOMAIN s.tr
      /\ ProcFields \subseteq DOMAIN s.proc
      /\ List(s.inbox) /\ List(q) /\ \A k \in 1..Len(q) : Numbered(q[k])
  BY DEF IsSession
<1>2. n \in Nat
  BY <1>1, ListFacts
<1>3. \A a, y : Do(o, a, y) = Outgoing(a, y)
  BY DoFacts
<1>4. x = Fold(o, b, q)
  BY <1>1, FoldOfOutgoing DEF Ready
<1>5. /\ DOMAIN b = DOMAIN s /\ b.inbox = s.inbox /\ b.gen = s.gen /\ b.stage = s.stage
      /\ b.proc = s.proc /\ DOMAIN b.tr = DOMAIN s.tr /\ b.tr.ready /\ b.tr.queued = <<>>
      /\ b.tr.pending = s.tr.pending /\ b.tr.cancelled = s.tr.cancelled
      /\ b.tr.progress = s.tr.progress /\ b.lost = s.lost
  BY <1>1
<1>6. \A k \in 1..n : q[k] \in ToSet(q) /\ q[k].t \in Requests
  <2>1. \A k \in 1..n : q[k] \in ToSet(q)
    BY <1>1, MembersFacts
  <2>. QED BY <2>1 DEF QueuesRequests, Requests
<1>7. ToSet(q) = {q[j] : j \in 1..n}
  BY <1>1, MembersFacts
<1>. HIDE DEF b, o
<1>8. Ok(b, 0)
  <2>1. List(b.tr.queued) /\ Len(b.tr.queued) = 0
    <3>1. List(<<>>) /\ Len(<<>>) = 0
      BY <1>1, ListFacts
    <3>. QED BY <1>5, <3>1
  <2>2. IsSession(b)
    BY <1>5, <2>1 DEF IsSession
  <2>3. Rest0(0) = ToSet(q) \cup R
    BY <1>7
  <2>4. ASSUME A PROVE Serves(b, Rest0(0), E, m)
    <3>. HIDE DEF Rest0, q, n
    <3>1. Bounded(b, Rest0(0), m.nextId)
      BY <1>5, <2>3, <2>4 DEF Serves, Bounded
    <3>2. ASSUME NEW k \in Kinds, Waits(m, b, k) PROVE Live(b, Rest0(0), E, k, m.active[k])
      <4>1. Live(s, Rest0(0), E, k, m.active[k])
        BY <1>5, <2>3, <2>4, <3>2 DEF Serves, Waits
      <4>. QED BY <1>5, <4>1 DEF Live
    <3>. QED BY <3>1, <3>2 DEF Serves
  <2>. QED BY <1>5, <2>2, <2>4
<1>. HIDE DEF q, n, A
<1>9. PICK f : IsRun(f, o, b, q, n) /\ Fold(o, b, q) = f[n]
  BY <1>1, FoldIs DEF n
<1>. DEFINE T == {k \in Nat : k <= n => Ok(f[k], k)}
<1>10. 0 \in T
  <2>1. f[0] = b
    BY <1>9 DEF IsRun
  <2>. HIDE DEF Ok
  <2>. QED BY <1>8, <2>1
<1>11. ASSUME NEW k \in Nat, k \in T PROVE k + 1 \in T
  <2>1. CASE k + 1 <= n
    <3>1. k + 1 \in 1..n /\ (k + 1) - 1 = k /\ k <= n
      BY <1>2, <2>1
    <3>. DEFINE y == f[k]
                r == q[k + 1]
                v == f[k + 1]
                Q == Rest0(k + 1)
    <3>2. v = Outgoing(y, r)
      BY <1>3, <1>9, <3>1 DEF IsRun
    <3>3. Ok(y, k) /\ r.t \in Requests /\ Numbered(r)
      BY <1>1, <1>6, <1>11, <3>1 DEF n
    <3>4. Rest0(k) = Q \cup {r}
      <4>1. (k + 1)..n = {k + 1} \cup ((k + 1) + 1)..n
        BY <1>2, <3>1
      <4>. QED BY <4>1
    <3>. HIDE DEF y, r, v, Q, Rest0
    <3>5. IsSession(v) /\ v.gen = y.gen /\ v.tr.ready = y.tr.ready
      BY <3>2, <3>3, OutgoingFacts
    <3>6. /\ v.tr.progress = y.tr.progress /\ v.proc.working = y.proc.working
          /\ v.proc.untold = y.proc.untold
      BY <3>2, <3>3, OutgoingKeeps
    <3>7. ASSUME A PROVE Serves(v, Q, E, m)
      <4>1. Serves(y, Q \cup {r}, E, m)
        BY <3>3, <3>4, <3>7
      <4>. QED BY <3>2, <3>3, <4>1, OutgoingServes
    <3>8. Ok(v, k + 1)
      BY <3>3, <3>5, <3>6, <3>7 DEF Q
    <3>9. Ok(f[k + 1], k + 1)
      BY <3>8 DEF v
    <3>. HIDE DEF Ok
    <3>. QED BY <3>9
  <2>. QED BY <1>2, <2>1
<1>. HIDE DEF T
<1>12. Nat \subseteq T
  BY <1>10, <1>11, SetInduction
<1>13. n \in T
  BY <1>2, <1>12
<1>14. Ok(x, n)
  <2>. HIDE DEF Ok
  <2>. QED BY <1>2, <1>4, <1>9, <1>13 DEF T
<1>15. Rest0(n) = R
  <2>1. (n + 1)..n = {}
    BY <1>2
  <2>. QED BY <2>1
<1>. HIDE DEF Rest0
<1>. QED BY <1>14, <1>15 DEF q, A

\* An answer: it is passed on, or no one waits for it.
LEMMA SettledServes ==
  ASSUME NEW s, IsSession(s), NEW h, h.t = "response", h.ok => h.event.t = "answer" /\ h.event.id = h.id,
         NEW Q, NEW E, NEW m, Serves(s, Q \cup {h}, E, m), NEW D, E \subseteq D,
         \A k \in 1..Len(AnswerEvents(s, h)) : \E f \in D : Alike(f, AnswerEvents(s, h)[k]),
         NEW x, x.tr.pending = s.tr.pending \ {h.id}, x.tr.cancelled = s.tr.cancelled \ {h.id},
         x.proc.owes = s.proc.owes, x.gen = s.gen, x.proc.alive = s.proc.alive, x.lost = s.lost
  PROVE  Serves(x, Q, D, m)
<1>1. Bounded(x, Q, m.nextId)
  BY DEF Serves, Bounded
<1>2. ASSUME NEW k \in Kinds, Waits(m, x, k) PROVE Live(x, Q, D, k, m.active[k])
  <2>. DEFINE id == m.active[k]
  <2>1. Live(s, Q \cup {h}, E, k, id)
    BY <1>2 DEF Serves, Waits
  <2>. HIDE DEF id
  <2>4. /\ id \notin x.tr.cancelled
        /\ \A w \in Q : /\ w.t = "cancel" => w.id # id
                        /\ w.t = "ask" => (w.id = id => w.kind = k)
                        /\ w.t = "response" /\ w.ok => (w.id = id => w.event.kind = k)
        /\ \A r \in x.proc.owes : r.id = id => r.kind = k
    BY <2>1 DEF Live
  <2>. DEFINE ways(R) == \E w \in R : w.t = "ask" /\ w.id = id
              held(R, y) == /\ id \in y.tr.pending
                            /\ \/ ~y.proc.alive
                               \/ \E w \in R : w.t = "response" /\ w.id = id /\ w.gen = y.gen
                               \/ \E r \in y.proc.owes : r.id = id
              came(C) == \E e \in C : \/ e.t = "failed" /\ e.id = id
                                      \/ e.t = "answer" /\ e.id = id /\ e.kind = k
  <2>5. ways(Q \cup {h}) \/ held(Q \cup {h}, s) \/ came(E)
    BY <2>1 DEF Live
  <2>6. ways(Q \cup {h}) => ways(Q)
    OBVIOUS
  <2>7. came(E) => came(D)
    OBVIOUS
  <2>8. held(Q \cup {h}, s) => held(Q, x) \/ came(D)
    <3>1. CASE h.id # id
      BY <3>1
    <3>2. CASE h.id = id
      <4>. SUFFICES ASSUME held(Q \cup {h}, s) PROVE came(D)
        OBVIOUS
      <4>. DEFINE e == IF h.ok THEN h.event ELSE FailedEvent(id)
      <4>5. id \in s.tr.pending /\ id \notin s.tr.cancelled /\ (h.ok => h.event.kind = k)
        BY <2>1, <3>2 DEF Live
      <4>1. AnswerEvents(s, h) = <<e>>
        BY <3>2, <4>5 DEF AnswerEvents
      <4>2. \/ e.t = "failed" /\ e.id = id
            \/ e.t = "answer" /\ e.id = id /\ e.kind = k
        BY <3>2, <4>5 DEF FailedEvent
      <4>. HIDE DEF e
      <4>3. \E f \in D : Alike(f, e)
        <5>1. 1 \in 1..Len(<<e>>) /\ <<e>>[1] = e
          OBVIOUS
        <5>. QED BY <4>1, <5>1
      <4>4. PICK f \in D : Alike(f, e)
        BY <4>3
      <4>6. \/ f.t = "failed" /\ f.id = id
            \/ f.t = "answer" /\ f.id = id /\ f.kind = k
        BY <4>2, <4>4 DEF Alike
      <4>. QED BY <4>6
    <3>. QED BY <3>1, <3>2
  <2>9. ways(Q) \/ held(Q, x) \/ came(D)
    <3>. HIDE DEF ways, held, came
    <3>. QED BY <2>5, <2>6, <2>7, <2>8
  <2>10. Live(x, Q, D, k, id)
    BY <2>4, <2>9 DEF Live
  <2>. QED BY <2>10 DEF id
<1>. QED BY <1>1, <1>2 DEF Serves

\* A message is taken by a supervisor that goes on.
LEMMA TakenOrderly ==
  ASSUME NEW s, IsSession(s), s.inbox # <<>>, s.stage # "over", Orderly(s),
         NEW x, x.inbox = Tail(s.inbox), x.gen = s.gen, QueuesRequests(x),
         x.proc.working = s.proc.working, x.proc.untold = s.proc.untold,
         x.proc.alive = s.proc.alive, s.stage = "running",
         x.stage # "running" \/ Head(s.inbox).t # "gone" \/ Head(s.inbox).gen # s.gen,
         \/ /\ x.tr.progress = s.tr.progress
            /\ Head(s.inbox).t # "progress" \/ Head(s.inbox).gen # s.gen
         \/ /\ Head(s.inbox).t = "progress" /\ Head(s.inbox).gen = s.gen
            /\ x.tr.progress = ProgressOf(s, Head(s.inbox))
  PROVE  Orderly(x)
<1>. DEFINE q == s.inbox
            h == Head(q)
<1>1. List(q) /\ q # <<>>
  BY DEF IsSession
<1>2. ToSet(q) = {h} \cup ToSet(Tail(q))
  <2>. HIDE DEF q
  <2>. QED BY <1>1, MembersFacts
<1>3. ProperInbox(s) /\ EndIsKnown(s) /\ TracksAll(s)
  BY DEF Orderly
<1>4. ProperInbox(x)
  BY <1>2, <1>3 DEF ProperInbox
<1>5. EndIsKnown(x)
  BY <1>2, <1>3 DEF EndIsKnown
<1>6. ASSUME NEW t PROVE Tracks(x, t)
  <2>1. Tracks(s, t) /\ List(s.inbox)
    BY <1>1, <1>3 DEF TracksAll
  <2>2. CASE Head(s.inbox).t # "progress" \/ Head(s.inbox).gen # s.gen
    <3>1. ~News(Head(s.inbox), s.gen, t)
      BY <2>2 DEF News, Report
    <3>. QED BY <2>1, <2>2, <3>1, TracksTail
  <2>3. CASE /\ Head(s.inbox).t = "progress" /\ Head(s.inbox).gen = s.gen
             /\ x.tr.progress = ProgressOf(s, Head(s.inbox))
    <3>. DEFINE w == Head(s.inbox)
    <3>1. \/ ~News(w, s.gen, t) /\ (t \in x.tr.progress => t \in s.tr.progress)
          \/ News(w, s.gen, t) /\ (t \in x.tr.progress => ~w.end)
      BY <2>3 DEF News, Report, ProgressOf
    <3>. QED BY <2>1, <3>1, TracksTail
  <2>. QED BY <2>2, <2>3
<1>7. TracksAll(x)
  BY <1>6 DEF TracksAll
<1>. QED BY <1>4, <1>5, <1>7 DEF Orderly

\* A session that has the same requests under way.
LEMMA ServesSame ==
  ASSUME NEW s, NEW Q, NEW E, NEW m, Serves(s, Q, E, m), NEW D, E \subseteq D,
         NEW x, x.tr.cancelled = s.tr.cancelled, x.tr.pending = s.tr.pending,
         x.proc.owes = s.proc.owes, x.gen = s.gen, x.proc.alive = s.proc.alive, x.lost = s.lost
  PROVE  Serves(x, Q, D, m)
<1>1. Bounded(x, Q, m.nextId)
  BY DEF Serves, Bounded
<1>2. ASSUME NEW k \in Kinds, Waits(m, x, k) PROVE Live(x, Q, D, k, m.active[k])
  <2>1. Live(s, Q, E, k, m.active[k])
    BY <1>2 DEF Serves, Waits
  <2>. QED BY <2>1 DEF Live
<1>. QED BY <1>1, <1>2 DEF Serves

\* The last of the events sets the status, to indexing only if V.
Ends(es, V) ==
  /\ es # <<>> /\ Sets(es[Len(es)])
  /\ es[Len(es)].t = "load" /\ es[Len(es)].load = "Indexing" => V

\* Events that set the status.
LEMMA FewSets ==
  /\ \A l, V : (l = "Indexing" => V) => Ends(<<Load(l)>>, V)
  /\ \A V : Ends(<<FailedEvent(0)>>, V) /\ Ends(<<FailedEvent(0), Load("Stale")>>, V)
<1>1. ASSUME NEW e, Sets(e), NEW V, e.t = "load" /\ e.load = "Indexing" => V
      PROVE  Ends(<<e>>, V) /\ \A f : Ends(<<f, e>>, V)
  <2>1. <<e>> # <<>> /\ Len(<<e>>) = 1 /\ <<e>>[1] = e
    OBVIOUS
  <2>2. \A f : <<f, e>> # <<>> /\ Len(<<f, e>>) = 2 /\ <<f, e>>[2] = e
    OBVIOUS
  <2>3. Ends(<<e>>, V)
    BY <1>1, <2>1 DEF Ends
  <2>4. ASSUME NEW f PROVE Ends(<<f, e>>, V)
    BY <1>1, <2>2 DEF Ends
  <2>. QED BY <2>3, <2>4
<1>2. \A l : Sets(Load(l)) /\ Load(l).load = l
  BY DEF Sets, Load
<1>3. Sets(FailedEvent(0)) /\ FailedEvent(0).t # "load"
  BY DEF Sets, FailedEvent
<1>4. \A l, V : (l = "Indexing" => V) => Ends(<<Load(l)>>, V)
  BY <1>1, <1>2
<1>5. ASSUME NEW V PROVE Ends(<<FailedEvent(0)>>, V) /\ Ends(<<FailedEvent(0), Load("Stale")>>, V)
  <2>1. Ends(<<FailedEvent(0)>>, V)
    BY <1>1, <1>3
  <2>2. \A f : Ends(<<f, Load("Stale")>>, V)
    BY <1>1, <1>2
  <2>. QED BY <2>1, <2>2
<1>. QED BY <1>4, <1>5

\* The supervisor of session i goes on, without a word.
LEMMA SilentWaits ==
  ASSUME LspInv, WaitInv, NEW i \in 1..MaxSessions, NEW x, Becomes(i, x), UNCHANGED events,
         sessions[i].stage # "over", x.gen \in Nat,
         i = current => Orderly(x),
         i = current /\ x.stage # "over" =>
           Serves(x, Unread(x), ToSet(events), ed),
         i = current => (Works(sessions[i]) => Works(x))
  PROVE  WaitInv'
<1>1. ASSUME i = 1, current = 1 PROVE Loads(events', ed.load, Works(x))
  <2>. DEFINE V == Works(sessions[1])
              W == Works(x)
  <2>1. Loads(events, ed.load, V) /\ (V => W)
    BY <1>1 DEF WaitInv
  <2>. HIDE DEF V, W
  <2>2. Loads(events, ed.load, W)
    BY <2>1 DEF Loads
  <2>. QED BY <2>2 DEF W
<1>. QED BY <1>1, StepWaits DEF Becomes

\* It goes on, and has something to say.
LEMMA SpokenWaits ==
  ASSUME LspInv, WaitInv, NEW i \in 1..MaxSessions, NEW x, Becomes(i, x), NEW es, Emit(i, es),
         Tells(sessions[i], es), sessions[i].stage # "over", x.gen \in Nat,
         i = current => Orderly(x),
         ToSet(events) \subseteq ToSet(events')
           /\ (\A k \in 1..Len(es) : \E f \in ToSet(events') : Alike(f, es[k]))
           /\ i = current /\ x.stage # "over"
           => Serves(x, Unread(x), ToSet(events'), ed),
         i = current =>
           \/ Ends(es, Works(x))
           \/ (\A k \in 1..Len(es) : ~Sets(es[k])) /\ (Works(sessions[i]) => Works(x))
  PROVE  WaitInv'
<1>1. List(events)
  BY DEF LspInv, Core, Follows, Tidings
<1>2. List(es) /\ \A k \in 1..Len(es) : IsEvent(es[k])
  BY DEF Tells
<1>3. /\ ToSet(events) \subseteq ToSet(events')
      /\ \A k \in 1..Len(es) : \E f \in ToSet(events') : Alike(f, es[k])
      /\ \A l, W, V : Loads(events, l, W) /\ (W => V) /\ (\A k \in 1..Len(es) : ~Sets(es[k]))
                        => Loads(events', l, V)
      /\ \A l, V : es # <<>> /\ Sets(es[Len(es)])
                     /\ (es[Len(es)].t = "load" /\ es[Len(es)].load = "Indexing" => V)
                     => Loads(events', l, V)
  BY <1>1, <1>2, EmittedIs
<1>4. ASSUME i = 1, current = 1 PROVE Loads(events', ed.load, Works(x))
  <2>. DEFINE V == Works(sessions[1])
              W == Works(x)
  <2>1. Loads(events, ed.load, V)
    BY <1>4 DEF WaitInv
  <2>2. Ends(es, W) \/ ((\A k \in 1..Len(es) : ~Sets(es[k])) /\ (V => W))
    BY <1>4, Zenon
  <2>. HIDE DEF V, W
  <2>3. CASE Ends(es, W)
    BY <1>3, <2>3 DEF Ends, W
  <2>4. CASE (\A k \in 1..Len(es) : ~Sets(es[k])) /\ (V => W)
    <3>1. Loads(events', ed.load, W)
      BY <1>3, <2>1, <2>4
    <3>. QED BY <3>1 DEF W
  <2>. QED BY <2>2, <2>3, <2>4
<1>5. /\ sessions' = [sessions EXCEPT ![i] = x] /\ ed' = ed /\ current' = current
  BY DEF Becomes
<1>6. i = current /\ x.stage # "over" =>
        Serves(x, Unread(x), ToSet(events'), ed)
  BY <1>3
<1>7. ToSet(events) \subseteq ToSet(events')
  BY <1>3
<1>. QED BY <1>4, <1>5, <1>6, <1>7, StepWaits

\* A supervisor's step.
LEMMA SupervisorWaits ==
  ASSUME LspInv, WaitInv, NEW i \in 1..MaxSessions, Supervisor(i)
  PROVE  WaitInv'
<1>. DEFINE s == sessions[i]
            r == Rest(i)
            h == Head(s.inbox)
            E == ToSet(events)
            t == ToSet(Tail(s.inbox))
<1>1. IsSession(s)
  BY DEF LspInv, Core, AreSessions
<1>2. /\ {"inbox", "gen", "stage", "tr", "proc", "lost"} \subseteq DOMAIN s
      /\ {"ready", "queued", "pending", "cancelled", "progress"} \subseteq DOMAIN s.tr
      /\ ProcFields \subseteq DOMAIN s.proc
      /\ List(s.inbox) /\ \A k \in 1..Len(s.inbox) : IsWork(s.inbox[k])
  BY <1>1 DEF IsSession
<1>3. ASSUME s.inbox # <<>>, s.stage # "over"
      PROVE  /\ DOMAIN r = DOMAIN s /\ r.inbox = Tail(s.inbox) /\ r.gen = s.gen /\ r.stage = s.stage
             /\ r.tr = s.tr /\ r.proc = s.proc /\ r.lost = s.lost /\ IsSession(r) /\ IsWork(h)
             /\ s.gen \in Nat
             /\ \A w : Leads(s, w) => WorkPast(w, h)
             /\ ToSet(s.inbox) = {h} \cup t
             /\ i = current => Proper(h, s.gen)
  <2>1. /\ DOMAIN r = DOMAIN s /\ r.inbox = Tail(s.inbox) /\ r.gen = s.gen /\ r.stage = s.stage
        /\ r.tr = s.tr /\ r.proc = s.proc /\ r.lost = s.lost
    BY <1>2 DEF Rest
  <2>8. i = current => ProperInbox(s)
    BY <1>3 DEF WaitInv, Orderly
  <2>. DEFINE q == s.inbox
              b == Tail(q)
  <2>2. List(q) /\ q # <<>> /\ (\A k \in 1..Len(q) : IsWork(q[k])) /\ s.gen \in Nat
    BY <1>1, <1>2, <1>3, RunningFacts
  <2>. HIDE DEF q
  <2>3. /\ List(b) /\ Head(q) = q[1] /\ 1 \in 1..Len(q)
        /\ \A k \in 1..Len(b) : k + 1 \in 1..Len(q) /\ b[k] = q[k + 1]
    BY <2>2, TailFacts
  <2>9. ToSet(q) = {Head(q)} \cup ToSet(b)
    BY <2>2, MembersFacts
  <2>. HIDE DEF b
  <2>4. r.inbox = b
    BY <2>1 DEF b, q
  <2>5. \A w : Leads(s, w) => WorkPast(w, h)
    BY <1>3, <2>3 DEF Leads, q
  <2>10. ToSet(s.inbox) = {h} \cup t
    BY <2>9 DEF b, q
  <2>11. i = current => Proper(h, s.gen)
    BY <2>8, <2>10 DEF ProperInbox
  <2>. HIDE DEF r, s, h, t
  <2>6. IsSession(r)
    BY <1>1, <2>1, <2>2, <2>3, <2>4 DEF IsSession
  <2>7. IsWork(h)
    BY <2>2, <2>3 DEF h, q
  <2>. QED BY <2>1, <2>2, <2>5, <2>6, <2>7, <2>10, <2>11
<1>4. ASSUME i = current
      PROVE  /\ Orderly(s)
             /\ s.stage # "over" => Serves(s, Unread(s), E, ed)
  BY <1>4 DEF WaitInv, Supervised
<1>5. ASSUME NEW x, Becomes(i, x), UNCHANGED events, s.stage # "over", x.gen \in Nat,
             i = current => Orderly(x),
             i = current /\ x.stage # "over" =>
               Serves(x, Unread(x), E, ed),
             i = current => (Works(s) => Works(x))
      PROVE  WaitInv'
  BY <1>5, SilentWaits
<1>6. ASSUME NEW x, Becomes(i, x), NEW es, Emit(i, es), Tells(s, es), s.stage # "over",
             x.gen \in Nat, i = current => Orderly(x),
             E \subseteq ToSet(events')
               /\ (\A k \in 1..Len(es) : \E f \in ToSet(events') : Alike(f, es[k]))
               /\ i = current /\ x.stage # "over"
               => Serves(x, Unread(x), ToSet(events'), ed),
             i = current =>
               \/ Ends(es, Works(x))
               \/ (\A k \in 1..Len(es) : ~Sets(es[k])) /\ (Works(s) => Works(x))
      PROVE  WaitInv'
  BY <1>6, SpokenWaits
<1>7. \A kind : Takes(i, kind) => s.stage = "running" /\ s.stage # "over" /\ s.inbox # <<>> /\ h.t \in kind
  BY DEF Takes
<1>8. s.stage # "over" => s.gen \in Nat
  BY <1>1, RunningFacts
<1>. HIDE DEF s, r, h, E, t
<1>9. \A x : x.stage = "over" => Orderly(x)
  BY DEF Orderly
<1>20. ASSUME s.inbox # <<>>, s.stage # "over", ~Report(h, s.gen), NEW x, x.inbox = Tail(s.inbox),
              x.gen = s.gen, x.stage = s.stage, x.proc.working = s.proc.working,
              x.proc.untold = s.proc.untold
       PROVE  Works(s) => Works(x)
  <2>1. ToSet(s.inbox) = {h} \cup t
    BY <1>3, <1>20
  <2>2. ToSet(x.inbox) = t
    BY <1>20 DEF t
  <2>. QED BY <1>20, <2>1, <2>2 DEF Works
<1>10. CASE TakeRequest(i)
  <2>1. /\ s.stage = "running" /\ s.stage # "over" /\ s.inbox # <<>>
        /\ h.t \in {"open", "change", "close", "ask", "cancel"}
    BY <1>7, <1>10 DEF TakeRequest
  <2>2. /\ r.inbox = Tail(s.inbox) /\ r.gen = s.gen /\ r.stage = s.stage /\ r.tr = s.tr
        /\ r.proc = s.proc /\ IsSession(r) /\ IsWork(h) /\ s.gen \in Nat /\ DOMAIN r = DOMAIN s
        /\ ToSet(s.inbox) = {h} \cup t /\ r.lost = s.lost
    BY <1>3, <2>1
  <2>3. CASE Becomes(i, Outgoing(r, h)) /\ UNCHANGED events
    <3>. DEFINE x == Outgoing(r, h)
    <3>1. Numbered(h) /\ r.gen \in Nat
      BY <2>2 DEF IsWork
    <3>2. /\ IsSession(x) /\ x.inbox = r.inbox /\ x.gen = r.gen /\ x.stage = r.stage
          /\ x.proc.alive = r.proc.alive
          /\ ~r.tr.ready => x.proc = r.proc /\ x.tr.queued = Append(r.tr.queued, h)
          /\ r.tr.ready => x.tr.queued = <<>>
      BY <2>2, <3>1, OutgoingFacts
    <3>3. /\ x.tr.progress = r.tr.progress /\ x.proc.working = r.proc.working
          /\ x.proc.untold = r.proc.untold /\ x.lost = r.lost
          /\ ~r.tr.ready => /\ x.tr.pending = r.tr.pending /\ x.tr.cancelled = r.tr.cancelled
                            /\ x.proc.owes = r.proc.owes
      BY <2>2, OutgoingKeeps
    <3>9. ASSUME NEW Q, NEW D, NEW m, s.tr.ready, Serves(r, Q \cup {h}, D, m) PROVE Serves(x, Q, D, m)
      <4>1. h.t \in Requests
        BY <2>1 DEF Requests
      <4>. QED BY <2>2, <3>9, <4>1, OutgoingServes
    <3>4. Becomes(i, x)
      BY <2>3
    <3>. HIDE DEF x
    <3>5. ToSet(x.tr.queued) = IF s.tr.ready THEN {} ELSE ToSet(s.tr.queued) \cup {h}
      <4>. DEFINE q == s.tr.queued
      <4>1. List(q) /\ x.tr.queued = IF s.tr.ready THEN <<>> ELSE Append(q, h)
        BY <1>1, <2>2, <3>2 DEF IsSession
      <4>. HIDE DEF q
      <4>2. ToSet(<<>>) = {} /\ ToSet(Append(q, h)) = ToSet(q) \cup {h}
        BY <4>1, MembersFacts
      <4>3. ToSet(x.tr.queued) = IF s.tr.ready THEN {} ELSE ToSet(q) \cup {h}
        BY <4>1, <4>2
      <4>. QED BY <4>3 DEF q
    <3>6. ASSUME i = current PROVE Orderly(x)
      <4>1. QueuesRequests(x)
        BY <1>4, <2>1, <3>5, <3>6 DEF Orderly, QueuesRequests
      <4>. QED BY <1>1, <1>4, <2>1, <2>2, <3>2, <3>3, <3>6, <4>1, TakenOrderly DEF h
    <3>7. ASSUME i = current
          PROVE  Serves(x, Unread(x), E, ed)
      <4>1. Serves(s, Unread(s), E, ed)
        BY <1>4, <2>1, <3>7
      <4>2. CASE s.tr.ready
        <5>1. s.tr.queued = <<>>
          BY <1>1, <4>2 DEF IsSession
        <5>2. ToSet(s.tr.queued) = {}
          BY <5>1 DEF ToSet
        <5>3. Unread(s) = t \cup {h} /\ Unread(x) = t
          BY <2>2, <3>2, <3>5, <4>2, <5>2 DEF Unread, t
        <5>4. Serves(r, t \cup {h}, E, ed)
          BY <2>2, <4>1, <5>3, ServesSame
        <5>. QED BY <3>9, <4>2, <5>3, <5>4
      <4>3. CASE ~s.tr.ready
        <5>1. Unread(x) = Unread(s)
          BY <2>2, <3>2, <3>5, <4>3 DEF Unread, t
        <5>2. /\ x.tr.cancelled = s.tr.cancelled /\ x.tr.pending = s.tr.pending
              /\ x.proc.owes = s.proc.owes /\ x.gen = s.gen /\ x.proc.alive = s.proc.alive
              /\ x.lost = s.lost
          BY <2>2, <3>2, <3>3, <4>3
        <5>. QED BY <4>1, <5>1, <5>2, ServesSame
      <4>. QED BY <4>2, <4>3
    <3>8. Works(s) => Works(x)
      <4>1. ~Report(h, s.gen)
        BY <2>1 DEF Report
      <4>. QED BY <1>20, <2>1, <2>2, <3>2, <3>3, <4>1
    <3>. QED BY <1>5, <2>1, <2>2, <2>3, <3>2, <3>4, <3>6, <3>7, <3>8
  <2>4. CASE /\ ~s.proc.alive /\ s.tr.ready
             /\ Becomes(i, [r EXCEPT !.stage = "backoff", !.lost = @ \cup AskedIn(<<h>>)])
             /\ Emit(i, <<FailedEvent(0), Load("Stale")>>)
    <3>. DEFINE x == [r EXCEPT !.stage = "backoff", !.lost = @ \cup AskedIn(<<h>>)]
                es == <<FailedEvent(0), Load("Stale")>>
    <3>1. /\ x.inbox = Tail(s.inbox) /\ x.gen = s.gen /\ x.stage = "backoff"
          /\ x.tr = s.tr /\ x.proc = s.proc /\ x.lost = s.lost \cup AskedIn(<<h>>)
      BY <1>2, <2>2
    <3>2. Becomes(i, x) /\ Emit(i, es) /\ Tells(s, es) /\ Ends(es, Works(x))
      BY <2>4, FewEvents, FewSets
    <3>. HIDE DEF x, es
    <3>3. ASSUME i = current PROVE Orderly(x)
      <4>1. QueuesRequests(x)
        BY <1>4, <2>1, <3>1, <3>3 DEF Orderly, QueuesRequests
      <4>. QED BY <1>1, <1>4, <2>1, <3>1, <3>3, <4>1, TakenOrderly DEF h
    <3>4. ASSUME E \subseteq ToSet(events'), i = current
          PROVE  Serves(x, Unread(x), ToSet(events'), ed)
      <4>1. Serves(s, Unread(s), E, ed)
        BY <1>4, <2>1, <3>4
      <4>2. s.tr.queued = <<>>
        BY <1>1, <2>4 DEF IsSession
      <4>3. ToSet(s.tr.queued) = {}
        BY <4>2 DEF ToSet
      <4>4. Unread(s) = t \cup {h} /\ Unread(x) = t
        BY <2>2, <3>1, <4>3 DEF Unread, t
      <4>5. h.t = "ask" => h.id \in x.lost
        <5>1. h \in ToSet(<<h>>)
          BY DEF ToSet
        <5>. QED BY <3>1, <5>1 DEF AskedIn
      <4>. DEFINE D == ToSet(events')
      <4>6. Serves(s, t \cup {h}, E, ed) /\ E \subseteq D
        BY <3>4, <4>1, <4>4
      <4>. HIDE DEF D
      <4>7. Serves(x, t, D, ed)
        BY <2>1, <3>1, <4>5, <4>6, ServesLess
      <4>. QED BY <4>4, <4>7 DEF D
    <3>. QED BY <1>6, <2>1, <2>2, <3>1, <3>2, <3>3, <3>4
  <2>. QED BY <1>10, <2>3, <2>4 DEF TakeRequest, r, s, h
<1>11. CASE TakeHandshake(i)
  <2>1. s.stage = "running" /\ s.stage # "over" /\ s.inbox # <<>> /\ h.t = "initialized"
    BY <1>7, <1>11 DEF TakeHandshake
  <2>2. /\ r.inbox = Tail(s.inbox) /\ r.gen = s.gen /\ r.stage = s.stage /\ r.tr = s.tr
        /\ r.proc = s.proc /\ IsSession(r) /\ s.gen \in Nat /\ DOMAIN r = DOMAIN s
        /\ ToSet(s.inbox) = {h} \cup t /\ r.lost = s.lost
    BY <1>3, <2>1
  <2>3. CASE Becomes(i, Ready(r)) /\ Emit(i, <<Load("Ready")>>)
    <3>. DEFINE x == Ready(r)
                es == <<Load("Ready")>>
    <3>1. /\ IsSession(x) /\ x.inbox = r.inbox /\ x.gen = r.gen /\ x.stage = r.stage
          /\ x.proc.alive = r.proc.alive /\ x.tr.queued = <<>>
      BY <2>2, ReadyFacts
    <3>2. Becomes(i, x) /\ Emit(i, es) /\ Tells(s, es)
      BY <2>3, FewEvents
    <3>7. \A V : Ends(es, V)
      BY FewSets
    <3>3. ASSUME i = current
          PROVE  /\ x.tr.progress = s.tr.progress /\ x.proc.working = s.proc.working
                 /\ x.proc.untold = s.proc.untold
                 /\ \A D : Serves(r, ToSet(r.tr.queued) \cup t, D, ed) => Serves(x, t, D, ed)
      <4>1. QueuesRequests(r)
        BY <1>4, <2>1, <2>2, <3>3 DEF Orderly, QueuesRequests
      <4>. QED BY <2>2, <4>1, ReadyServes
    <3>. HIDE DEF x, es
    <3>4. ToSet(x.tr.queued) = {}
      BY <3>1 DEF ToSet
    <3>5. ASSUME i = current PROVE Orderly(x)
      <4>1. QueuesRequests(x)
        BY <3>4 DEF QueuesRequests
      <4>. QED BY <1>1, <1>4, <2>1, <2>2, <3>1, <3>3, <3>5, <4>1, TakenOrderly DEF h
    <3>6. ASSUME E \subseteq ToSet(events'), i = current
          PROVE  Serves(x, Unread(x), ToSet(events'), ed)
      <4>1. Serves(s, Unread(s), E, ed)
        BY <1>4, <2>1, <3>6
      <4>2. Unread(s) = (ToSet(r.tr.queued) \cup t) \cup {h} /\ Unread(x) = t
        BY <2>2, <3>1, <3>4 DEF Unread, t
      <4>. DEFINE Q == ToSet(r.tr.queued) \cup t
                  D == ToSet(events')
      <4>4. Serves(s, Q \cup {h}, E, ed) /\ E \subseteq D
        BY <3>6, <4>1, <4>2
      <4>. HIDE DEF Q, D
      <4>3. Serves(r, Q, D, ed)
        BY <2>1, <2>2, <4>4, ServesLess
      <4>. QED BY <3>3, <3>6, <4>2, <4>3 DEF Q, D
    <3>. QED BY <1>6, <2>1, <2>2, <3>1, <3>2, <3>5, <3>6, <3>7
  <2>4. CASE /\ Becomes(i, [r EXCEPT !.stage = "over", !.proc.alive = FALSE, !.inbox = <<>>])
             /\ Emit(i, <<FailedEvent(0)>>)
    <3>. DEFINE x == [r EXCEPT !.stage = "over", !.proc.alive = FALSE, !.inbox = <<>>]
                es == <<FailedEvent(0)>>
    <3>1. x.gen = s.gen /\ x.stage = "over"
      BY <1>2, <2>2
    <3>2. Becomes(i, x) /\ Emit(i, es) /\ Tells(s, es) /\ Ends(es, Works(x))
      BY <2>4, FewEvents, FewSets
    <3>. HIDE DEF x, es
    <3>. QED BY <1>6, <1>9, <2>1, <2>2, <3>1, <3>2
  <2>. QED BY <1>11, <2>3, <2>4 DEF TakeHandshake, r
<1>12. CASE TakeAnswer(i)
  <2>1. /\ s.stage = "running" /\ s.stage # "over" /\ s.inbox # <<>> /\ h.t = "response"
        /\ h.gen = s.gen
    BY <1>7, <1>12 DEF TakeAnswer, h, s
  <2>. DEFINE x == Settled(r, h.id)
              es == AnswerEvents(s, h)
  <2>2. /\ r.inbox = Tail(s.inbox) /\ r.gen = s.gen /\ r.stage = s.stage /\ r.tr = s.tr
        /\ r.proc = s.proc /\ r.lost = s.lost /\ IsWork(h) /\ s.gen \in Nat /\ DOMAIN r = DOMAIN s
        /\ ToSet(s.inbox) = {h} \cup t /\ (\A w : Leads(s, w) => WorkPast(w, h))
        /\ (i = current => Proper(h, s.gen))
    BY <1>3, <2>1
  <2>3. Becomes(i, x) /\ Emit(i, es)
    BY <1>12 DEF TakeAnswer, s, r, h
  <2>4. /\ x.inbox = Tail(s.inbox) /\ x.gen = s.gen /\ x.stage = s.stage /\ x.proc = s.proc
        /\ x.tr.queued = s.tr.queued /\ x.tr.progress = s.tr.progress
        /\ x.tr.pending = s.tr.pending \ {h.id} /\ x.tr.cancelled = s.tr.cancelled \ {h.id}
        /\ x.lost = s.lost
    BY <1>2, <2>2 DEF Settled
  <2>5. es = <<>> \/ (h.ok /\ es = <<h.event>>) \/ es = <<FailedEvent(h.id)>>
    BY DEF AnswerEvents
  <2>6. i = current /\ h.ok => h.event.t = "answer" /\ h.event.id = h.id
    BY <2>1, <2>2 DEF Proper
  <2>. HIDE DEF x
  <2>7. ASSUME i = current, E \subseteq ToSet(events'),
               \A k \in 1..Len(es) : \E f \in ToSet(events') : Alike(f, es[k])
        PROVE  Serves(x, Unread(x), ToSet(events'), ed)
    <3>1. Serves(s, Unread(s), E, ed)
      BY <1>4, <2>1, <2>7
    <3>2. Unread(s) = Unread(x) \cup {h}
      BY <2>2, <2>4 DEF Unread, t
    <3>. DEFINE Q == Unread(x)
                D == ToSet(events')
                m == ed
    <3>3. Serves(s, Q \cup {h}, E, m) /\ E \subseteq D
      BY <2>7, <3>1, <3>2
    <3>4. \A k \in 1..Len(AnswerEvents(s, h)) : \E f \in D : Alike(f, AnswerEvents(s, h)[k])
      BY <2>7
    <3>5. h.ok => h.event.t = "answer" /\ h.event.id = h.id
      BY <2>6, <2>7
    <3>. HIDE DEF Q, D, m
    <3>6. Serves(x, Q, D, m)
      BY <1>1, <2>1, <2>4, <3>3, <3>4, <3>5, SettledServes
    <3>. QED BY <3>6 DEF Q, D, m
  <2>. HIDE DEF es
  <2>8. Tells(s, es)
    <3>1. h.ok => IsEvent(h.event) /\ \A w : Leads(s, w) => EventPast(w, h.event)
      BY <2>1, <2>2 DEF IsWork, WorkPast
    <3>3. CASE es = <<>>
      BY <3>3, FewEvents
    <3>4. CASE h.ok /\ es = <<h.event>>
      <4>. DEFINE e == h.event
      <4>1. IsEvent(e) /\ (\A w : Leads(s, w) => EventPast(w, e)) /\ es = <<e>>
        BY <3>1, <3>4
      <4>. HIDE DEF e
      <4>2. Tells(s, <<e>>)
        BY <4>1, FewEvents
      <4>. QED BY <4>1, <4>2
    <3>5. CASE es = <<FailedEvent(h.id)>>
      BY <3>5, FewEvents
    <3>. QED BY <2>5, <3>3, <3>4, <3>5
  <2>9. ASSUME i = current PROVE Orderly(x)
    <3>1. QueuesRequests(x)
      BY <1>4, <2>1, <2>4, <2>9 DEF Orderly, QueuesRequests
    <3>. QED BY <1>1, <1>4, <2>1, <2>4, <2>9, <3>1, TakenOrderly DEF h
  <2>10. i = current => Ends(es, Works(x)) \/ \A k \in 1..Len(es) : ~Sets(es[k])
    <3>3. CASE es = <<>>
      <4>1. Len(<<>>) = 0
        OBVIOUS
      <4>. QED BY <3>3, <4>1
    <3>4. CASE h.ok /\ es = <<h.event>>
      <4>. DEFINE e == h.event
      <4>1. i = current => ~Sets(e)
        BY <2>6, <3>4 DEF Sets
      <4>2. es = <<e>>
        BY <3>4
      <4>. HIDE DEF e
      <4>3. \A k \in 1..Len(<<e>>) : <<e>>[k] = e
        OBVIOUS
      <4>. QED BY <4>1, <4>2, <4>3
    <3>5. CASE es = <<FailedEvent(h.id)>>
      <4>1. CASE h.id = 0
        BY <3>5, <4>1, FewSets
      <4>2. CASE h.id # 0
        <5>. DEFINE e == FailedEvent(h.id)
        <5>1. ~Sets(e)
          BY <4>2 DEF Sets, FailedEvent
        <5>2. es = <<e>>
          BY <3>5
        <5>. HIDE DEF e
        <5>3. \A k \in 1..Len(<<e>>) : <<e>>[k] = e
          OBVIOUS
        <5>. QED BY <5>1, <5>2, <5>3
      <4>. QED BY <4>1, <4>2
    <3>. QED BY <2>5, <3>3, <3>4, <3>5
  <2>11. Works(s) => Works(x)
    <3>1. ~Report(h, s.gen)
      BY <2>1 DEF Report
    <3>. QED BY <1>20, <2>1, <2>4, <3>1
  <2>12. Becomes(i, x) /\ Emit(i, es)
    BY <2>3 DEF x, es
  <2>13. x.gen \in Nat
    BY <2>2, <2>4
  <2>14. E \subseteq ToSet(events')
            /\ (\A k \in 1..Len(es) : \E f \in ToSet(events') : Alike(f, es[k]))
            /\ i = current /\ x.stage # "over"
            => Serves(x, Unread(x), ToSet(events'), ed)
    BY <2>7 DEF es
  <2>15. i = current =>
               \/ Ends(es, Works(x))
               \/ (\A k \in 1..Len(es) : ~Sets(es[k])) /\ (Works(s) => Works(x))
    BY <2>10, <2>11
  <2>. HIDE DEF es
  <2>. QED BY <1>6, <2>1, <2>8, <2>9, <2>12, <2>13, <2>14, <2>15
<1>13. CASE TakeDiagnostics(i)
  <2>1. s.stage = "running" /\ s.stage # "over" /\ s.inbox # <<>> /\ h.t = "publish"
    BY <1>7, <1>13 DEF TakeDiagnostics
  <2>2. /\ r.inbox = Tail(s.inbox) /\ r.gen = s.gen /\ r.stage = s.stage /\ r.tr = s.tr
        /\ r.proc = s.proc /\ r.lost = s.lost /\ IsWork(h) /\ s.gen \in Nat
        /\ ToSet(s.inbox) = {h} \cup t /\ (\A w : Leads(s, w) => WorkPast(w, h))
        /\ (i = current => Proper(h, s.gen))
    BY <1>3, <2>1
  <2>. DEFINE e == h.event
              es == <<e>>
  <2>3. Becomes(i, r) /\ Emit(i, es)
    <3>1. Emit(i, <<Head(sessions[i].inbox).event>>) /\ Becomes(i, Rest(i))
      BY <1>13 DEF TakeDiagnostics
    <3>2. e = Head(sessions[i].inbox).event /\ r = Rest(i)
      BY DEF r, h, s
    <3>. HIDE DEF e
    <3>. QED BY <3>1, <3>2
  <2>4. IsEvent(e) /\ \A w : Leads(s, w) => EventPast(w, e)
    BY <2>1, <2>2 DEF IsWork, WorkPast
  <2>5. i = current => ~Sets(e)
    BY <2>1, <2>2 DEF Proper, Sets
  <2>. HIDE DEF e
  <2>6. Tells(s, es)
    BY <2>4, FewEvents
  <2>7. i = current => \A k \in 1..Len(es) : ~Sets(es[k])
    BY <2>5
  <2>. HIDE DEF es
  <2>8. ASSUME i = current PROVE Orderly(r)
    <3>1. QueuesRequests(r)
      BY <1>4, <2>1, <2>2, <2>8 DEF Orderly, QueuesRequests
    <3>. QED BY <1>1, <1>4, <2>1, <2>2, <2>8, <3>1, TakenOrderly DEF h
  <2>9. ASSUME i = current, E \subseteq ToSet(events')
        PROVE  Serves(r, Unread(r), ToSet(events'), ed)
    <3>1. Serves(s, Unread(s), E, ed)
      BY <1>4, <2>1, <2>9
    <3>2. Unread(s) = Unread(r) \cup {h}
      BY <2>2 DEF Unread, t
    <3>. DEFINE Q == Unread(r)
                D == ToSet(events')
    <3>3. Serves(s, Q \cup {h}, E, ed) /\ E \subseteq D
      BY <2>9, <3>1, <3>2
    <3>. HIDE DEF Q, D
    <3>4. Serves(r, Q, D, ed)
      BY <2>1, <2>2, <3>3, ServesLess
    <3>. QED BY <3>4 DEF Q, D
  <2>10. Works(s) => Works(r)
    <3>1. ~Report(h, s.gen)
      BY <2>1 DEF Report
    <3>. QED BY <1>20, <2>1, <2>2, <3>1
  <2>. QED BY <1>6, <2>1, <2>2, <2>3, <2>6, <2>7, <2>8, <2>9, <2>10
<1>14. CASE TakeProgress(i)
  <2>1. /\ s.stage = "running" /\ s.stage # "over" /\ s.inbox # <<>> /\ h.t = "progress"
        /\ h.gen = s.gen
    BY <1>7, <1>14 DEF TakeProgress, h, s
  <2>. DEFINE x == [r EXCEPT !.tr.progress = ProgressOf(s, h)]
              es == ProgressEvents(s, h)
  <2>2. /\ r.inbox = Tail(s.inbox) /\ r.gen = s.gen /\ r.stage = s.stage /\ r.tr = s.tr
        /\ r.proc = s.proc /\ r.lost = s.lost /\ s.gen \in Nat /\ DOMAIN r = DOMAIN s
        /\ ToSet(s.inbox) = {h} \cup t
    BY <1>3, <2>1
  <2>3. Becomes(i, x) /\ Emit(i, es)
    BY <1>14 DEF TakeProgress, s, r, h
  <2>4. /\ x.inbox = Tail(s.inbox) /\ x.gen = s.gen /\ x.stage = s.stage /\ x.proc = s.proc
        /\ x.tr.queued = s.tr.queued /\ x.tr.progress = ProgressOf(s, h)
        /\ x.tr.pending = s.tr.pending /\ x.tr.cancelled = s.tr.cancelled /\ x.lost = s.lost
    BY <1>2, <2>2
  <2>. HIDE DEF x
  <2>5. /\ \/ es = <<>> /\ h.end /\ h.token # "nameless" /\ x.tr.progress # {}
           \/ es = <<Load("Indexing")>> /\ (~h.end \/ h.token = "nameless")
           \/ es = <<Load("Ready")>>
    BY <2>4 DEF ProgressEvents
  <2>6. Tells(s, <<>>) /\ \A l : Tells(s, <<Load(l)>>)
    BY FewEvents
  <2>7. \A l, V : (l = "Indexing" => V) => Ends(<<Load(l)>>, V)
    BY FewSets
  <2>. HIDE DEF es
  <2>8. Tells(s, es)
    BY <2>5, <2>6
  <2>10. ASSUME i = current PROVE Orderly(x)
    <3>1. QueuesRequests(x)
      BY <1>4, <2>1, <2>4, <2>10 DEF Orderly, QueuesRequests
    <3>. QED BY <1>1, <1>4, <2>1, <2>4, <2>10, <3>1, TakenOrderly DEF h
  <2>13. ASSUME i = current, h.end => h.token = "nameless" \/ x.tr.progress # {} PROVE Works(x)
    <3>. DEFINE q == s.inbox
                z == x.inbox
                g == s.gen
    <3>1. /\ \A b : Tracks(s, b) /\ Tracks(x, b)
          /\ x.stage = "running" /\ x.gen = g /\ x.proc = s.proc
      BY <1>4, <2>1, <2>4, <2>10, <2>13 DEF Orderly, TracksAll
    <3>2. /\ List(q) /\ q # <<>> /\ z = Tail(q)
          /\ List(z) /\ h = q[1] /\ 1 \in 1..Len(q)
          /\ \A j \in 1..Len(q) : j # 1 => j - 1 \in 1..Len(z) /\ z[j - 1] = q[j]
      BY <1>2, <2>1, <2>4, TailIs DEF h
    <3>3. \A b : /\ b \in x.tr.progress => b \in x.proc.working \/ \E k \in 1..Len(z) : News(z[k], g, b)
                 /\ News(q[1], g, b) /\ ~q[1].end
                      /\ (\A j \in 1..Len(q) : j > 1 => ~News(q[j], g, b)) => b \in s.proc.working
                 /\ NamelessEnd(q[1], g)
                      /\ (\A j \in 1..Len(q) : j > 1 => ~Report(q[j], g)) => s.proc.untold
      BY <3>1, <3>2 DEF Tracks, EndIsTold
    <3>. HIDE DEF q, z, g
    <3>4. \A k \in 1..Len(z) : z[k] \in ToSet(z)
      BY <3>2, MembersFacts
    <3>5. ASSUME NEW w \in ToSet(z), Report(w, g) PROVE Works(x)
      BY <3>1, <3>5 DEF Works, z
    <3>6. ASSUME NEW j \in 1..Len(q), j > 1, Report(q[j], g) PROVE Works(x)
      <4>1. j - 1 \in 1..Len(z) /\ z[j - 1] = q[j]
        BY <3>2, <3>6
      <4>. QED BY <3>4, <3>5, <3>6, <4>1
    <3>7. Report(q[1], g)
      BY <2>1, <3>2 DEF Report, g
    <3>8. ASSUME ~h.end PROVE Works(x)
      <4>. DEFINE b == h.token
      <4>1. News(q[1], g, b) /\ ~q[1].end
        BY <3>2, <3>7, <3>8 DEF News
      <4>2. CASE \E j \in 1..Len(q) : j > 1 /\ News(q[j], g, b)
        BY <3>6, <4>2 DEF News
      <4>3. CASE \A j \in 1..Len(q) : j > 1 => ~News(q[j], g, b)
        BY <3>1, <3>3, <4>1, <4>3 DEF Works
      <4>. QED BY <4>2, <4>3
    <3>9. ASSUME h.end, h.token = "nameless" PROVE Works(x)
      <4>1. NamelessEnd(q[1], g)
        BY <3>2, <3>7, <3>9 DEF NamelessEnd
      <4>2. CASE \E j \in 1..Len(q) : j > 1 /\ Report(q[j], g)
        BY <3>6, <4>2
      <4>3. CASE \A j \in 1..Len(q) : j > 1 => ~Report(q[j], g)
        BY <3>1, <3>3, <4>1, <4>3 DEF Works
      <4>. QED BY <4>2, <4>3
    <3>10. ASSUME NEW b \in x.tr.progress PROVE Works(x)
      <4>1. CASE b \in x.proc.working
        BY <3>1, <4>1 DEF Works
      <4>2. CASE \E k \in 1..Len(z) : News(z[k], g, b)
        BY <3>4, <3>5, <4>2 DEF News
      <4>. QED BY <3>3, <3>10, <4>1, <4>2
    <3>. QED BY <2>13, <3>8, <3>9, <3>10
  <2>9. ASSUME i = current
        PROVE  Ends(es, Works(x)) \/ ((\A k \in 1..Len(es) : ~Sets(es[k])) /\ (Works(s) => Works(x)))
    <3>. DEFINE W == Works(x)
    <3>4. (es = <<>> /\ W) \/ (es = <<Load("Indexing")>> /\ W) \/ es = <<Load("Ready")>>
      <4>. HIDE DEF W
      <4>1. (h.end => h.token = "nameless" \/ x.tr.progress # {}) => W
        BY <2>9, <2>13 DEF W
      <4>. QED BY <2>5, <4>1
    <3>1. CASE es = <<>> /\ W
      <4>1. Len(<<>>) = 0
        OBVIOUS
      <4>. QED BY <3>1, <4>1
    <3>2. CASE es = <<Load("Indexing")>> /\ W
      <4>. HIDE DEF W
      <4>1. Ends(es, W)
        BY <2>7, <3>2
      <4>. QED BY <4>1 DEF W
    <3>3. CASE es = <<Load("Ready")>>
      <4>. HIDE DEF W
      <4>1. Ends(es, W)
        BY <2>7, <3>3
      <4>. QED BY <4>1 DEF W
    <3>. QED BY <3>1, <3>2, <3>3, <3>4
  <2>11. ASSUME i = current, E \subseteq ToSet(events')
         PROVE  Serves(x, Unread(x), ToSet(events'), ed)
    <3>1. Serves(s, Unread(s), E, ed)
      BY <1>4, <2>1, <2>11
    <3>2. Unread(s) = Unread(x) \cup {h}
      BY <2>2, <2>4 DEF Unread, t
    <3>. DEFINE Q == Unread(x)
                D == ToSet(events')
    <3>3. Serves(s, Q \cup {h}, E, ed) /\ E \subseteq D
      BY <2>11, <3>1, <3>2
    <3>. HIDE DEF Q, D
    <3>4. Serves(x, Q, D, ed)
      BY <2>1, <2>4, <3>3, ServesLess
    <3>. QED BY <3>4 DEF Q, D
  <2>12. Becomes(i, x) /\ Emit(i, es) /\ x.gen \in Nat
    BY <2>2, <2>3, <2>4 DEF x, es
  <2>. QED BY <1>6, <2>1, <2>8, <2>9, <2>10, <2>11, <2>12
<1>15. CASE TakeStale(i)
  <2>1. /\ s.stage = "running" /\ s.stage # "over" /\ s.inbox # <<>> /\ h.gen # s.gen
        /\ h.t \in {"initialized", "response", "publish", "progress", "gone"}
    BY <1>7, <1>15 DEF TakeStale, h, s
  <2>2. /\ r.inbox = Tail(s.inbox) /\ r.gen = s.gen /\ r.stage = s.stage /\ r.tr = s.tr
        /\ r.proc = s.proc /\ r.lost = s.lost /\ s.gen \in Nat /\ ToSet(s.inbox) = {h} \cup t
    BY <1>3, <2>1
  <2>3. Becomes(i, r) /\ UNCHANGED events
    BY <1>15 DEF TakeStale, r
  <2>4. ASSUME i = current PROVE Orderly(r)
    <3>1. QueuesRequests(r)
      BY <1>4, <2>1, <2>2, <2>4 DEF Orderly, QueuesRequests
    <3>. QED BY <1>1, <1>4, <2>1, <2>2, <2>4, <3>1, TakenOrderly DEF h
  <2>5. ASSUME i = current PROVE Serves(r, Unread(r), E, ed)
    <3>1. Serves(s, Unread(s), E, ed)
      BY <1>4, <2>1, <2>5
    <3>. DEFINE Q == Unread(r)
    <3>2. Unread(s) = Q \cup {h}
      BY <2>2 DEF Unread, t
    <3>3. Serves(s, Q \cup {h}, E, ed)
      BY <3>1, <3>2
    <3>. HIDE DEF Q
    <3>4. Serves(r, Q, E, ed)
      BY <2>1, <2>2, <3>3, ServesLess
    <3>. QED BY <3>4 DEF Q
  <2>6. Works(s) => Works(r)
    <3>1. ~Report(h, s.gen)
      BY <2>1 DEF Report
    <3>. QED BY <1>20, <2>1, <2>2, <3>1
  <2>. QED BY <1>5, <2>1, <2>2, <2>3, <2>4, <2>5, <2>6
<1>16. CASE TakeGone(i)
  <2>1. s.stage = "running" /\ s.stage # "over" /\ s.inbox # <<>> /\ h.t = "gone"
    BY <1>7, <1>16 DEF TakeGone
  <2>. DEFINE x == [r EXCEPT !.stage = "backoff"]
              es == <<Load("Stale")>>
  <2>2. /\ r.inbox = Tail(s.inbox) /\ r.gen = s.gen /\ r.tr = s.tr
        /\ r.proc = s.proc /\ r.lost = s.lost /\ s.gen \in Nat /\ DOMAIN r = DOMAIN s
        /\ ToSet(s.inbox) = {h} \cup t
    BY <1>3, <2>1
  <2>3. Becomes(i, x) /\ Emit(i, es) /\ Tells(s, es)
    BY <1>16, FewEvents DEF TakeGone, r
  <2>4. \A V : Ends(es, V)
    BY FewSets
  <2>5. /\ x.inbox = Tail(s.inbox) /\ x.gen = s.gen /\ x.stage = "backoff"
        /\ x.tr = s.tr /\ x.proc = s.proc /\ x.lost = s.lost
    BY <1>2, <2>2
  <2>. HIDE DEF x, es
  <2>6. ASSUME i = current PROVE Orderly(x)
    <3>1. QueuesRequests(x)
      BY <1>4, <2>1, <2>5, <2>6 DEF Orderly, QueuesRequests
    <3>. QED BY <1>1, <1>4, <2>1, <2>5, <2>6, <3>1, TakenOrderly DEF h
  <2>7. ASSUME E \subseteq ToSet(events'), i = current
        PROVE  Serves(x, Unread(x), ToSet(events'), ed)
    <3>1. Serves(s, Unread(s), E, ed)
      BY <1>4, <2>1, <2>7
    <3>. DEFINE Q == Unread(x)
                D == ToSet(events')
    <3>2. Unread(s) = Q \cup {h}
      BY <2>2, <2>5 DEF Unread, t
    <3>3. Serves(s, Q \cup {h}, E, ed) /\ E \subseteq D
      BY <2>7, <3>1, <3>2
    <3>. HIDE DEF Q, D
    <3>4. Serves(x, Q, D, ed)
      BY <2>1, <2>5, <3>3, ServesLess
    <3>. QED BY <3>4 DEF Q, D
  <2>. QED BY <1>6, <2>1, <2>2, <2>3, <2>4, <2>5, <2>6, <2>7
<1>17. CASE TakeShutdown(i)
  <2>1. s.stage = "running" /\ s.stage # "over" /\ s.inbox # <<>> /\ h.t = "shutdown"
    BY <1>7, <1>17 DEF TakeShutdown
  <2>. DEFINE x == [r EXCEPT !.stage = "over", !.proc.alive = FALSE, !.inbox = <<>>]
  <2>2. r.gen = s.gen /\ s.gen \in Nat /\ DOMAIN r = DOMAIN s /\ (i = current => Proper(h, s.gen))
    BY <1>3, <2>1
  <2>3. Becomes(i, x) /\ UNCHANGED events
    BY <1>17 DEF TakeShutdown, r
  <2>4. i # current
    BY <2>1, <2>2 DEF Proper
  <2>5. x.gen = s.gen
    BY <1>2, <2>2
  <2>. HIDE DEF x
  <2>. QED BY <1>5, <2>1, <2>2, <2>3, <2>4, <2>5
<1>18. CASE Relaunch(i)
  <2>1. s.stage = "backoff" /\ s.stage # "over"
    BY <1>18 DEF Relaunch, s
  <2>2. CASE /\ Becomes(i, [s EXCEPT !.gen = @ + 1, !.stage = "running",
                                    !.tr = NewTranslator, !.proc = NewProcess,
                                    !.lost = @ \cup s.tr.pending \cup AskedIn(s.tr.queued)])
             /\ Emit(i, <<Load("Starting")>>)
    <3>. DEFINE x == [s EXCEPT !.gen = @ + 1, !.stage = "running",
                               !.tr = NewTranslator, !.proc = NewProcess,
                               !.lost = @ \cup s.tr.pending \cup AskedIn(s.tr.queued)]
                es == <<Load("Starting")>>
    <3>1. Becomes(i, x) /\ Emit(i, es) /\ Tells(s, es)
      BY <2>2, FewEvents
    <3>2. \A V : Ends(es, V)
      BY FewSets
    <3>3. /\ x.gen = s.gen + 1 /\ x.tr = NewTranslator
          /\ x.proc = NewProcess /\ x.inbox = s.inbox /\ s.gen \in Nat
          /\ x.lost = s.lost \cup s.tr.pending \cup AskedIn(s.tr.queued)
      BY <1>2, <1>8, <2>1
    <3>. HIDE DEF x, es
    <3>4. x.gen \in Nat /\ x.gen # 0
      BY <3>3
    <3>5. /\ x.tr.queued = <<>> /\ x.tr.progress = {} /\ x.proc.alive = TRUE
          /\ x.tr.cancelled = {} /\ x.proc.owes = {}
      BY <3>3 DEF NewTranslator, NewProcess
    <3>6. ASSUME i = current PROVE Orderly(x)
      <4>1. ProperInbox(s)
        BY <1>4, <2>1, <3>6 DEF Orderly
      <4>2. ASSUME NEW w, Proper(w, s.gen) PROVE Proper(w, x.gen) /\ (w.t = "progress" => w.gen # x.gen)
        <5>1. \A g \in 0..s.gen : g \in 0..x.gen /\ g # x.gen
          BY <3>3
        <5>. QED BY <4>2, <5>1 DEF Proper
      <4>3. ProperInbox(x)
        BY <3>3, <4>1, <4>2 DEF ProperInbox
      <4>4. ASSUME NEW k \in 1..Len(x.inbox), NEW b
            PROVE  ~News(x.inbox[k], x.gen, b) /\ ~NamelessEnd(x.inbox[k], x.gen)
        <5>1. x.inbox[k] \in ToSet(s.inbox)
          <6>. DEFINE q == s.inbox
          <6>1. List(q) /\ k \in 1..Len(q) /\ x.inbox[k] = q[k]
            BY <1>2, <3>3, <4>4
          <6>. HIDE DEF q
          <6>2. q[k] \in ToSet(q)
            BY <6>1, MembersFacts
          <6>. QED BY <6>1, <6>2 DEF q
        <5>. QED BY <4>1, <4>2, <5>1 DEF ProperInbox, News, NamelessEnd, Report
      <4>5. TracksAll(x)
        BY <3>5, <4>4 DEF TracksAll, Tracks, EndIsTold
      <4>6. QueuesRequests(x) /\ EndIsKnown(x)
        BY <3>5 DEF QueuesRequests, EndIsKnown, ToSet
      <4>. QED BY <4>3, <4>5, <4>6 DEF Orderly
    <3>7. ASSUME E \subseteq ToSet(events'), i = current
          PROVE  Serves(x, Unread(x), ToSet(events'), ed)
      <4>. DEFINE D == ToSet(events')
                  Q == ToSet(s.inbox)
                  U == ToSet(s.tr.queued)
      <4>1. Bounded(s, U \cup Q, ed.nextId)
            /\ \A k \in Kinds : Waits(ed, s, k) => Live(s, U \cup Q, E, k, ed.active[k])
        BY <1>4, <2>1, <3>7 DEF Serves, Unread
      <4>2. Unread(x) = Q
        BY <3>3, <3>5 DEF Unread, ToSet
      <4>3. E \subseteq D
        BY <3>7
      <4>4. \A w \in U : w.t = "ask" => w.id \in x.lost
        BY <3>3 DEF AskedIn
      <4>. HIDE DEF D, Q, U
      <4>5. Bounded(x, Q, ed.nextId)
        BY <3>5, <4>1 DEF Bounded
      <4>6. ASSUME NEW k \in Kinds, Waits(ed, x, k) PROVE Live(x, Q, D, k, ed.active[k])
        <5>1. /\ Waits(ed, s, k) /\ ed.active[k] \notin s.tr.pending
              /\ \A w \in U : w.t = "ask" => w.id # ed.active[k]
          BY <3>3, <4>4, <4>6 DEF Waits
        <5>2. Live(s, U \cup Q, E, k, ed.active[k])
          BY <4>1, <5>1
        <5>. QED BY <3>5, <4>3, <5>1, <5>2 DEF Live
      <4>7. Serves(x, Q, D, ed)
        BY <4>5, <4>6 DEF Serves
      <4>. QED BY <4>2, <4>7 DEF D
    <3>. QED BY <1>6, <2>1, <3>1, <3>2, <3>4, <3>6, <3>7
  <2>3. CASE /\ Becomes(i, [s EXCEPT !.stage = "over", !.inbox = <<>>])
             /\ Emit(i, <<FailedEvent(0)>>)
    <3>. DEFINE x == [s EXCEPT !.stage = "over", !.inbox = <<>>]
                es == <<FailedEvent(0)>>
    <3>1. x.gen = s.gen /\ x.stage = "over"
      BY <1>2
    <3>2. Becomes(i, x) /\ Emit(i, es) /\ Tells(s, es)
      BY <2>3, FewEvents
    <3>3. \A V : Ends(es, V)
      BY FewSets
    <3>. HIDE DEF es, x
    <3>. QED BY <1>6, <1>8, <1>9, <2>1, <3>1, <3>2, <3>3
  <2>. QED BY <1>18, <2>2, <2>3 DEF Relaunch, s
<1>19. CASE GiveUp(i)
  <2>1. s.stage = "backoff" /\ s.stage # "over"
    BY <1>19 DEF GiveUp, s
  <2>. DEFINE x == [s EXCEPT !.stage = "over", !.inbox = <<>>]
              es == <<Load("Unavailable")>>
  <2>2. x.gen = s.gen /\ x.stage = "over"
    BY <1>2
  <2>3. Becomes(i, x) /\ Emit(i, es) /\ Tells(s, es)
    BY <1>19, FewEvents DEF GiveUp, s
  <2>4. \A V : Ends(es, V)
    BY FewSets
  <2>. HIDE DEF es, x
  <2>. QED BY <1>6, <1>8, <1>9, <2>1, <2>2, <2>3, <2>4
<1>. QED
  BY <1>10, <1>11, <1>12, <1>13, <1>14, <1>15, <1>16, <1>17, <1>18, <1>19 DEF Supervisor

\* The process sends a message: an answer of a request that it owed, or one that no one waits
\* for. What it says of its work and of its end is true.
LEMMA SendsWaits ==
  ASSUME LspInv, WaitInv, NEW i \in 1..MaxSessions, NEW b, NEW p, Sends(i, b, p),
         sessions[i].gen \in Nat => Proper(b, sessions[i].gen),
         p.alive \/ (b.t = "gone" /\ b.gen = sessions[i].gen),
         \A t : News(b, sessions[i].gen, t) /\ ~b.end => t \in p.working,
         \A t : News(b, sessions[i].gen, t) \/ (t \in sessions[i].proc.working => t \in p.working),
         NamelessEnd(b, sessions[i].gen) => p.untold,
         Report(b, sessions[i].gen) \/ (sessions[i].proc.untold => p.untold),
         \/ ~p.alive /\ b.t \notin {"ask", "cancel", "response"} /\ p.owes = {}
         \/ b.t \notin {"ask", "cancel", "response"} /\ p.owes = sessions[i].proc.owes
         \/ /\ b.t = "response" /\ b.gen = sessions[i].gen
            /\ \E r \in sessions[i].proc.owes : /\ b.id = r.id /\ p.owes = sessions[i].proc.owes \ {r}
                                                /\ b.ok => b.event.kind = r.kind
  PROVE  WaitInv'
<1>. DEFINE s == sessions[i]
            x == [s EXCEPT !.inbox = Append(@, b), !.proc = p]
            E == ToSet(events)
<1>1. IsSession(s) /\ i \in DOMAIN sessions
  BY DEF LspInv, Core, AreSessions
<1>2. /\ sessions' = [sessions EXCEPT ![i] = x] /\ ed' = ed /\ current' = current
      /\ events' = events /\ s.proc.alive /\ s.stage # "over"
  BY <1>1 DEF Sends
<1>3. /\ x.inbox = Append(s.inbox, b) /\ x.gen = s.gen /\ x.stage = s.stage /\ x.tr = s.tr
      /\ x.proc = p /\ x.lost = s.lost /\ List(s.inbox)
  BY <1>1 DEF IsSession
<1>4. s.gen \in Nat
  BY <1>1, <1>2, RunningFacts
<1>5. i = current => /\ Orderly(s)
                     /\ Serves(s, Unread(s), E, ed)
                     /\ i = 1 => Loads(events, ed.load, Works(s))
  <2>1. i = current => /\ Orderly(s)
                       /\ Serves(s, Unread(s), E, ed)
    BY <1>2 DEF WaitInv, Supervised
  <2>2. i = current /\ i = 1 => Loads(events, ed.load, Works(sessions[1]))
    BY DEF WaitInv
  <2>. QED BY <2>1, <2>2, Zenon
<1>6. /\ Proper(b, s.gen) /\ (p.alive \/ (b.t = "gone" /\ b.gen = s.gen))
      /\ \A t : News(b, s.gen, t) /\ ~b.end => t \in p.working
      /\ \A t : News(b, s.gen, t) \/ (t \in s.proc.working => t \in p.working)
      /\ NamelessEnd(b, s.gen) => p.untold
      /\ Report(b, s.gen) \/ (s.proc.untold => p.untold)
  BY <1>4
<1>7. \/ ~p.alive /\ b.t \notin {"ask", "cancel", "response"} /\ p.owes = {}
      \/ b.t \notin {"ask", "cancel", "response"} /\ p.owes = s.proc.owes
      \/ /\ b.t = "response" /\ b.gen = s.gen
         /\ \E r \in s.proc.owes : /\ b.id = r.id /\ p.owes = s.proc.owes \ {r}
                                   /\ b.ok => b.event.kind = r.kind
  OBVIOUS
<1>. HIDE DEF x, s
<1>8. ToSet(x.inbox) = ToSet(s.inbox) \cup {b}
  BY <1>3, MembersFacts
<1>9. ASSUME i = current PROVE Orderly(x)
  <2>1. QueuesRequests(s) /\ ProperInbox(s) /\ TracksAll(s)
    BY <1>2, <1>5, <1>9 DEF Orderly
  <2>2. QueuesRequests(x)
    BY <1>3, <2>1 DEF QueuesRequests
  <2>3. ProperInbox(x)
    BY <1>3, <1>6, <1>8, <2>1 DEF ProperInbox
  <2>4. EndIsKnown(x)
    BY <1>3, <1>6, <1>8 DEF EndIsKnown
  <2>5. ASSUME NEW t PROVE Tracks(x, t)
    <3>1. Tracks(s, t)
      BY <2>1 DEF TracksAll
    <3>2. /\ News(b, s.gen, t) /\ ~b.end => t \in x.proc.working
          /\ News(b, s.gen, t) \/ (t \in s.proc.working => t \in x.proc.working)
          /\ NamelessEnd(b, s.gen) => x.proc.untold
          /\ Report(b, s.gen) \/ (s.proc.untold => x.proc.untold)
      BY <1>3, <1>6
    <3>. QED BY <1>3, <3>1, <3>2, TracksMore
  <2>6. TracksAll(x)
    BY <2>5 DEF TracksAll
  <2>. QED BY <2>2, <2>3, <2>4, <2>6 DEF Orderly
<1>10. ASSUME i = current
       PROVE  Serves(x, Unread(x), ToSet(events'), ed)
  <2>. DEFINE Q == Unread(s)
              R == Unread(x)
  <2>1. Serves(s, Q, E, ed)
    BY <1>3, <1>5, <1>10
  <2>2. R = Q \cup {b}
    BY <1>3, <1>8 DEF Unread
  <2>3. /\ x.tr = s.tr /\ x.proc = p /\ ToSet(events') = E /\ s.proc.alive
        /\ x.gen = s.gen /\ x.lost = s.lost
    BY <1>2, <1>3
  <2>. HIDE DEF Q, R, E
  <2>4. CASE b.t \notin {"ask", "cancel", "response"} /\ p.owes = s.proc.owes
    <3>1. Bounded(x, R, ed.nextId)
      BY <2>1, <2>2, <2>3, <2>4 DEF Serves, Bounded
    <3>2. ASSUME NEW k \in Kinds, Waits(ed, x, k) PROVE Live(x, R, E, k, ed.active[k])
      <4>1. Live(s, Q, E, k, ed.active[k])
        BY <2>1, <2>3, <3>2 DEF Serves, Waits
      <4>. QED BY <2>2, <2>3, <2>4, <4>1 DEF Live
    <3>3. Serves(x, R, E, ed)
      BY <3>1, <3>2 DEF Serves
    <3>. QED BY <2>3, <3>3 DEF R
  <2>6. CASE ~p.alive /\ b.t \notin {"ask", "cancel", "response"} /\ p.owes = {}
    <3>1. Bounded(x, R, ed.nextId)
      BY <2>1, <2>2, <2>3, <2>6 DEF Serves, Bounded
    <3>2. ASSUME NEW k \in Kinds, Waits(ed, x, k) PROVE Live(x, R, E, k, ed.active[k])
      <4>1. Live(s, Q, E, k, ed.active[k])
        BY <2>1, <2>3, <3>2 DEF Serves, Waits
      <4>. QED BY <2>2, <2>3, <2>6, <4>1 DEF Live
    <3>3. Serves(x, R, E, ed)
      BY <3>1, <3>2 DEF Serves
    <3>. QED BY <2>3, <3>3 DEF R
  <2>5. ASSUME NEW r \in s.proc.owes, b.t = "response", b.gen = s.gen, b.id = r.id,
               p.owes = s.proc.owes \ {r}, b.ok => b.event.kind = r.kind
        PROVE  Serves(x, Unread(x), ToSet(events'), ed)
    <3>1. Bounded(x, R, ed.nextId)
      BY <2>1, <2>2, <2>3, <2>5 DEF Serves, Bounded
    <3>2. ASSUME NEW k \in Kinds, Waits(ed, x, k) PROVE Live(x, R, E, k, ed.active[k])
      <4>. DEFINE id == ed.active[k]
      <4>1. Live(s, Q, E, k, id)
        BY <2>1, <2>3, <3>2 DEF Serves, Waits
      <4>. HIDE DEF id
      <4>2. /\ id \notin x.tr.cancelled
            /\ \A w \in Q : /\ w.t = "cancel" => w.id # id
                            /\ w.t = "ask" => (w.id = id => w.kind = k)
                            /\ w.t = "response" /\ w.ok => (w.id = id => w.event.kind = k)
            /\ \A w \in s.proc.owes : w.id = id => w.kind = k
        BY <2>3, <4>1 DEF Live
      <4>. DEFINE ways(C) == \E w \in C : w.t = "ask" /\ w.id = id
                  held(C, y) == /\ id \in y.tr.pending
                                /\ \/ ~y.proc.alive
                                   \/ \E w \in C : w.t = "response" /\ w.id = id /\ w.gen = y.gen
                                   \/ \E w \in y.proc.owes : w.id = id
                  came == \E e \in E : \/ e.t = "failed" /\ e.id = id
                                       \/ e.t = "answer" /\ e.id = id /\ e.kind = k
      <4>3. ways(Q) \/ held(Q, s) \/ came
        BY <4>1 DEF Live
      <4>4. (ways(Q) => ways(R)) /\ (held(Q, s) => held(R, x))
        BY <2>2, <2>3, <2>5
      <4>5. ways(R) \/ held(R, x) \/ came
        <5>. HIDE DEF ways, held, came
        <5>. QED BY <4>3, <4>4
      <4>6. \A w \in R : /\ w.t = "cancel" => w.id # id
                         /\ w.t = "ask" => (w.id = id => w.kind = k)
                         /\ w.t = "response" /\ w.ok => (w.id = id => w.event.kind = k)
        <5>1. ASSUME NEW w \in R, w \notin Q
              PROVE  w.t = "response" /\ (w.ok => (w.id = id => w.event.kind = k))
          <6>1. w = b
            BY <2>2, <5>1
          <6>2. b.id = id => r.kind = k
            BY <2>5, <4>2
          <6>. QED BY <2>5, <6>1, <6>2
        <5>. QED BY <4>2, <5>1
      <4>7. \A w \in x.proc.owes : w.id = id => w.kind = k
        BY <2>3, <2>5, <4>2
      <4>8. Live(x, R, E, k, id)
        BY <4>2, <4>5, <4>6, <4>7 DEF Live
      <4>. QED BY <4>8 DEF id
    <3>3. Serves(x, R, E, ed)
      BY <3>1, <3>2 DEF Serves
    <3>. QED BY <2>3, <3>3 DEF R
  <2>. QED BY <1>7, <2>3, <2>4, <2>5, <2>6
<1>11. ASSUME i = 1, current = 1 PROVE Loads(events', ed.load, Works(x))
  <2>. DEFINE V == Works(s)
              W == Works(x)
  <2>1. V => W
    <3>1. CASE Report(b, s.gen)
      BY <1>3, <1>8, <3>1 DEF Works
    <3>2. CASE ~Report(b, s.gen)
      <4>1. s.proc.working \subseteq p.working /\ (s.proc.untold => p.untold)
        BY <1>6, <3>2 DEF News
      <4>. QED BY <1>3, <1>8, <4>1 DEF Works
    <3>. QED BY <3>1, <3>2
  <2>2. Loads(events, ed.load, V)
    BY <1>5, <1>11
  <2>. HIDE DEF V, W
  <2>3. Loads(events, ed.load, W)
    BY <2>1, <2>2 DEF Loads
  <2>. QED BY <1>2, <2>3 DEF W
<1>12. x.gen \in Nat /\ ToSet(events) \subseteq ToSet(events') /\ sessions[i].stage # "over"
  BY <1>2, <1>3, <1>4 DEF s
<1>. QED BY <1>2, <1>9, <1>10, <1>11, <1>12, StepWaits

\* A step of the process, which the code takes as it comes.
LEMMA ServerWaits ==
  ASSUME LspInv, WaitInv, NEW i \in 1..MaxSessions, Server(i)
  PROVE  WaitInv'
<1>. DEFINE s == sessions[i]
            g == s.proc
<1>1. ProcFields \subseteq DOMAIN g
  BY DEF LspInv, Core, AreSessions, IsSession
<1>2. ASSUME NEW b, NEW p, Sends(i, b, p), s.gen \in Nat => Proper(b, s.gen),
             p.alive \/ (b.t = "gone" /\ b.gen = s.gen),
             \A t : News(b, s.gen, t) /\ ~b.end => t \in p.working,
             \A t : News(b, s.gen, t) \/ (t \in g.working => t \in p.working),
             NamelessEnd(b, s.gen) => p.untold,
             Report(b, s.gen) \/ (g.untold => p.untold),
             \/ ~p.alive /\ b.t \notin {"ask", "cancel", "response"} /\ p.owes = {}
             \/ b.t \notin {"ask", "cancel", "response"} /\ p.owes = g.owes
             \/ /\ b.t = "response" /\ b.gen = s.gen
                /\ \E r \in g.owes : /\ b.id = r.id /\ p.owes = g.owes \ {r}
                                     /\ b.ok => b.event.kind = r.kind
      PROVE  WaitInv'
  BY <1>2, SendsWaits
<1>8. \A b, p : Sends(i, b, p) => g.alive
  BY DEF Sends
<1>. HIDE DEF g, s
<1>9. s.gen \in Nat => s.gen \in 0..s.gen
  OBVIOUS
<1>3. CASE Initializes(i)
  <2>1. PICK ok \in BOOLEAN : Sends(i, [t |-> "initialized", gen |-> s.gen, ok |-> ok],
                                    [g EXCEPT !.hello = TRUE])
    BY <1>3 DEF Initializes, g, s
  <2>. DEFINE b == [t |-> "initialized", gen |-> s.gen, ok |-> ok]
              p == [g EXCEPT !.hello = TRUE]
  <2>2. b.t = "initialized" /\ b.gen = s.gen
    OBVIOUS
  <2>3. /\ p.alive = g.alive /\ p.owes = g.owes /\ p.working = g.working
        /\ p.untold = g.untold
    BY <1>1 DEF ProcFields
  <2>4. Sends(i, b, p)
    BY <2>1
  <2>. HIDE DEF b, p
  <2>5. ~NamelessEnd(b, s.gen) /\ \A t : ~News(b, s.gen, t)
    BY <2>2 DEF News, NamelessEnd, Report
  <2>6. s.gen \in Nat => Proper(b, s.gen)
    BY <1>9, <2>2 DEF Proper
  <2>. QED BY <1>2, <1>8, <2>2, <2>3, <2>4, <2>5, <2>6
<1>4. CASE Responds(i)
  <2>1. PICK r \in g.owes :
          LET p == [g EXCEPT !.owes = @ \ {r}] IN
          \/ \E a \in AnswersTo(g, r) :
               Sends(i, [t |-> "response", gen |-> s.gen, id |-> r.id, ok |-> TRUE,
                         event |-> [t |-> "answer", from |-> 0, id |-> r.id, kind |-> r.kind,
                                    changes |-> a.changes, versions |-> a.versions,
                                    base |-> g.copy]], p)
          \/ Sends(i, [t |-> "response", gen |-> s.gen, id |-> r.id, ok |-> FALSE,
                       event |-> <<>>], p)
    BY <1>4 DEF Responds, g, s
  <2>. DEFINE p == [g EXCEPT !.owes = @ \ {r}]
  <2>2. /\ p.alive = g.alive /\ p.owes = g.owes \ {r} /\ p.working = g.working
        /\ p.untold = g.untold
    BY <1>1 DEF ProcFields
  <2>3. ASSUME NEW b, Sends(i, b, p), b.t = "response", b.gen = s.gen, b.id = r.id,
               b.ok => b.event.t = "answer" /\ b.event.id = b.id /\ b.event.kind = r.kind
        PROVE  WaitInv'
    <3>. HIDE DEF p
    <3>1. ~NamelessEnd(b, s.gen) /\ \A t : ~News(b, s.gen, t)
      BY <2>3 DEF News, NamelessEnd, Report
    <3>2. s.gen \in Nat => Proper(b, s.gen)
      BY <1>9, <2>3 DEF Proper
    <3>3. \E w \in g.owes : /\ b.id = w.id /\ p.owes = g.owes \ {w}
                            /\ b.ok => b.event.kind = w.kind
      BY <2>2, <2>3
    <3>. QED BY <1>2, <1>8, <2>2, <2>3, <3>1, <3>2, <3>3
  <2>4. CASE \E a \in AnswersTo(g, r) :
               Sends(i, [t |-> "response", gen |-> s.gen, id |-> r.id, ok |-> TRUE,
                         event |-> [t |-> "answer", from |-> 0, id |-> r.id, kind |-> r.kind,
                                    changes |-> a.changes, versions |-> a.versions,
                                    base |-> g.copy]], p)
    <3>1. PICK a \in AnswersTo(g, r) :
               Sends(i, [t |-> "response", gen |-> s.gen, id |-> r.id, ok |-> TRUE,
                         event |-> [t |-> "answer", from |-> 0, id |-> r.id, kind |-> r.kind,
                                    changes |-> a.changes, versions |-> a.versions,
                                    base |-> g.copy]], p)
      BY <2>4
    <3>. DEFINE e == [t |-> "answer", from |-> 0, id |-> r.id, kind |-> r.kind,
                      changes |-> a.changes, versions |-> a.versions, base |-> g.copy]
                b == [t |-> "response", gen |-> s.gen, id |-> r.id, ok |-> TRUE, event |-> e]
    <3>2. e.t = "answer" /\ e.id = r.id /\ e.kind = r.kind
      OBVIOUS
    <3>3. b.t = "response" /\ b.gen = s.gen /\ b.id = r.id /\ b.event = e /\ Sends(i, b, p)
      BY <3>1
    <3>. HIDE DEF b, e, p
    <3>. QED BY <2>3, <3>2, <3>3 DEF p
  <2>5. CASE Sends(i, [t |-> "response", gen |-> s.gen, id |-> r.id, ok |-> FALSE, event |-> <<>>], p)
    <3>. DEFINE b == [t |-> "response", gen |-> s.gen, id |-> r.id, ok |-> FALSE, event |-> <<>>]
    <3>1. b.t = "response" /\ b.gen = s.gen /\ b.id = r.id /\ b.ok = FALSE /\ Sends(i, b, p)
      BY <2>5
    <3>. HIDE DEF b, p
    <3>. QED BY <2>3, <3>1 DEF p
  <2>. QED BY <2>1, <2>4, <2>5
<1>5. CASE Publishes(i)
  <2>1. PICK d \in Docs, versioned \in BOOLEAN :
          Sends(i, [t |-> "publish", gen |-> s.gen,
                    event |-> [t |-> "diagnostics", from |-> 0, doc |-> d,
                               version |-> IF versioned THEN g.seen[d] ELSE 0,
                               text |-> g.copy[d]]], g)
    BY <1>5 DEF Publishes, g, s
  <2>. DEFINE v == IF versioned THEN g.seen[d] ELSE 0
              b == [t |-> "publish", gen |-> s.gen,
                    event |-> [t |-> "diagnostics", from |-> 0, doc |-> d, version |-> v,
                               text |-> g.copy[d]]]
  <2>2. b.t = "publish" /\ b.gen = s.gen /\ b.event.t = "diagnostics" /\ Sends(i, b, g)
    BY <2>1
  <2>. HIDE DEF b
  <2>3. ~NamelessEnd(b, s.gen) /\ \A t : ~News(b, s.gen, t)
    BY <2>2 DEF News, NamelessEnd, Report
  <2>4. s.gen \in Nat => Proper(b, s.gen)
    BY <1>9, <2>2 DEF Proper
  <2>. QED BY <1>2, <1>8, <2>2, <2>3, <2>4
<1>6. CASE Progresses(i)
  <2>1. PICK token \in {"scan", "index"} \cup Untracked, end \in BOOLEAN :
          Sends(i, [t |-> "progress", gen |-> s.gen, token |-> token, end |-> end],
                [g EXCEPT !.working = IF end THEN @ \ {token} ELSE @ \cup {token},
                          !.untold = end /\ token = "nameless"])
    BY <1>6 DEF Progresses, g, s
  <2>. DEFINE b == [t |-> "progress", gen |-> s.gen, token |-> token, end |-> end]
              p == [g EXCEPT !.working = IF end THEN @ \ {token} ELSE @ \cup {token},
                             !.untold = end /\ token = "nameless"]
  <2>2. b.t = "progress" /\ b.gen = s.gen /\ b.token = token /\ b.end = end /\ Sends(i, b, p)
    BY <2>1
  <2>3. /\ p.alive = g.alive /\ p.owes = g.owes
        /\ p.working = IF end THEN g.working \ {token} ELSE g.working \cup {token}
        /\ end /\ token = "nameless" => p.untold
    BY <1>1 DEF ProcFields
  <2>. HIDE DEF b, p
  <2>4. Report(b, s.gen) /\ \A t : News(b, s.gen, t) <=> t = token
    BY <2>2 DEF News, Report
  <2>7. NamelessEnd(b, s.gen) => p.untold
    BY <2>2, <2>3 DEF NamelessEnd
  <2>5. /\ \A t : News(b, s.gen, t) /\ ~b.end => t \in p.working
        /\ \A t : News(b, s.gen, t) \/ (t \in g.working => t \in p.working)
    BY <2>2, <2>3, <2>4
  <2>6. s.gen \in Nat => Proper(b, s.gen)
    BY <1>9, <2>2 DEF Proper
  <2>. QED BY <1>2, <1>8, <2>2, <2>3, <2>4, <2>5, <2>6, <2>7
<1>7. CASE Dies(i)
  <2>. DEFINE b == [t |-> "gone", gen |-> s.gen]
              p == [g EXCEPT !.alive = FALSE, !.owes = {}]
  <2>1. Sends(i, b, p)
    BY <1>7 DEF Dies, g, s
  <2>2. b.t = "gone" /\ b.gen = s.gen
    OBVIOUS
  <2>3. p.alive = FALSE /\ p.owes = {} /\ p.working = g.working /\ p.untold = g.untold
    BY <1>1 DEF ProcFields
  <2>. HIDE DEF b, p
  <2>4. ~NamelessEnd(b, s.gen) /\ \A t : ~News(b, s.gen, t)
    BY <2>2 DEF News, NamelessEnd, Report
  <2>5. s.gen \in Nat => Proper(b, s.gen)
    BY <1>9, <2>2 DEF Proper
  <2>. QED BY <1>2, <2>1, <2>2, <2>3, <2>4, <2>5
<1>. QED BY <1>3, <1>4, <1>5, <1>6, <1>7 DEF Server


\* Nothing is open and nothing was started to begin with.
LEMMA InitLsp == Init => LspInv
<1>. SUFFICES ASSUME Init PROVE LspInv
  OBVIOUS
<1>1. ed = InitEd /\ sessions = [i \in 1..MaxSessions |-> NoSession] /\ current = 0 /\ events = <<>>
  BY DEF Init
<1>2. List(<<>>) /\ Len(<<>>) = 0
  <2>1. <<>> \in Seq({}) /\ Len(<<>>) = 0
    OBVIOUS
  <2>. QED BY <2>1, SequencesAreLists
<1>3. NoneStarted
  BY <1>1 DEF NoneStarted
<1>4. /\ ModelFields \subseteq DOMAIN ed /\ ed.text = [d \in Docs |-> None]
      /\ ed.pend = [d \in Docs |-> <<>>] /\ ed.open = [d \in Docs |-> 0] /\ ed.next = 0
      /\ ed.synced = [d \in Docs |-> <<>>] /\ ed.edit = None /\ ~ed.started /\ ed.out = <<>>
      /\ ed.diag = [d \in Docs |-> None]
  BY <1>1 DEF InitEd, ModelFields
<1>5. IsModel(ed)
  <2>1. ed.text \in [Docs -> Seq(Chars) \cup {None}] /\ ed.pend \in [Docs -> Seq(Changes)]
        /\ ed.synced \in [Docs -> Seq(Chars)]
    BY <1>4
  <2>2. ed.open \in [Docs -> Nat] /\ ed.next \in Nat /\ \A d \in Docs : ed.open[d] <= ed.next
    BY <1>4
  <2>3. List(ed.out) /\ \A k \in 1..Len(ed.out) : FALSE
    BY <1>2, <1>4
  <2>. QED BY <1>3, <1>4, <2>1, <2>2, <2>3 DEF IsModel
<1>6. AllSettled(ed)
  BY <1>4 DEF AllSettled, IsSettled
<1>7. AreSessions(sessions) /\ \A i \in 1..MaxSessions : sessions[i].gen \notin Nat
  <2>. DEFINE s == NoSession
  <2>1. s = [NewSession EXCEPT !.gen = -1, !.stage = "over"]
    BY DEF NoSession
  <2>2. IsSession(NewSession) /\ DOMAIN NewSession = {"inbox", "gen", "stage", "tr", "proc", "lost"}
    BY NewSessionFacts DEF NewSession
  <2>3. /\ DOMAIN s = DOMAIN NewSession /\ s.gen = -1 /\ s.inbox = NewSession.inbox
        /\ s.tr = NewSession.tr /\ s.proc = NewSession.proc
    BY <2>1, <2>2
  <2>4. s = NoSession
    OBVIOUS
  <2>. HIDE DEF s
  <2>5. IsSession(s)
    BY <2>2, <2>3, <2>4 DEF IsSession
  <2>6. s.gen \notin Nat
    BY <2>3
  <2>. QED BY <1>1, <2>4, <2>5, <2>6 DEF AreSessions
<1>8. Launched(sessions, 0) /\ Used = 0
  <2>1. 0 \in Nat /\ 0 <= MaxSessions
    BY LspBounds
  <2>2. Launched(sessions, 0)
    <3>1. \A i \in 1..MaxSessions : ~(i <= 0)
      BY LspBounds
    <3>. QED BY <1>7, <3>1 DEF Launched
  <2>. QED BY <1>7, <2>1, <2>2, UsedIs DEF Used
<1>. DEFINE h == [copy |-> [d \in Docs |-> None], seen |-> [d \in Docs |-> 0],
                  misled |-> FALSE, owes |-> {}]
<1>9. Follows(h)
  <2>1. /\ {"copy", "seen", "misled", "owes"} \subseteq DOMAIN h
        /\ h.copy = [d \in Docs |-> None] /\ h.seen = [d \in Docs |-> 0] /\ ~h.misled
    OBVIOUS
  <2>. HIDE DEF h
  <2>2. AgreeBut(ed, h, {})
    BY <1>4, <2>1 DEF AgreeBut
  <2>3. Tidings(events, h, current, Used)
    <3>1. \A k \in 1..Len(events) : FALSE
      BY <1>1, <1>2
    <3>. QED BY <1>1, <1>2, <3>1 DEF Tidings
  <2>. QED BY <1>1, <2>2, <2>3 DEF Follows
<1>. HIDE DEF h
<1>10. ShownOk
  BY <1>4 DEF ShownOk, Shown
<1>11. Used \in Nat /\ Used <= MaxSessions /\ current \in 0..Used /\ Launched(sessions, Used)
  BY <1>1, <1>8, LspBounds
<1>12. \E g : Follows(g)
  BY <1>9
<1>. QED BY <1>4, <1>5, <1>6, <1>7, <1>10, <1>11, <1>12 DEF LspInv, Core

\* Nothing waits to begin with.
LEMMA InitWaits == Init => WaitInv
<1>. SUFFICES ASSUME Init PROVE WaitInv
  OBVIOUS
<1>1. ed = InitEd /\ current = 0
  BY DEF Init
<1>2. ed.edit = None /\ ed.nextId = 0 /\ ed.active = [k \in Kinds |-> 0]
  BY <1>1 DEF InitEd
<1>3. EditEnds(ed)
  BY <1>2 DEF EditEnds, Held
<1>4. Ids(ed)
  BY <1>2 DEF Ids
<1>. QED BY <1>1, <1>3, <1>4 DEF WaitInv, Supervised

\* Every step keeps it.
LEMMA NextLsp == LspInv /\ WaitInv /\ [Next]_vars => LspInv' /\ WaitInv'
<1>. SUFFICES ASSUME LspInv, WaitInv, [Next]_vars PROVE LspInv' /\ WaitInv'
  OBVIOUS
<1>1. CASE UNCHANGED vars
  <2>1. ed' = ed /\ sessions' = sessions /\ current' = current /\ events' = events
    BY <1>1 DEF vars
  <2>2. PICK h : Follows(h)
    BY DEF LspInv, Core
  <2>3. Used' = Used
    BY <2>1 DEF Used
  <2>4. IsModel(ed)'
    <3>1. IsModel(ed)
      BY DEF LspInv, Core
    <3>2. NoneStarted' <=> NoneStarted
      BY <2>1 DEF NoneStarted
    <3>. QED BY <2>1, <2>3, <3>1, <3>2 DEF IsModel
  <2>5. AllSettled(ed)'
    BY <2>1 DEF LspInv, Core, AllSettled, IsSettled
  <2>6. /\ (AreSessions(sessions) /\ current \in 0..Used /\ Used \in Nat /\ Used <= MaxSessions)'
        /\ (Launched(sessions, Used) /\ ed.out = <<>>)'
    BY <2>1, <2>3 DEF LspInv, Core
  <2>7. Follows(h)'
    BY <2>1, <2>2, <2>3 DEF Follows
  <2>8. (\E g : Follows(g))'
    BY <2>7
  <2>9. ShownOk'
    BY <2>1, <2>3 DEF LspInv, ShownOk
  <2>10. LspInv'
    BY <2>4, <2>5, <2>6, <2>8, <2>9 DEF LspInv, Core
  <2>11. Supervised' <=> Supervised
    BY <2>1 DEF Supervised
  <2>12. WaitInv'
    BY <2>1, <2>3, <2>11 DEF WaitInv
  <2>. QED BY <2>10, <2>12
<1>2. CASE MainThread
  BY <1>2, MainStep
<1>3. ASSUME NEW i \in 1..MaxSessions, Supervisor(i) PROVE LspInv' /\ WaitInv'
  BY <1>3, SupervisorStep, SupervisorWaits
<1>4. ASSUME NEW i \in 1..MaxSessions, Server(i) PROVE LspInv' /\ WaitInv'
  BY <1>4, ServerStep, ServerWaits
<1>. QED BY <1>1, <1>2, <1>3, <1>4 DEF Next

\* What the invariant says of the process of the current session.
LEMMA LspInvSuffices == LspInv => ServerFollowsTheBuffers
<1>. SUFFICES ASSUME LspInv, First(current) PROVE
       LET p == FoldLeft(ServerReads, sessions[current].proc, OnItsWay(sessions[current]))
       IN /\ ~p.misled
          /\ \A d \in Docs :
               /\ p.copy[d] = IF ed.open[d] = 0 THEN None ELSE ed.synced[d]
               /\ ed.open[d] # 0 => p.seen[d] = ed.open[d]
               /\ ed.text[d] # None /\ ed.pend[d] = <<>> => p.copy[d] = ed.text[d]
  BY DEF ServerFollowsTheBuffers
<1>. DEFINE s == sessions[current]
            q == OnItsWay(s)
            b == s.proc
            p == FoldLeft(ServerReads, b, q)
<1>1. /\ current \in 1..MaxSessions /\ AreSessions(sessions) /\ AllSettled(ed)
      /\ s.stage # "over" /\ s.gen = 0 /\ b.alive
  BY LspBounds DEF First, LspInv, Core
<1>2. PICK h : AgreeBut(ed, h, {}) /\ Leads(s, h)
  BY <1>1 DEF LspInv, Core, Follows
<1>3. IsSession(s)
  BY <1>1 DEF AreSessions
<1>4. List(q)
  <2>. DEFINE u == s.tr.queued
              v == s.inbox
  <2>1. List(u) /\ List(v)
    BY <1>3 DEF IsSession
  <2>. HIDE DEF u, v
  <2>2. List(u \o v)
    BY <2>1, FoldConcat
  <2>. QED BY <2>2 DEF u, v, OnItsWay
<1>5. AgreeBut(ed, p, {})
  <2>1. PICK P : Same(b, P) /\ Same(Told(s, P), h)
    BY <1>1, <1>2 DEF Leads, Behind
  <2>. DEFINE o == [op |-> "reads"]
  <2>2. Told(s, P) = Fold(o, P, q)
    BY DEF Told
  <2>. HIDE DEF q, b
  <2>3. FoldLeft(ServerReads, b, q) = Fold(o, b, q)
    BY <1>4, FoldOfServerReads
  <2>4. Same(Fold(o, b, q), Fold(o, P, q))
    BY <1>4, <2>1, FoldSame
  <2>. HIDE DEF o, s
  <2>5. Same(p, h)
    BY <2>1, <2>2, <2>3, <2>4 DEF Same
  <2>. QED BY <1>2, <2>5, SameAgrees
<1>. HIDE DEF p, s
<1>6. /\ ~p.misled
      /\ \A d \in Docs :
           /\ p.copy[d] = IF ed.open[d] = 0 THEN None ELSE ed.synced[d]
           /\ ed.open[d] # 0 => p.seen[d] = ed.open[d]
           /\ ed.text[d] # None /\ ed.pend[d] = <<>> => p.copy[d] = ed.text[d]
  BY <1>1, <1>5 DEF AgreeBut, AllSettled, IsSettled
<1>. QED BY <1>6 DEF p, s

\* What it says of the versions that are named and shown.
LEMMA LspInvNames == LspInv => VersionNamesOneText
<1>. SUFFICES ASSUME LspInv PROVE VersionNamesOneText
  OBVIOUS
<1>1. PICK h : Follows(h)
  BY DEF LspInv, Core
<1>2. IsModel(ed) /\ AgreeBut(ed, h, {}) /\ Tidings(events, h, current, Used)
  BY <1>1 DEF LspInv, Core, Follows
<1>. DEFINE q == events
<1>3. DOMAIN q = 1..Len(q)
  <2>1. List(q)
    BY <1>2 DEF Tidings
  <2>. HIDE DEF q
  <2>. QED BY <2>1, ListFacts
<1>4. ASSUME NEW k \in DOMAIN events, events[k].from = current
      PROVE  /\ events[k].t = "diagnostics" /\ events[k].version # 0
                  /\ events[k].version = ed.open[events[k].doc]
                    => events[k].text = ed.synced[events[k].doc]
             /\ events[k].t = "answer" => \A d \in DOMAIN events[k].versions :
                  events[k].versions[d] = ed.open[d] => events[k].base[d] = ed.synced[d]
  <2>. DEFINE e == events[k]
  <2>1. EventPast(h, e)
    BY <1>2, <1>3, <1>4 DEF Tidings
  <2>. HIDE DEF e
  <2>2. \A d, v, c : Past(h, d, v, c) /\ v = ed.open[d] => c = ed.synced[d]
    BY <1>2, PastFits
  <2>3. /\ e.t = "diagnostics" /\ e.version # 0 /\ e.version = ed.open[e.doc]
             => e.text = ed.synced[e.doc]
        /\ e.t = "answer" => \A d \in DOMAIN e.versions :
             e.versions[d] = ed.open[d] => e.base[d] = ed.synced[d]
    BY <2>1, <2>2 DEF EventPast
  <2>. QED BY <2>3 DEF e
<1>5. Shown(ed, current)
  BY DEF LspInv, ShownOk
<1>6. \A d \in Docs :
        ed.diag[d] # None =>
          (ed.diag[d].from = current /\ ed.diag[d].version # 0 =>
             ed.diag[d].version = ed.open[d] /\ ed.diag[d].text = ed.synced[d])
  BY <1>5 DEF Shown
<1>. QED BY <1>4, <1>6 DEF VersionNamesOneText

\* What the invariant says of the waits.
LEMMA WaitInvSuffices == LspInv /\ WaitInv => WaitsCanEnd
<1>. SUFFICES ASSUME LspInv, WaitInv PROVE WaitsCanEnd
  OBVIOUS
<1>1. HeldEditWillEnd
  BY DEF WaitInv, EditEnds, Held, HeldEditWillEnd
<1>2. List(events)
  BY DEF LspInv, Core, Follows, Tidings
<1>. DEFINE z == events
<1>3. DOMAIN z = 1..Len(z)
  <2>. HIDE DEF z
  <2>. QED BY <1>2, ListFacts DEF z
<1>. HIDE DEF z
<1>4. current # 0 => current \in 1..MaxSessions /\ IsSession(sessions[current])
  BY LspBounds DEF LspInv, Core, AreSessions
<1>5. LiveRequestIsUncancelled
  <2>. DEFINE s == sessions[current]
              u == s.tr.queued
              v == s.inbox
              sent == u \o v
  <2>. SUFFICES ASSUME current # 0, s.stage # "over", NEW k \in Kinds, ed.active[k] # 0,
                       ed.active[k] \notin s.lost
       PROVE  LET id == ed.active[k]
                  Is(w, t) == w.t = t /\ w.id = id
              IN /\ id \notin s.tr.cancelled
                 /\ ~ \E n \in DOMAIN sent : Is(sent[n], "cancel")
                 /\ \/ \E n \in DOMAIN sent :
                         Is(sent[n], "ask") \/ (Is(sent[n], "response") /\ sent[n].gen = s.gen)
                    \/ \E r \in s.proc.owes : r.id = id
                    \/ (~s.proc.alive /\ id \in s.tr.pending)
                    \/ \E n \in DOMAIN events : Is(events[n], "answer") \/ Is(events[n], "failed")
    BY DEF LiveRequestIsUncancelled
  <2>. DEFINE id == ed.active[k]
  <2>1. List(u) /\ List(v)
    BY <1>4 DEF IsSession
  <2>2. Live(s, Unread(s), ToSet(events), k, id)
    BY DEF WaitInv, Supervised, Serves, Waits
  <2>. HIDE DEF u, v
  <2>3. ToSet(sent) = ToSet(u) \cup ToSet(v)
    BY <2>1, MembersConcat
  <2>. HIDE DEF sent
  <2>4. Unread(s) = ToSet(sent)
    BY <2>3 DEF Unread, u, v
  <2>. HIDE DEF s, id
  <2>5. \A w \in ToSet(sent) : \E n \in DOMAIN sent : w = sent[n]
    BY DEF ToSet
  <2>6. \A n \in DOMAIN sent : sent[n] \in ToSet(sent)
    BY DEF ToSet
  <2>7. \A e \in ToSet(events) : \E n \in DOMAIN events : e = events[n]
    BY DEF ToSet
  <2>8. id \notin s.tr.cancelled /\ ~ \E n \in DOMAIN sent : sent[n].t = "cancel" /\ sent[n].id = id
    BY <2>2, <2>4, <2>6 DEF Live
  <2>9. \/ \E w \in ToSet(sent) : \/ w.t = "ask" /\ w.id = id
                                  \/ w.t = "response" /\ w.id = id /\ w.gen = s.gen
        \/ \E r \in s.proc.owes : r.id = id
        \/ ~s.proc.alive /\ id \in s.tr.pending
        \/ \E e \in ToSet(events) : e.t \in {"answer", "failed"} /\ e.id = id
    BY <2>2, <2>4 DEF Live
  <2>. QED BY <2>5, <2>7, <2>8, <2>9 DEF id
<1>6. IndexingMeansWork
  <2>. DEFINE s == sessions[1]
              v == s.inbox
  <2>. SUFFICES ASSUME ed.load = "Indexing", current = 1,
                       ~ \E n \in DOMAIN events : events[n].t = "load" \/ events[n].t = "failed"
       PROVE  \/ s.proc.alive /\ (s.proc.working # {} \/ s.proc.untold)
              \/ \E n \in DOMAIN v : v[n].t \in {"progress", "gone"}
    BY DEF IndexingMeansWork
  <2>1. \A j \in 1..Len(events) : ~Sets(events[j])
    BY <1>3 DEF z, Sets
  <2>2. Works(s)
    BY <2>1 DEF WaitInv, Loads
  <2>3. Orderly(s) /\ IsSession(s)
    BY <1>4 DEF WaitInv
  <2>. HIDE DEF s
  <2>4. s.stage = "running" /\ EndIsKnown(s)
    BY <2>2, <2>3 DEF Works, Orderly
  <2>5. \A w \in ToSet(v) : \E n \in DOMAIN v : w = v[n]
    BY DEF ToSet
  <2>6. CASE ~s.proc.alive
    <3>1. \E w \in ToSet(v) : w.t = "gone"
      BY <2>4, <2>6 DEF EndIsKnown
    <3>. QED BY <2>5, <3>1
  <2>7. CASE \E w \in ToSet(v) : Report(w, s.gen)
    BY <2>5, <2>7 DEF Report
  <2>8. CASE s.proc.alive /\ (s.proc.working # {} \/ s.proc.untold)
    BY <2>8
  <2>. QED BY <2>2, <2>6, <2>7, <2>8 DEF Works
<1>. QED BY <1>1, <1>5, <1>6 DEF WaitsCanEnd

\* Once a server that was not relaunched has read what is on its way to it, it holds the
\* open documents and nothing else, as open_docs and synced_docs list them, each with the
\* buffer's text unless edits of it wait; and it is never sent a change of a document it
\* does not hold, a range outside it or a version that does not increase
\* (sync_lsp_documents, close_lsp_document, reset_for_restart, Translator::outgoing).
THEOREM ServersFollowTheBuffers == Spec => []ServerFollowsTheBuffers
<1>. QED BY InitLsp, InitWaits, NextLsp, LspInvSuffices, PTL DEF Spec

\* A version number names one text: what the current session reports of a version that the
\* model lists, and what an answer of it names, was computed from the text that the model
\* sent under it, and the diagnostics that are shown of it are of the version that is listed
\* (on_lsp_event, apply_workspace_edit, reset_for_restart).
THEOREM VersionsNameOneText == Spec => []VersionNamesOneText
<1>. QED BY InitLsp, InitWaits, NextLsp, LspInvNames, PTL DEF Spec

\* Three things that are shown as under way have what can still end them: an edit that is
\* held waits for reads that are under way, or that a restore asked for, whose failure no one
\* tells it of; a request that the model waits for while the supervisor runs is not cancelled
\* and is on its way to the server, at the server or on its way back, unless it went down
\* with the process that held it; and before any restart is asked for, a status of indexing
\* means that the server works or reports, or that the end of work without a token was taken
\* for more of it (on_workspace_edit, on_fs_event, request_lsp_*, Translator::outgoing,
\* progress_events).
THEOREM NoWaitIsForgotten == Spec => []WaitsCanEnd
<1>. QED BY InitLsp, InitWaits, NextLsp, WaitInvSuffices, PTL DEF Spec
=============================================================================
