------------------------- MODULE EditorBufferProofs -------------------------
(***************************************************************************)
(* Proofs about EditorBuffer, for documents of any length, any revisions   *)
(* and any number of saves in flight: a buffer that reads saved holds what *)
(* its file holds, and the changes not yet drained bring their consumer to *)
(* its text.                                                               *)
(***************************************************************************)
EXTENDS EditorBuffer, SequenceLemmas

\* A buffer is a record with these fields, and its revisions are numbers.
Fields == {"text", "version", "saved", "anchor", "head", "applied", "undone", "nextGroup",
           "lastSource", "broken", "decorations", "pending"}
IsRecord(b) == \E S : b \in [Fields -> S]
IsBuffer(b) == IsRecord(b) /\ b.version \in Nat /\ b.saved \in Nat

\* A revision is never used twice: neither the one marked saved nor one in flight is
\* ahead of the buffer.
SavedBehind  == buf.saved <= buf.version
WritesBehind == \A k \in DOMAIN writes : writes[k].version \in Nat /\ writes[k].version <= buf.version

\* A save in flight of the present revision carries the present text.
WritesCarryTheirText ==
  \A k \in DOMAIN writes : writes[k].version = buf.version => writes[k].contents = buf.text

CleanInv ==
  /\ IsBuffer(buf)
  /\ \E S : writes \in Seq(S)
  /\ SavedBehind /\ WritesBehind /\ WritesCarryTheirText
  /\ CleanMeansOnDisk

\* The text that a consumer holding doc gets from a list of changes.
Replayed(doc, s) == FoldLeft(LAMBDA d, cs : Apply(cs, d), doc, s)

\* The changes a consumer has not drained, which replayed on its copy give the text.
PendingInv ==
  /\ IsBuffer(buf)
  /\ \E S : buf.pending \in Seq(S)
  /\ Replayed(mirror, buf.pending) = buf.text

\* What an operation may do to what the invariants are about: nothing, or a new revision
\* whose change is announced (Buffer::apply, Buffer::replay).
Same(new, old) ==
  /\ new.text = old.text /\ new.pending = old.pending
  /\ new.version = old.version /\ new.saved = old.saved
Announced(new, old) ==
  \E cs : new.text = Apply(cs, old.text) /\ new.pending = Append(old.pending, cs)
Newer(new, old) ==
  new.version = old.version + 1 /\ new.saved = old.saved /\ Announced(new, old)
Kept(new, old)  == IsBuffer(new) /\ (Same(new, old) \/ Newer(new, old))

\* A change of the text is a new revision.
LEMMA AdvanceKeeps ==
  ASSUME NEW b, IsBuffer(b), NEW cs
  PROVE  IsBuffer(Advance(b, cs)) /\ Newer(Advance(b, cs), b)
<1>1. PICK S : b \in [Fields -> S]
  BY DEF IsBuffer, IsRecord
<1>2. PICK t, an, h, d, p :
        /\ Advance(b, cs) = [b EXCEPT !.text = t, !.version = b.version + 1, !.anchor = an,
                                      !.head = h, !.decorations = d, !.pending = p]
        /\ t = Apply(cs, b.text) /\ p = Append(b.pending, cs)
  BY DEF Advance
<1>. DEFINE r == Advance(b, cs)
<1>. HIDE DEF r
<1>3. r = [b EXCEPT !.text = t, !.version = b.version + 1, !.anchor = an,
                    !.head = h, !.decorations = d, !.pending = p]
  BY <1>2 DEF r
<1>4. r \in [Fields -> S \cup {t, b.version + 1, an, h, d, p}]
  BY <1>1, <1>3 DEF Fields
<1>5. r.version = b.version + 1 /\ r.saved = b.saved /\ r.text = t /\ r.pending = p
  BY <1>1, <1>3 DEF Fields
<1>6. IsRecord(r)
  BY <1>4 DEF IsRecord
<1>7. IsBuffer(r) /\ Newer(r, b)
  BY <1>2, <1>5, <1>6 DEF IsBuffer, Newer, Announced
<1>. QED BY <1>7 DEF r

\* A command that leaves files, contents and pending saves alone keeps the invariant.
LEMMA OtherFields ==
  ASSUME NEW b, IsBuffer(b), NEW r, NEW w, NEW x, NEW y, NEW z,
         \/ r = [b EXCEPT !.undone = w, !.broken = x, !.lastSource = y, !.applied = z]
         \/ r = [b EXCEPT !.applied = w, !.undone = x]
         \/ r = [b EXCEPT !.undone = w, !.applied = x]
         \/ r = [b EXCEPT !.broken = w, !.lastSource = x]
         \/ r = [b EXCEPT !.anchor = w, !.head = x]
         \/ r = [b EXCEPT !.broken = w]
         \/ r = [b EXCEPT !.nextGroup = w]
         \/ r = [b EXCEPT !.decorations = w]
  PROVE  IsBuffer(r) /\ Same(r, b)
<1>1. PICK S : b \in [Fields -> S]
  BY DEF IsBuffer, IsRecord
<1>. SUFFICES r \in [Fields -> S \cup {w, x, y, z}]
               /\ r.text = b.text /\ r.pending = b.pending
               /\ r.version = b.version /\ r.saved = b.saved
  BY DEF IsBuffer, IsRecord, Same
<1>2. CASE r = [b EXCEPT !.undone = w, !.broken = x, !.lastSource = y, !.applied = z]
  BY <1>1, <1>2 DEF Fields
<1>3. CASE r = [b EXCEPT !.applied = w, !.undone = x]
  BY <1>1, <1>3 DEF Fields
<1>4. CASE r = [b EXCEPT !.undone = w, !.applied = x]
  BY <1>1, <1>4 DEF Fields
<1>5. CASE r = [b EXCEPT !.broken = w, !.lastSource = x]
  BY <1>1, <1>5 DEF Fields
<1>6. CASE r = [b EXCEPT !.anchor = w, !.head = x]
  BY <1>1, <1>6 DEF Fields
<1>7. CASE r = [b EXCEPT !.broken = w]
  BY <1>1, <1>7 DEF Fields
<1>8. CASE r = [b EXCEPT !.nextGroup = w]
  BY <1>1, <1>8 DEF Fields
<1>9. CASE r = [b EXCEPT !.decorations = w]
  BY <1>1, <1>9 DEF Fields
<1>. QED BY <1>2, <1>3, <1>4, <1>5, <1>6, <1>7, <1>8, <1>9

\* An edit is a new revision, unless it is refused or changes nothing.
LEMMA EditKeeps ==
  ASSUME NEW b, IsBuffer(b), NEW cs, NEW source
  PROVE  Kept(Edit(b, cs, source), b)
<1>. DEFINE spent == SpendGroup(b, source)
            next  == Advance(spent, cs)
<1>1. IsBuffer(spent) /\ Same(spent, b)
  BY OtherFields DEF SpendGroup
<1>. HIDE DEF spent
<1>2. IsBuffer(next) /\ Newer(next, spent)
  BY <1>1, AdvanceKeeps
<1>3. Edit(b, cs, source) = spent \/ \E ap :
        Edit(b, cs, source) = [next EXCEPT !.undone = <<>>, !.broken = FALSE,
                                           !.lastSource = source, !.applied = ap]
  BY DEF Edit, spent
<1>. HIDE DEF next
<1>4. ASSUME NEW ap, NEW r, r = [next EXCEPT !.undone = <<>>, !.broken = FALSE,
                                             !.lastSource = source, !.applied = ap]
      PROVE  IsBuffer(r) /\ Same(r, next)
  BY <1>2, <1>4, OtherFields
<1>5. CASE Edit(b, cs, source) = spent
  BY <1>1, <1>5 DEF Kept, Same
<1>6. CASE \E ap : Edit(b, cs, source) = [next EXCEPT !.undone = <<>>, !.broken = FALSE,
                                                      !.lastSource = source, !.applied = ap]
  <2>. DEFINE r == Edit(b, cs, source)
  <2>1. IsBuffer(r) /\ Same(r, next)
    BY <1>4, <1>6
  <2>. HIDE DEF r
  <2>2. Announced(r, b)
    BY <1>1, <1>2, <2>1 DEF Same, Newer, Announced
  <2>3. Newer(r, b)
    BY <1>1, <1>2, <2>1, <2>2 DEF Same, Newer
  <2>. QED BY <2>1, <2>3 DEF Kept, r
<1>. QED BY <1>3, <1>5, <1>6

\* Typing, deleting and editing elsewhere are edits.
LEMMA TypingKeeps ==
  ASSUME NEW b, IsBuffer(b)
  PROVE  /\ \A s, source : Kept(InsertText(b, s, source), b)
         /\ \A from, to, s, source : Kept(EditRange(b, from, to, s, source), b)
         /\ Kept(DeleteBackward(b), b) /\ Kept(DeleteForward(b), b)
<1>1. \A from, to, s, source : Kept(EditRange(b, from, to, s, source), b)
  BY EditKeeps DEF EditRange
<1>2. Kept(b, b)
  BY DEF Kept, Same
<1>. QED BY <1>1, <1>2 DEF InsertText, DeleteBackward, DeleteForward

\* Replaying a logged change is a new revision, and an empty log replays nothing.
LEMMA ReplayKeeps ==
  ASSUME NEW b, IsBuffer(b)
  PROVE  Kept(Undo(b), b) /\ Kept(Redo(b), b)
<1>1. ASSUME NEW cs PROVE IsBuffer(Replay(b, cs)) /\ Newer(Replay(b, cs), b)
  <2>. DEFINE next == Advance(b, cs)
              r == Replay(b, cs)
  <2>1. IsBuffer(next) /\ Newer(next, b)
    BY AdvanceKeeps
  <2>2. r = [next EXCEPT !.broken = TRUE, !.lastSource = NoSource]
    BY DEF Replay
  <2>. HIDE DEF next, r
  <2>3. IsBuffer(r) /\ Same(r, next)
    BY <2>1, <2>2, OtherFields
  <2>4. IsBuffer(r) /\ Newer(r, b)
    BY <2>1, <2>3 DEF Same, Newer, Announced
  <2>. QED BY <2>4 DEF r
<1>2. Kept(b, b)
  BY DEF Kept, Same
<1>3. ASSUME NEW cs, NEW ap, NEW un, NEW r,
             \/ r = [Replay(b, cs) EXCEPT !.applied = ap, !.undone = un]
             \/ r = [Replay(b, cs) EXCEPT !.undone = un, !.applied = ap]
      PROVE  Kept(r, b)
  <2>. DEFINE next == Replay(b, cs)
  <2>1. IsBuffer(next) /\ Newer(next, b)
    BY <1>1
  <2>2. \/ r = [next EXCEPT !.applied = ap, !.undone = un]
        \/ r = [next EXCEPT !.undone = un, !.applied = ap]
    BY <1>3
  <2>. HIDE DEF next
  <2>3. IsBuffer(r) /\ Same(r, next)
    BY <2>1, <2>2, OtherFields
  <2>. QED BY <2>1, <2>3 DEF Kept, Same, Newer, Announced
<1>4. Undo(b) = b \/ \E cs, ap, un :
        Undo(b) = [Replay(b, cs) EXCEPT !.applied = ap, !.undone = un]
  BY DEF Undo
<1>5. Redo(b) = b \/ \E cs, ap, un :
        Redo(b) = [Replay(b, cs) EXCEPT !.undone = un, !.applied = ap]
  BY DEF Redo
<1>6. \A r : (\E cs, ap, un : \/ r = [Replay(b, cs) EXCEPT !.applied = ap, !.undone = un]
                              \/ r = [Replay(b, cs) EXCEPT !.undone = un, !.applied = ap])
        => Kept(r, b)
  BY <1>3
<1>7. Kept(Undo(b), b)
  BY <1>2, <1>4, <1>6
<1>8. Kept(Redo(b), b)
  BY <1>2, <1>5, <1>6
<1>. QED BY <1>7, <1>8

\* The function that a fold over the first n changes of s is defined by.
IsReplay(f, doc, s, n) ==
  f = [S \in SUBSET (1..n) |-> IF S = {} THEN doc ELSE Apply(s[Max(S)], f[S \ {Max(S)}])]

\* The greatest member of a set of the first numbers.
LEMMA MaxOfNumbers ==
  ASSUME NEW n \in Nat, NEW S \in SUBSET (1..n), S # {}
  PROVE  Max(S) \in S /\ \A j \in S : j <= Max(S)
<1>1. PICK k \in S : \A j \in S : j <= k
  BY GreatestNatural
<1>2. \A j \in S : j \in Nat
  OBVIOUS
<1>. QED BY <1>1, <1>2 DEF Max

\* That function exists, for any number of changes.
LEMMA ReplayExists ==
  ASSUME NEW doc, NEW s, NEW n \in Nat
  PROVE  \E f : IsReplay(f, doc, s, n)
<1>. DEFINE T == {m \in Nat : \E f : IsReplay(f, doc, s, m)}
<1>1. 0 \in T
  <2>. DEFINE f == [S \in SUBSET (1..0) |-> doc]
  <2>1. f = [S \in SUBSET (1..0) |-> IF S = {} THEN doc ELSE Apply(s[Max(S)], f[S \ {Max(S)}])]
    <3>1. \A S \in SUBSET (1..0) : S = {}
      OBVIOUS
    <3>. QED BY <3>1
  <2>. QED BY <2>1 DEF IsReplay
<1>2. ASSUME NEW m \in Nat, m \in T PROVE m + 1 \in T
  <2>1. PICK f : IsReplay(f, doc, s, m)
    BY <1>2
  <2>. DEFINE g == [S \in SUBSET (1..(m + 1)) |->
                      IF m + 1 \in S THEN Apply(s[m + 1], f[S \ {m + 1}]) ELSE f[S]]
  <2>2. ASSUME NEW S \in SUBSET (1..(m + 1))
        PROVE  g[S] = IF S = {} THEN doc ELSE Apply(s[Max(S)], g[S \ {Max(S)}])
    <3>1. CASE m + 1 \in S
      <4>1. Max(S) = m + 1
        <5>1. m + 1 \in Nat /\ S # {} /\ \A j \in S : j \in Nat /\ j <= m + 1
          BY <3>1
        <5>2. Max(S) \in S /\ \A j \in S : j <= Max(S)
          BY <5>1, MaxOfNumbers
        <5>3. Max(S) \in Nat /\ Max(S) <= m + 1 /\ m + 1 <= Max(S)
          BY <3>1, <5>1, <5>2
        <5>. QED BY <5>1, <5>3
      <4>2. S \ {m + 1} \in SUBSET (1..(m + 1)) /\ m + 1 \notin S \ {m + 1} /\ S # {}
        BY <3>1
      <4>3. g[S \ {m + 1}] = f[S \ {m + 1}]
        BY <4>2
      <4>4. g[S] = Apply(s[m + 1], f[S \ {m + 1}])
        BY <3>1
      <4>. HIDE DEF g
      <4>. QED BY <4>1, <4>2, <4>3, <4>4
    <3>2. CASE m + 1 \notin S
      <4>1. S \in SUBSET (1..m)
        BY <3>2
      <4>2. f[S] = IF S = {} THEN doc ELSE Apply(s[Max(S)], f[S \ {Max(S)}])
        BY <2>1, <4>1 DEF IsReplay
      <4>3. S \ {Max(S)} \in SUBSET (1..(m + 1)) /\ m + 1 \notin S \ {Max(S)}
        BY <3>2
      <4>4. g[S] = f[S] /\ g[S \ {Max(S)}] = f[S \ {Max(S)}]
        BY <3>2, <4>3
      <4>. HIDE DEF g
      <4>. QED BY <4>2, <4>4
    <3>. QED BY <3>1, <3>2
  <2>3. g = [S \in SUBSET (1..(m + 1)) |-> IF S = {} THEN doc ELSE Apply(s[Max(S)], g[S \ {Max(S)}])]
    <3>1. g = [S \in SUBSET (1..(m + 1)) |-> g[S]]
      OBVIOUS
    <3>. HIDE DEF g
    <3>. QED BY <2>2, <3>1
  <2>4. IsReplay(g, doc, s, m + 1)
    BY <2>3 DEF IsReplay
  <2>. QED BY <2>4
<1>. HIDE DEF T
<1>3. Nat \subseteq T
  BY <1>1, <1>2, SetInduction
<1>. QED BY <1>3 DEF T

\* A fold is the last value of such a function.
LEMMA ReplayedBy ==
  ASSUME NEW C, NEW doc, NEW s \in Seq(C)
  PROVE  \E f : IsReplay(f, doc, s, Len(s)) /\ Replayed(doc, s) = f[1..Len(s)]
<1>. DEFINE D == DOMAIN s
            f == CHOOSE g : g = [S \in SUBSET D |->
                   IF S = {} THEN doc ELSE Apply(s[Max(S)], g[S \ {Max(S)}])]
<1>1. D = 1..Len(s) /\ Len(s) \in Nat
  OBVIOUS
<1>2. Replayed(doc, s) = f[D]
  BY DEF Replayed, FoldLeft, MapThenFoldSet
<1>3. \E g : g = [S \in SUBSET D |-> IF S = {} THEN doc ELSE Apply(s[Max(S)], g[S \ {Max(S)}])]
  <2>. HIDE DEF D
  <2>1. PICK g : IsReplay(g, doc, s, Len(s))
    BY <1>1, ReplayExists
  <2>. QED BY <1>1, <2>1 DEF IsReplay
<1>4. f = [S \in SUBSET D |-> IF S = {} THEN doc ELSE Apply(s[Max(S)], f[S \ {Max(S)}])]
  BY <1>3
<1>. HIDE DEF f, D
<1>5. IsReplay(f, doc, s, Len(s))
  BY <1>1, <1>4 DEF IsReplay
<1>. QED BY <1>1, <1>2, <1>5

\* f tells the copy after each of the first n changes of s.
TellsEachStep(f, doc, s, n) ==
  /\ f[{}] = doc
  /\ \A k \in 1..n : f[1..k] = Apply(s[k], f[1..(k - 1)])

\* What such a function is worth at the first k changes.
LEMMA ReplayAt ==
  ASSUME NEW doc, NEW s, NEW n \in Nat, NEW f, IsReplay(f, doc, s, n)
  PROVE  TellsEachStep(f, doc, s, n)
<1>1. f[{}] = doc
  BY DEF IsReplay
<1>2. ASSUME NEW k \in 1..n PROVE f[1..k] = Apply(s[k], f[1..(k - 1)])
  <2>. DEFINE S == 1..k
  <2>1. S \in SUBSET (1..n) /\ k \in S /\ S \ {k} = 1..(k - 1) /\ \A j \in S : j <= k
    OBVIOUS
  <2>. HIDE DEF S
  <2>2. Max(S) \in S /\ \A j \in S : j <= Max(S)
    BY <2>1, MaxOfNumbers
  <2>3. Max(S) = k
    BY <2>1, <2>2
  <2>4. f[S] = Apply(s[k], f[S \ {k}])
    BY <2>1, <2>3 DEF IsReplay
  <2>. QED BY <2>1, <2>4 DEF S
<1>. QED BY <1>1, <1>2 DEF TellsEachStep

\* With no change pending the copy is what it was, and one more change is applied to
\* what the others made.
LEMMA ReplayedFacts ==
  ASSUME NEW doc
  PROVE  /\ Replayed(doc, <<>>) = doc
         /\ \A C : \A s \in Seq(C) : \A x \in C :
              Replayed(doc, Append(s, x)) = Apply(x, Replayed(doc, s))
<1>1. Replayed(doc, <<>>) = doc
  <2>1. <<>> \in Seq({}) /\ Len(<<>>) = 0 /\ 1..0 = {}
    OBVIOUS
  <2>2. PICK f : IsReplay(f, doc, <<>>, Len(<<>>)) /\ Replayed(doc, <<>>) = f[1..Len(<<>>)]
    BY <2>1, ReplayedBy
  <2>3. IsReplay(f, doc, <<>>, 0) /\ Replayed(doc, <<>>) = f[{}]
    BY <2>1, <2>2
  <2>4. TellsEachStep(f, doc, <<>>, 0)
    BY <2>3, ReplayAt
  <2>. QED BY <2>3, <2>4 DEF TellsEachStep
<1>2. ASSUME NEW C, NEW s \in Seq(C), NEW x \in C
      PROVE  Replayed(doc, Append(s, x)) = Apply(x, Replayed(doc, s))
  <2>. DEFINE t == Append(s, x)
              n == Len(s)
  <2>1. t \in Seq(C) /\ Len(t) = n + 1 /\ n \in Nat /\ t[n + 1] = x /\ \A k \in 1..n : t[k] = s[k]
    OBVIOUS
  <2>. HIDE DEF t, n
  <2>2. PICK f : IsReplay(f, doc, s, n) /\ Replayed(doc, s) = f[1..n]
    BY ReplayedBy DEF n
  <2>3. PICK g : IsReplay(g, doc, t, n + 1) /\ Replayed(doc, t) = g[1..(n + 1)]
    BY <2>1, ReplayedBy
  <2>4. f[{}] = doc /\ \A k \in 1..n : f[1..k] = Apply(s[k], f[1..(k - 1)])
    <3>1. TellsEachStep(f, doc, s, n)
      BY <2>1, <2>2, ReplayAt
    <3>. QED BY <3>1 DEF TellsEachStep
  <2>5. g[{}] = doc /\ \A k \in 1..(n + 1) : g[1..k] = Apply(t[k], g[1..(k - 1)])
    <3>1. n + 1 \in Nat
      BY <2>1
    <3>2. TellsEachStep(g, doc, t, n + 1)
      BY <2>3, <3>1, ReplayAt
    <3>. QED BY <3>2 DEF TellsEachStep
  <2>. DEFINE T == {k \in Nat : k <= n => f[1..k] = g[1..k]}
  <2>6. 0 \in T
    BY <2>4, <2>5
  <2>7. ASSUME NEW k \in Nat, k \in T PROVE k + 1 \in T
    <3>1. CASE k + 1 <= n
      <4>1. k + 1 \in 1..n /\ k + 1 \in 1..(n + 1) /\ (k + 1) - 1 = k /\ k <= n
        BY <2>1, <3>1
      <4>2. f[1..(k + 1)] = Apply(s[k + 1], f[1..k])
        BY <2>4, <4>1
      <4>3. g[1..(k + 1)] = Apply(t[k + 1], g[1..k])
        BY <2>5, <4>1
      <4>4. f[1..k] = g[1..k] /\ t[k + 1] = s[k + 1]
        BY <2>1, <2>7, <4>1
      <4>. QED BY <4>2, <4>3, <4>4
    <3>. QED BY <2>1, <3>1
  <2>. HIDE DEF T
  <2>8. n \in T
    BY <2>1, <2>6, <2>7, SetInduction
  <2>9. f[1..n] = g[1..n]
    BY <2>1, <2>8 DEF T
  <2>10. g[1..(n + 1)] = Apply(t[n + 1], g[1..n])
    <3>1. n + 1 \in 1..(n + 1) /\ (n + 1) - 1 = n
      BY <2>1
    <3>. QED BY <2>5, <3>1
  <2>. QED BY <2>1, <2>2, <2>3, <2>9, <2>10 DEF t
<1>. QED BY <1>1, <1>2

\* An operation that announces its change keeps the consumer one replay from the text.
LEMMA AnnouncedStep ==
  ASSUME PendingInv, Kept(buf', buf), UNCHANGED mirror
  PROVE  PendingInv'
<1>1. CASE Same(buf', buf)
  BY <1>1 DEF PendingInv, Kept, Same
<1>2. CASE Newer(buf', buf)
  <2>1. PICK cs : buf'.text = Apply(cs, buf.text) /\ buf'.pending = Append(buf.pending, cs)
    BY <1>2 DEF Newer, Announced
  <2>2. PICK S : buf.pending \in Seq(S)
    BY DEF PendingInv
  <2>. DEFINE C == S \cup {cs}
              p == buf.pending
  <2>3. p \in Seq(C) /\ cs \in C
    BY <2>2
  <2>. HIDE DEF C
  <2>4. Append(p, cs) \in Seq(C)
    BY <2>3
  <2>. HIDE DEF p
  <2>5. Replayed(mirror, Append(p, cs)) = Apply(cs, Replayed(mirror, p))
    BY <2>3, ReplayedFacts
  <2>6. Replayed(mirror, p) = buf.text
    BY DEF PendingInv, p
  <2>7. Replayed(mirror', buf'.pending) = buf'.text
    BY <2>1, <2>5, <2>6 DEF p
  <2>8. \E D : buf'.pending \in Seq(D)
    BY <2>1, <2>4 DEF p
  <2>. QED BY <2>7, <2>8 DEF PendingInv, Kept
<1>. QED BY <1>1, <1>2 DEF Kept

\* Draining leaves nothing pending, on a copy that is the text (sync_lsp_documents).
LEMMA DrainKeeps ==
  ASSUME PendingInv, TakePendingChanges
  PROVE  PendingInv' /\ UNCHANGED <<disk, writes>>
         /\ buf'.text = buf.text /\ buf'.version = buf.version /\ buf'.saved = buf.saved
<1>1. mirror' = Replayed(mirror, buf.pending) /\ buf' = [buf EXCEPT !.pending = <<>>]
      /\ UNCHANGED <<disk, writes>>
  BY DEF TakePendingChanges, Replayed
<1>2. PICK S : buf \in [Fields -> S]
  BY DEF PendingInv, IsBuffer, IsRecord
<1>3. /\ buf' \in [Fields -> S \cup {<<>>}] /\ buf'.pending = <<>> /\ buf'.text = buf.text
      /\ buf'.version = buf.version /\ buf'.saved = buf.saved
  BY <1>1, <1>2 DEF Fields
<1>4. IsBuffer(buf')
  BY <1>3 DEF PendingInv, IsBuffer, IsRecord
<1>5. mirror' = buf.text
  BY <1>1 DEF PendingInv
<1>6. Replayed(mirror', buf'.pending) = buf'.text
  BY <1>3, <1>5, ReplayedFacts
<1>7. buf'.pending \in Seq({})
  BY <1>3
<1>. QED BY <1>1, <1>3, <1>4, <1>6, <1>7 DEF PendingInv

\* An operation that keeps the buffer or makes a new revision keeps the invariant: the
\* revision is one that no save in flight carries, and that is not marked saved.
LEMMA KeptStep ==
  ASSUME CleanInv, Kept(buf', buf), UNCHANGED <<disk, writes>>
  PROVE  CleanInv'
<1>1. CASE Same(buf', buf)
  BY <1>1 DEF CleanInv, Kept, Same, IsBuffer, SavedBehind, WritesBehind, WritesCarryTheirText,
              CleanMeansOnDisk, IsDirty
<1>2. CASE Newer(buf', buf)
  <2>1. IsBuffer(buf') /\ SavedBehind' /\ WritesBehind'
    BY <1>2 DEF CleanInv, Kept, Newer, IsBuffer, SavedBehind, WritesBehind
  <2>2. WritesCarryTheirText'
    BY <1>2 DEF CleanInv, Newer, IsBuffer, WritesBehind, WritesCarryTheirText
  <2>3. CleanMeansOnDisk'
    BY <1>2 DEF CleanInv, Newer, IsBuffer, SavedBehind, CleanMeansOnDisk, IsDirty
  <2>. QED BY <2>1, <2>2, <2>3 DEF CleanInv
<1>. QED BY <1>1, <1>2 DEF Kept

\* A save carries the text of its revision (save_active_buffer).
LEMMA RequestKeeps == CleanInv /\ RequestSave => CleanInv'
<1>. SUFFICES ASSUME CleanInv, RequestSave PROVE CleanInv'
  OBVIOUS
<1>. DEFINE w == [version |-> buf.version, contents |-> buf.text]
<1>1. UNCHANGED <<buf, disk>> /\ writes' = Append(writes, w)
  BY DEF RequestSave
<1>2. w.version = buf.version /\ w.contents = buf.text
  OBVIOUS
<1>. HIDE DEF w
<1>3. PICK S : writes \in Seq(S)
  BY DEF CleanInv
<1>4. writes \in Seq(S \cup {w}) /\ writes' \in Seq(S \cup {w})
  <2>1. writes \in Seq(S \cup {w})
    BY <1>3
  <2>. QED BY <1>1, <2>1
<1>5. \A k \in DOMAIN writes' : writes'[k] = w \/ (k \in DOMAIN writes /\ writes'[k] = writes[k])
  BY <1>1, <1>4
<1>6. WritesBehind' /\ WritesCarryTheirText'
  BY <1>1, <1>2, <1>5 DEF CleanInv, WritesBehind, WritesCarryTheirText, IsBuffer
<1>. QED BY <1>1, <1>4, <1>6 DEF CleanInv, SavedBehind, CleanMeansOnDisk, IsDirty

\* What is left of the saves in flight after the oldest is done
LEMMA WritesTail ==
  ASSUME CleanInv, writes # <<>>, writes' = Tail(writes)
  PROVE  /\ \E S : writes' \in Seq(S)
         /\ 1 \in DOMAIN writes /\ Head(writes) = writes[1]
         /\ \A k \in DOMAIN writes' : k + 1 \in DOMAIN writes /\ writes'[k] = writes[k + 1]
<1>1. PICK S : writes \in Seq(S)
  BY DEF CleanInv
<1>. QED BY <1>1

\* The file now holds the text of the revision that is marked saved (mark_saved): the
\* buffer reads clean only if that revision is still the present one.
LEMMA SavedKeeps ==
  ASSUME CleanInv, SaveSucceeds
  PROVE  CleanInv' /\ buf'.text = buf.text /\ buf'.pending = buf.pending /\ mirror' = mirror
<1>. DEFINE w == writes[1]
<1>1. /\ writes' = Tail(writes) /\ \E S : writes' \in Seq(S)
      /\ 1 \in DOMAIN writes /\ Head(writes) = w
      /\ \A k \in DOMAIN writes' : k + 1 \in DOMAIN writes /\ writes'[k] = writes[k + 1]
  BY WritesTail DEF SaveSucceeds
<1>2. w.version \in Nat /\ w.version <= buf.version /\ (w.version = buf.version => w.contents = buf.text)
  BY <1>1 DEF CleanInv, WritesBehind, WritesCarryTheirText
<1>3. disk' = w.contents /\ buf' = MarkSaved(buf, w.version)
  BY <1>1 DEF SaveSucceeds
<1>. HIDE DEF w
<1>4. PICK S : buf \in [Fields -> S]
  BY DEF CleanInv, IsBuffer, IsRecord
<1>5. buf' = [[buf EXCEPT !.saved = w.version] EXCEPT !.broken = TRUE]
  BY <1>3 DEF MarkSaved, BreakGroup
<1>6. buf' \in [Fields -> S \cup {w.version, TRUE}]
  BY <1>4, <1>5 DEF Fields
<1>7. buf'.text = buf.text /\ buf'.pending = buf.pending /\ buf'.version = buf.version
      /\ buf'.saved = w.version
  BY <1>4, <1>5 DEF Fields
<1>8. IsBuffer(buf')
  BY <1>2, <1>6, <1>7 DEF IsBuffer, IsRecord, CleanInv
<1>9. SavedBehind' /\ CleanMeansOnDisk'
  BY <1>2, <1>3, <1>7 DEF SavedBehind, CleanMeansOnDisk, IsDirty
<1>10. WritesBehind' /\ WritesCarryTheirText'
  BY <1>1, <1>7 DEF CleanInv, WritesBehind, WritesCarryTheirText
<1>11. mirror' = mirror
  BY DEF SaveSucceeds
<1>. QED BY <1>1, <1>7, <1>8, <1>9, <1>10, <1>11 DEF CleanInv

\* Edits, undo, redo, cursor moves and overlays keep the buffer or make a new revision.
LEMMA OperationsKeep ==
  ASSUME IsBuffer(buf),
         \/ \E s \in KeyText : Type(s)
         \/ Backspace \/ ForwardDelete
         \/ \E from, to \in 0 .. MaxLen, s \in OtherText, source \in Sources :
              EditElsewhere(from, to, s, source)
         \/ UndoEdit \/ RedoEdit
         \/ \E sel \in Selections : MoveCursor(sel[1], sel[2])
         \/ \E class \in {"hunk", "derived"}, from, to \in 0 .. MaxLen :
              PlaceDecoration(class, from, to)
  PROVE  Kept(buf', buf) /\ UNCHANGED <<disk, writes, mirror>>
<1>1. UNCHANGED <<disk, writes, mirror>>
  BY DEF Type, Backspace, ForwardDelete, EditElsewhere, UndoEdit, RedoEdit, MoveCursor,
         PlaceDecoration
<1>2. CASE \/ \E s \in KeyText : Type(s)
           \/ Backspace \/ ForwardDelete
           \/ \E from, to \in 0 .. MaxLen, s \in OtherText, source \in Sources :
                EditElsewhere(from, to, s, source)
           \/ UndoEdit \/ RedoEdit
  <2>1. Kept(buf', buf)
    BY <1>2, TypingKeeps, ReplayKeeps
       DEF Type, Backspace, ForwardDelete, EditElsewhere, UndoEdit, RedoEdit
  <2>. QED BY <1>1, <2>1
<1>3. CASE \E sel \in Selections : MoveCursor(sel[1], sel[2])
  <2>1. PICK an, h : buf' = BreakGroup([buf EXCEPT !.anchor = an, !.head = h])
    BY <1>3 DEF MoveCursor, SetSelection
  <2>. DEFINE moved == [buf EXCEPT !.anchor = an, !.head = h]
  <2>2. IsBuffer(moved) /\ Same(moved, buf)
    BY OtherFields
  <2>3. buf' = [moved EXCEPT !.broken = TRUE]
    BY <2>1 DEF BreakGroup
  <2>. HIDE DEF moved
  <2>4. IsBuffer(buf') /\ Same(buf', moved)
    BY <2>2, <2>3, OtherFields
  <2>. QED BY <1>1, <2>2, <2>4 DEF Kept, Same
<1>4. CASE \E class \in {"hunk", "derived"}, from, to \in 0 .. MaxLen :
             PlaceDecoration(class, from, to)
  <2>1. PICK x : buf' = [buf EXCEPT !.decorations = x]
    BY <1>4 DEF PlaceDecoration
  <2>2. IsBuffer(buf') /\ Same(buf', buf)
    BY <2>1, OtherFields
  <2>. QED BY <1>1, <2>2 DEF Kept
<1>. QED BY <1>2, <1>3, <1>4

\* Every step keeps the invariants.
LEMMA NextClean == CleanInv /\ PendingInv /\ [Next]_vars => CleanInv' /\ PendingInv'
<1>. SUFFICES ASSUME CleanInv, PendingInv, [Next]_vars PROVE CleanInv' /\ PendingInv'
  OBVIOUS
<1>0. IsBuffer(buf) /\ Kept(buf, buf)
  BY DEF CleanInv, Kept, Same
<1>1. CASE \/ \E s \in KeyText : Type(s)
           \/ Backspace \/ ForwardDelete
           \/ \E from, to \in 0 .. MaxLen, s \in OtherText, source \in Sources :
                EditElsewhere(from, to, s, source)
           \/ UndoEdit \/ RedoEdit
           \/ \E sel \in Selections : MoveCursor(sel[1], sel[2])
           \/ \E class \in {"hunk", "derived"}, from, to \in 0 .. MaxLen :
                PlaceDecoration(class, from, to)
  <2>1. Kept(buf', buf) /\ UNCHANGED <<disk, writes, mirror>>
    BY <1>0, <1>1, OperationsKeep
  <2>. QED BY <2>1, KeptStep, AnnouncedStep
<1>2. CASE TakePendingChanges
  <2>1. PendingInv' /\ UNCHANGED <<disk, writes>> /\ buf'.text = buf.text
        /\ buf'.version = buf.version /\ buf'.saved = buf.saved
    BY <1>2, DrainKeeps
  <2>. QED BY <2>1 DEF PendingInv, CleanInv, SavedBehind, WritesBehind, WritesCarryTheirText,
                       CleanMeansOnDisk, IsDirty
<1>3. CASE SaveFails
  <2>1. /\ UNCHANGED <<buf, disk, mirror>> /\ \E S : writes' \in Seq(S)
        /\ \A k \in DOMAIN writes' : k + 1 \in DOMAIN writes /\ writes'[k] = writes[k + 1]
    BY <1>3, WritesTail DEF SaveFails
  <2>2. CleanInv'
    BY <2>1 DEF CleanInv, SavedBehind, WritesBehind, WritesCarryTheirText,
                CleanMeansOnDisk, IsDirty
  <2>. QED BY <1>0, <2>1, <2>2, AnnouncedStep
<1>4. CASE RequestSave
  <2>1. UNCHANGED <<buf, mirror>>
    BY <1>4 DEF RequestSave
  <2>. QED BY <1>0, <1>4, <2>1, RequestKeeps, AnnouncedStep
<1>5. CASE SaveSucceeds
  <2>1. IsBuffer(buf') /\ buf'.text = buf.text /\ buf'.pending = buf.pending /\ mirror' = mirror
    BY <1>5, SavedKeeps DEF CleanInv
  <2>2. PendingInv'
    BY <2>1 DEF PendingInv
  <2>. QED BY <1>5, <2>2, SavedKeeps
<1>6. CASE UNCHANGED vars
  BY <1>0, <1>6, KeptStep, AnnouncedStep DEF vars
<1>. QED BY <1>1, <1>2, <1>3, <1>4, <1>5, <1>6 DEF Next

\* A file that was just read is saved, and nothing is pending.
LEMMA InitClean == Init => CleanInv /\ PendingInv
<1>. SUFFICES ASSUME Init PROVE CleanInv /\ PendingInv
  OBVIOUS
<1>1. buf = FromText(disk) /\ writes = <<>> /\ mirror = disk
  BY DEF Init
<1>. DEFINE b == FromText(disk)
            S == {b[f] : f \in Fields}
<1>2. b.version = 0 /\ b.saved = 0 /\ b.text = disk /\ b.pending = <<>>
      /\ b = [f \in Fields |-> b[f]]
  BY DEF FromText, Fields
<1>. HIDE DEF b
<1>b. b \in [Fields -> S]
  BY <1>2
<1>3. DOMAIN writes = {} /\ writes \in Seq({})
  BY <1>1
<1>4. IsRecord(b)
  <2>1. \E T : b \in [Fields -> T]
    BY <1>b
  <2>. QED BY <2>1 DEF IsRecord
<1>5. IsBuffer(b)
  BY <1>2, <1>4 DEF IsBuffer
<1>6. buf = b
  BY <1>1 DEF b
<1>7. CleanInv
  BY <1>1, <1>2, <1>3, <1>5, <1>6 DEF CleanInv, SavedBehind, WritesBehind, WritesCarryTheirText,
                                      CleanMeansOnDisk
<1>8. Replayed(mirror, buf.pending) = buf.text
  BY <1>1, <1>2, <1>6, ReplayedFacts
<1>9. buf.pending = <<>>
  BY <1>2, <1>6
<1>10. buf.pending \in Seq({})
  BY <1>9
<1>. QED BY <1>5, <1>6, <1>7, <1>8, <1>10 DEF PendingInv

\* A buffer that says it has nothing to save holds what its file holds, however saves,
\* failures, edits, undo and redo interleave (mark_saved takes the version of the bytes
\* that were written, not the buffer's).
THEOREM CleanIsOnDisk == Spec => []CleanMeansOnDisk
<1>1. CleanInv /\ PendingInv => CleanMeansOnDisk
  BY DEF CleanInv
<1>. QED BY <1>1, InitClean, NextClean, PTL DEF Spec

\* Draining neither misses nor repeats a change: the consumer's copy with what is pending
\* replayed on it is the buffer's text, undo and redo included (take_pending_changes).
THEOREM PendingChangesCatchUp == Spec => []PendingCatchesUp
<1>1. CleanInv /\ PendingInv => PendingCatchesUp
  BY DEF PendingInv, PendingCatchesUp, Replayed
<1>. QED BY <1>1, InitClean, NextClean, PTL DEF Spec
=============================================================================
