------------------------------ MODULE ChangeSet ------------------------------
(***************************************************************************)
(* The position-composable change representation of the editor crate       *)
(* (crates/editor/src/change.rs): a changeset is a complete traversal of a *)
(* document, every character retained or deleted and new text inserted     *)
(* between.  A document is a sequence of characters, a position the number *)
(* of characters before it.                                                *)
(*                                                                         *)
(* The traversals of the code walk the operations with two running         *)
(* counters, `old` and `new`.  Here the counters are the sums OldAt and    *)
(* NewAt, so each traversal becomes a statement about one operation.       *)
(***************************************************************************)
EXTENDS Integers, Sequences, SequencesExt

CONSTANT Char          \* the characters a document is made of

\* The steps of a traversal.
Retain(n) == [kind |-> "retain", n |-> n, s |-> <<>>]
Delete(n) == [kind |-> "delete", n |-> n, s |-> <<>>]
Insert(s) == [kind |-> "insert", n |-> 0, s |-> s]

Operation ==
  [kind : {"retain", "delete"}, n : Nat, s : {<<>>}] \cup
  [kind : {"insert"}, n : {0}, s : Seq(Char)]

Is(op, kind) == op.kind = kind

\* How far an operation advances in the pre-image and in the post-image.
PreLen(op)  == op.n
PostLen(op) == IF Is(op, "retain") THEN op.n ELSE Len(op.s)

\* The counters `old` and `new` on reaching operation i.
OldAt(ops, i) ==
  LET old[j \in 1 .. i] == IF j = 1 THEN 0 ELSE old[j - 1] + PreLen(ops[j - 1]) IN old[i]
NewAt(ops, i) ==
  LET new[j \in 1 .. i] == IF j = 1 THEN 0 ELSE new[j - 1] + PostLen(ops[j - 1]) IN new[i]

-----------------------------------------------------------------------------
(***************************************************************************)
(* ChangeSetBuilder: each call takes the operations so far and returns     *)
(* them in canonical form (runs merged, Delete before Insert at a          *)
(* replacement site).                                                      *)
(***************************************************************************)
EndsWith(ops, kind) == ops # <<>> /\ Is(Last(ops), kind)

AddRetain(ops, n) ==
  CASE n = 0 -> ops
    [] n > 0 /\ EndsWith(ops, "retain") -> Append(Front(ops), Retain(Last(ops).n + n))
    [] OTHER -> Append(ops, Retain(n))

\* A deletion slides in front of a trailing insertion.
AddDelete(ops, n) ==
  LET at    == IF EndsWith(ops, "insert") THEN Len(ops) - 1 ELSE Len(ops)
      front == SubSeq(ops, 1, at)
      rest  == SubSeq(ops, at + 1, Len(ops))
  IN  CASE n = 0 -> ops
        [] n > 0 /\ EndsWith(front, "delete") ->
             Append(Front(front), Delete(Last(front).n + n)) \o rest
        [] OTHER -> Append(front, Delete(n)) \o rest

AddInsert(ops, s) ==
  CASE s = <<>> -> ops
    [] s # <<>> /\ EndsWith(ops, "insert") -> Append(Front(ops), Insert(Last(ops).s \o s))
    [] OTHER -> Append(ops, Insert(s))

Consumed(ops) == OldAt(ops, Len(ops) + 1)

\* build() panics when more was consumed than the document has.
CanBuild(ops, lenBefore) == Consumed(ops) <= lenBefore

\* build() retains the unconsumed tail.
Build(ops, lenBefore) ==
  LET all == AddRetain(ops, lenBefore - Consumed(ops))
  IN  [ops |-> all, lenBefore |-> lenBefore, lenAfter |-> NewAt(all, Len(all) + 1)]

\* ChangeSet::replace: characters from..to become s.
Replace(lenBefore, from, to, s) ==
  Build(AddInsert(AddDelete(AddRetain(<<>>, from), to - from), s), lenBefore)

IsIdentity(cs) == \A i \in DOMAIN cs.ops : Is(cs.ops[i], "retain")

-----------------------------------------------------------------------------
\* The changed document.
Apply(cs, text) ==
  LET piece(i) == LET op == cs.ops[i]
                      at == OldAt(cs.ops, i)
                  IN  IF Is(op, "retain") THEN SubSeq(text, at + 1, at + op.n) ELSE op.s
  IN  FoldLeftDomain(LAMBDA out, i : out \o piece(i), <<>>, cs.ops)

\* The changeset that undoes cs, computed from the pre-image.
Invert(cs, text) ==
  LET step(ops, i) ==
        LET op == cs.ops[i]
            at == OldAt(cs.ops, i)
        IN  CASE Is(op, "retain") -> AddRetain(ops, op.n)
              [] Is(op, "delete") -> AddInsert(ops, SubSeq(text, at + 1, at + op.n))
              [] Is(op, "insert") -> AddDelete(ops, Len(op.s))
  IN  Build(FoldLeftDomain(step, <<>>, cs.ops), cs.lenAfter)

\* Mutant: an operation settles the position at its end too.
SettlesAtEnd(ops, i, pos) ==
  IF Is(ops[i], "insert") THEN pos = OldAt(ops, i) ELSE pos <= OldAt(ops, i) + ops[i].n

\* Whether operation i settles where pos goes: an insertion at pos, or a run around it.
Settles(ops, i, pos) ==
  IF Is(ops[i], "insert") THEN pos = OldAt(ops, i) ELSE pos < OldAt(ops, i) + ops[i].n

\* Where pos lands in the post-image: the first operation that settles it decides.
MapPos(cs, pos, assoc) ==
  LET ops == cs.ops
      deciding == {i \in DOMAIN ops : Settles(ops, i, pos)}
      i == Min(deciding)
  IN  IF deciding = {}
      THEN cs.lenAfter + (IF pos > cs.lenBefore THEN pos - cs.lenBefore ELSE 0)
      ELSE CASE Is(ops[i], "retain") -> NewAt(ops, i) + (pos - OldAt(ops, i))
             [] Is(ops[i], "delete") -> NewAt(ops, i)
             [] Is(ops[i], "insert") ->
                  NewAt(ops, i) + (IF assoc = "After" THEN Len(ops[i].s) ELSE 0)

\* Whether operation i deletes some of from..to.  A zero-width range is an anchor: only a
\* deletion strictly around it counts.
DeletesIn(ops, i, from, to) ==
  LET start == OldAt(ops, i)
      end == start + ops[i].n
  IN  /\ Is(ops[i], "delete")
      /\ IF from = to THEN start < from /\ from < end ELSE start < to /\ from < end

\* What cs did to from..to, a range something else is anchored to.
Touches(cs, from, to) ==
  LET ops == cs.ops
      deleted(i) == DeletesIn(ops, i, from, to)
      inside(i) == Is(ops[i], "insert") /\ from < OldAt(ops, i) /\ OldAt(ops, i) < to
  IN  CASE \E i \in DOMAIN ops : deleted(i) -> "PartlyDeleted"
        [] ~(\E i \in DOMAIN ops : deleted(i)) /\ (\E i \in DOMAIN ops : inside(i)) -> "InsertedInside"
        [] OTHER -> "Untouched"

-----------------------------------------------------------------------------
\* What is left of an operation once k of its characters are accounted for:
\* itself shortened, or the next one.
Carry(ops, k) ==
  LET op == Head(ops)
      left == IF Is(op, "insert") THEN Insert(SubSeq(op.s, k + 1, Len(op.s)))
                                  ELSE [op EXCEPT !.n = @ - k]
  IN  IF left.n = 0 /\ left.s = <<>> THEN Tail(ops) ELSE <<left>> \o Tail(ops)

\* Mutant: of an insertion that is partly retained, the whole stays.
EmitWhole(out, opA, opC, n) ==
  CASE Is(opA, "retain") /\ Is(opC, "retain") -> AddRetain(out, n)
    [] Is(opA, "retain") /\ Is(opC, "delete") -> AddDelete(out, n)
    [] Is(opA, "insert") /\ Is(opC, "retain") -> AddInsert(out, opA.s)
    [] Is(opA, "insert") /\ Is(opC, "delete") -> out

\* What n characters that opA leaves and opC then meets come to.
Emit(out, opA, opC, n) ==
  CASE Is(opA, "retain") /\ Is(opC, "retain") -> AddRetain(out, n)
    [] Is(opA, "retain") /\ Is(opC, "delete") -> AddDelete(out, n)
    [] Is(opA, "insert") /\ Is(opC, "retain") -> AddInsert(out, SubSeq(opA.s, 1, n))
    [] Is(opA, "insert") /\ Is(opC, "delete") -> out

\* One turn of compose's loop on st = [a, c, out]: the two traversals that remain
\* and the builder's operations so far.  The first two cases are tried in this
\* order, so that a deletion is never starved by a run of insertions.
ComposeStep(st) ==
  LET opA == Head(st.a)
      opC == Head(st.c)
      n == Min({Len(opA.s) + opA.n, opC.n})
      aDeletes == st.a # <<>> /\ Is(Head(st.a), "delete")
      cInserts == st.c # <<>> /\ Is(Head(st.c), "insert")
  IN  CASE aDeletes ->
             [st EXCEPT !.a = Tail(@), !.out = AddDelete(@, opA.n)]
        [] ~aDeletes /\ cInserts ->
             [st EXCEPT !.c = Tail(@), !.out = AddInsert(@, opC.s)]
        [] OTHER ->
             [a |-> Carry(st.a, n), c |-> Carry(st.c, n), out |-> Emit(st.out, opA, opC, n)]

ComposeLoop[st \in [a : Seq(Operation), c : Seq(Operation), out : Seq(Operation)]] ==
  IF st.a = <<>> /\ st.c = <<>> THEN st.out ELSE ComposeLoop[ComposeStep(st)]

\* The changeset that does cs1 and then cs2; defined when the lengths agree.
Compose(cs1, cs2) ==
  Build(ComposeLoop[[a |-> cs1.ops, c |-> cs2.ops, out |-> <<>>]], cs1.lenBefore)

\* Mutant: the span stops before the last changed operation.
ShortSpan(cs) ==
  LET changed == {i \in DOMAIN cs.ops : ~Is(cs.ops[i], "retain")}
  IN  IF changed = {} THEN {}
      ELSE {[beforeStart |-> OldAt(cs.ops, Min(changed)),
             beforeEnd   |-> OldAt(cs.ops, Max(changed)),
             afterStart  |-> NewAt(cs.ops, Min(changed)),
             afterEnd    |-> NewAt(cs.ops, Max(changed))]}

\* The minimal span a changeset replaces, in both images; {} for an identity.
ChangedSpan(cs) ==
  LET changed == {i \in DOMAIN cs.ops : ~Is(cs.ops[i], "retain")}
  IN  IF changed = {} THEN {}
      ELSE {[beforeStart |-> OldAt(cs.ops, Min(changed)),
             beforeEnd   |-> OldAt(cs.ops, Max(changed) + 1),
             afterStart  |-> NewAt(cs.ops, Min(changed)),
             afterEnd    |-> NewAt(cs.ops, Max(changed) + 1)]}
=============================================================================
