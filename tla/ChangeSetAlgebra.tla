-------------------------- MODULE ChangeSetAlgebra --------------------------
(***************************************************************************)
(* Every sequence of calls a client can make to a ChangeSetBuilder over    *)
(* every small document, and what the built changeset must satisfy.  The   *)
(* variable `out` is the reference: the document the calls describe,       *)
(* written down call by call with no canonical form and no traversal.      *)
(***************************************************************************)
EXTENDS ChangeSet, FiniteSets

CONSTANTS MaxLen,      \* bound on the length of the document
          MaxCalls,    \* bound on the builder calls
          MaxComposed  \* bound on the document under a composed change, and half its calls

ASSUME AlgebraAssumption == {MaxLen, MaxCalls, MaxComposed} \subseteq Nat

VARIABLES
  text,                \* the document the builder was opened for
  ops,                 \* ChangeSetBuilder.ops
  out,                 \* the reference output of the calls so far
  calls                \* number of calls made

vars == <<text, ops, out, calls>>

Init ==
  /\ text \in BoundedSeq(Char, MaxLen)
  /\ ops = <<>>
  /\ out = <<>>
  /\ calls = 0

Remaining == Len(text) - Consumed(ops)

CallRetain(n) ==
  /\ calls < MaxCalls
  /\ n <= Remaining
  /\ ops' = AddRetain(ops, n)
  /\ out' = out \o SubSeq(text, Consumed(ops) + 1, Consumed(ops) + n)
  /\ calls' = calls + 1
  /\ UNCHANGED text

CallDelete(n) ==
  /\ calls < MaxCalls
  /\ n <= Remaining
  /\ ops' = AddDelete(ops, n)
  /\ calls' = calls + 1
  /\ UNCHANGED <<text, out>>

CallInsert(s) ==
  /\ calls < MaxCalls
  /\ ops' = AddInsert(ops, s)
  /\ out' = out \o s
  /\ calls' = calls + 1
  /\ UNCHANGED text

Next ==
  \/ \E n \in 0 .. MaxLen : CallRetain(n)
  \/ \E n \in 0 .. MaxLen : CallDelete(n)
  \/ \E s \in BoundedSeq(Char, 1) : CallInsert(s)

Spec == Init /\ [][Next]_vars

-----------------------------------------------------------------------------
cs == Build(ops, Len(text))
After == Apply(cs, text)

\* The document whose characters are their own positions, so that a character
\* of the post-image tells where it came from.  Inserted characters are blanked.
Traced(c) ==
  LET blank == [i \in DOMAIN c.ops |->
                  IF Is(c.ops[i], "insert")
                  THEN Insert([j \in DOMAIN c.ops[i].s |-> -1]) ELSE c.ops[i]]
  IN  Apply([c EXCEPT !.ops = blank], [i \in 1 .. c.lenBefore |-> i - 1])

\* Changesets of up to two replacements over a document of len characters.
SpanOf(acc, r, d, s) == AddInsert(AddDelete(AddRetain(acc, r), d), s)
TwoSpans(len) ==
  {Build(SpanOf(SpanOf(<<>>, x[1], x[2], x[3]), x[4], x[5], x[6]), len) :
     x \in {y \in (0 .. len) \X (0 .. len) \X BoundedSeq(Char, 1)
                 \X (0 .. len) \X (0 .. len) \X BoundedSeq(Char, 1) :
              y[1] + y[2] + y[4] + y[5] <= len}}
OneSpan(len) ==
  {Replace(len, r[1], r[2], s) : r \in {q \in (0 .. len) \X (0 .. len) : q[1] <= q[2]},
                                 s \in BoundedSeq(Char, 1)}

Canonical(c) ==
  /\ \A i \in DOMAIN c.ops : c.ops[i].n + Len(c.ops[i].s) > 0
  /\ \A i \in 1 .. Len(c.ops) - 1 :
       /\ c.ops[i].kind # c.ops[i + 1].kind
       /\ ~(Is(c.ops[i], "insert") /\ Is(c.ops[i + 1], "delete"))
  /\ c.lenBefore = OldAt(c.ops, Len(c.ops) + 1)
  /\ c.lenAfter = NewAt(c.ops, Len(c.ops) + 1)

Composed == Len(text) <= MaxComposed /\ calls <= 2 * MaxComposed

\* compose is "apply self and then other" for every second change, in canonical
\* form, and a change composed with its inverse changes nothing.
ComposeIsSequential ==
  Composed =>
  /\ \A b \in TwoSpans(Len(After)) :
       /\ Apply(Compose(cs, b), text) = Apply(b, After)
       /\ Canonical(Compose(cs, b))
  /\ Apply(Compose(cs, Invert(cs, text)), text) = text

\* map_pos follows the text: a retained character is found at its mapped
\* position, a deleted one collapses to where its deletion starts, and order is
\* kept on both sides of an insertion.
MapPosFollowsText ==
  LET post == Traced(cs)
      map(p, assoc) == MapPos(cs, p, assoc)
      kept == ToSet(post)
  IN  /\ \A p \in 0 .. Len(text) - 1 :
           p \in kept => post[map(p, "After") + 1] = p
      /\ \A p \in 0 .. Len(text) : map(p, "Before") <= map(p, "After")
      /\ \A p, q \in 0 .. Len(text) : p < q => map(p, "After") <= map(q, "Before")
      /\ \A p \in 0 .. Len(text) : map(p, "After") \in 0 .. cs.lenAfter

\* changed_span bounds the change (one didChange event replays it): outside the
\* span both images agree, and replacing the span by its post-image gives the
\* changed document.
ChangedSpanReplays ==
  \A span \in ChangedSpan(cs) :
    /\ SubSeq(text, 1, span.beforeStart)
         \o SubSeq(After, span.afterStart + 1, span.afterEnd)
         \o SubSeq(text, span.beforeEnd + 1, Len(text)) = After
    /\ span.beforeStart = span.afterStart

\* Whatever the order of the calls, the built changeset is canonical and still
\* means what was asked for: sliding a Delete in front of an Insert and merging
\* runs lose nothing (ChangeSetBuilder, apply).
BuiltAsCalled ==
  /\ Canonical(cs)
  /\ After = out \o SubSeq(text, Consumed(ops) + 1, Len(text))

\* Undo is exact (ADR-0006 section 6): the inverse computed from the pre-image
\* restores it, and inverting twice gives back the same changeset.
InvertRoundTrips ==
  LET inv == Invert(cs, text)
  IN  /\ Canonical(inv)
      /\ Apply(inv, After) = text
      /\ Invert(inv, After) = cs

\* Folding a run of edits does not depend on how they are grouped: the undo log
\* composes a group newest first, redo oldest first.
ComposeAssociates ==
  Composed =>
  \A b \in OneSpan(Len(After)) :
    \A c \in OneSpan(b.lenAfter) :
      LET left  == Compose(Compose(cs, b), c)
          right == Compose(cs, Compose(b, c))
      IN  Apply(left, text) = Apply(right, text) /\ left.lenAfter = right.lenAfter

\* touches is exact: it says Untouched precisely when the text of the range is
\* still there, whole and alone, between its two ends mapped inwards.
UntouchedMeansIntact ==
  LET post == Traced(cs)
  IN  \A from, to \in 0 .. Len(text) :
        from < to =>
          (Touches(cs, from, to) = "Untouched" <=>
             SubSeq(post, MapPos(cs, from, "After") + 1, MapPos(cs, to, "Before"))
               = [i \in 1 .. to - from |-> from + i - 1])

\* A zero-width range is an anchor: it is gone precisely when the characters on both
\* sides of it are, and an insertion there is beside it, not in it.
AnchorStandsByWhatIsKept ==
  LET kept == ToSet(Traced(cs))
  IN  \A p \in 0 .. Len(text) :
        Touches(cs, p, p) = IF p \in {0, Len(text)} \/ {p - 1, p} \cap kept # {}
                            THEN "Untouched" ELSE "PartlyDeleted"

\* What the undo log and redo rest on: a changeset means what was asked for, its
\* inverse takes it back exactly, and folding changesets is doing them in turn,
\* however they are grouped (ChangeSetBuilder, invert, compose).
AlgebraIsSound ==
  /\ BuiltAsCalled
  /\ InvertRoundTrips
  /\ ComposeIsSequential
  /\ ComposeAssociates

\* What carets, decorations and the language server are told of a change is what
\* it did to the text (map_pos, touches, changed_span).
ReportsFollowText ==
  /\ MapPosFollowsText
  /\ UntouchedMeansIntact
  /\ AnchorStandsByWhatIsKept
  /\ ChangedSpanReplays

=============================================================================
