----------------------------- MODULE TextBuffer -----------------------------
(***************************************************************************)
(* The editor's Buffer (crates/editor/src/buffer.rs) with its linear undo  *)
(* log (history.rs) and its overlays (decoration.rs), as operators on one  *)
(* record, so that the specifications that own a buffer can compose them.  *)
(* Viewport, sticky column and line endings are not part of the record.    *)
(***************************************************************************)
EXTENDS ChangeSet

CONSTANTS Sources,     \* EditSource: who made an edit
          Keyboard     \* the one source whose edits coalesce

NoSource == "none"

\* Buffer::from_text: a document just read from disk, or the reload of one.
FromText(t) ==
  [text |-> t, version |-> 0, saved |-> 0,
   anchor |-> 0, head |-> 0,
   applied |-> <<>>, undone |-> <<>>,
   nextGroup |-> 0, lastSource |-> NoSource, broken |-> FALSE,
   decorations |-> {}, pending |-> <<>>]

IsDirty(b) == b.saved # b.version

SelStart(b) == Min({b.anchor, b.head})
SelEnd(b)   == Max({b.anchor, b.head})

-----------------------------------------------------------------------------
\* Mutant: only a deletion conflicts.
MapDecorationOnDelete(d, cs) ==
  [d EXCEPT !.start = MapPos(cs, d.start, "After"),
            !.end   = MapPos(cs, d.end, "After"),
            !.state = IF d.class = "hunk" /\ Touches(cs, d.start, d.end) = "PartlyDeleted"
                      THEN "Conflicted" ELSE @]

\* DecorationSet::map: a pending hunk whose range was disturbed conflicts and
\* stays, a derived span is dropped, everything else rides the edit.
MapDecoration(d, cs) ==
  [d EXCEPT !.start = MapPos(cs, d.start, "After"),
            !.end   = MapPos(cs, d.end, "After"),
            !.state = IF d.class = "hunk" /\ Touches(cs, d.start, d.end) # "Untouched"
                      THEN "Conflicted" ELSE @]

MapDecorations(ds, cs) ==
  {MapDecoration(d, cs) :
     d \in {e \in ds : e.class = "hunk" \/ Touches(cs, e.start, e.end) = "Untouched"}}

-----------------------------------------------------------------------------
\* Mutant: no source coalesces, so every keystroke is a step of its own.
ContinuesNever(b, source) == FALSE

\* History::group_for: a run of typing continues, anything else starts afresh.
Continues(b, source) ==
  /\ ~b.broken
  /\ source = Keyboard
  /\ b.lastSource = source
  /\ b.applied # <<>>

GroupFor(b, source) ==
  IF Continues(b, source) THEN Last(b.applied).group ELSE b.nextGroup + 1

\* A group is spent when it is handed out, even if nothing is recorded under it.
SpendGroup(b, source) ==
  [b EXCEPT !.nextGroup = IF Continues(b, source) THEN @ ELSE @ + 1]

BreakGroup(b) == [b EXCEPT !.broken = TRUE]

\* What every change of the text carries along: Buffer::apply and Buffer::replay
\* agree on this part.
Advance(b, cs) ==
  [b EXCEPT !.text = Apply(cs, @),
            !.version = @ + 1,
            !.anchor = MapPos(cs, @, "After"),
            !.head = MapPos(cs, @, "After"),
            !.decorations = MapDecorations(@, cs),
            !.pending = Append(@, cs)]

\* Buffer::transaction then Buffer::apply, with History::push.  The length check
\* refuses a changeset written for another document; an identity records nothing.
Edit(b, cs, source) ==
  LET spent == SpendGroup(b, source)
  IN  IF cs.lenBefore # Len(b.text) \/ IsIdentity(cs)
      THEN spent
      ELSE [Advance(spent, cs) EXCEPT
              !.undone = <<>>,
              !.broken = FALSE,
              !.lastSource = source,
              !.applied = Append(@, [group   |-> GroupFor(b, source),
                                     forward |-> cs,
                                     inverse |-> Invert(cs, b.text)])]

\* Buffer::edit at a character range.
EditRange(b, from, to, s, source) == Edit(b, Replace(Len(b.text), from, to, s), source)

\* Buffer::insert, delete_backward and delete_forward act on the selection.
InsertText(b, s, source) == EditRange(b, SelStart(b), SelEnd(b), s, source)

DeleteBackward(b) ==
  CASE b.anchor # b.head -> EditRange(b, SelStart(b), SelEnd(b), <<>>, Keyboard)
    [] b.anchor = b.head /\ b.head = 0 -> b
    [] OTHER -> EditRange(b, b.head - 1, b.head, <<>>, Keyboard)

DeleteForward(b) ==
  CASE b.anchor # b.head -> EditRange(b, SelStart(b), SelEnd(b), <<>>, Keyboard)
    [] b.anchor = b.head /\ b.head >= Len(b.text) -> b
    [] OTHER -> EditRange(b, b.head, b.head + 1, <<>>, Keyboard)

\* Buffer::set_selection and every cursor motion.
SetSelection(b, anchor, head) == BreakGroup([b EXCEPT !.anchor = anchor, !.head = head])

\* Mutant: whatever the buffer holds by now counts as written.
MarkSavedNow(b, version) == BreakGroup([b EXCEPT !.saved = b.version])

\* Buffer::mark_saved, when the worker reports the write of that version.
MarkSaved(b, version) == BreakGroup([b EXCEPT !.saved = version])

-----------------------------------------------------------------------------
\* The entries of the group on top of a log, in log order.
TopGroup(log) ==
  LET first == CHOOSE i \in DOMAIN log :
                 /\ \A j \in i .. Len(log) : log[j].group = Last(log).group
                 /\ i > 1 => log[i - 1].group # Last(log).group
  IN  SubSeq(log, first, Len(log))

BelowTop(log) == SubSeq(log, 1, Len(log) - Len(TopGroup(log)))

\* The changes of a nonempty sequence as one, first to last.
ComposeAll(changes) ==
  FoldLeft(Compose, Head(changes), Tail(changes))

\* Mutant: a replayed change is not announced to document sync.
ReplayUnannounced(b, cs) ==
  [Advance(b, cs) EXCEPT !.broken = TRUE, !.lastSource = NoSource, !.pending = b.pending]

\* A replayed change is not recorded again, and typing must not rejoin its group.
Replay(b, cs) ==
  [Advance(b, cs) EXCEPT !.broken = TRUE, !.lastSource = NoSource]

\* Buffer::undo, History::undo: the newest group, newest entry first.
Undo(b) ==
  LET entries == Reverse(TopGroup(b.applied))
      change  == ComposeAll([i \in DOMAIN entries |-> entries[i].inverse])
  IN  IF b.applied = <<>> THEN b
      ELSE [Replay(b, change) EXCEPT !.applied = BelowTop(b.applied),
                                     !.undone = b.undone \o entries]

\* Buffer::redo, History::redo: the last group undone, in its original order.
Redo(b) ==
  LET entries == Reverse(TopGroup(b.undone))
      change  == ComposeAll([i \in DOMAIN entries |-> entries[i].forward])
  IN  IF b.undone = <<>> THEN b
      ELSE [Replay(b, change) EXCEPT !.undone = BelowTop(b.undone),
                                     !.applied = b.applied \o entries]
=============================================================================
