---------------------------- MODULE EditorBuffer ----------------------------
(***************************************************************************)
(* One open buffer under everything that edits it: the keyboard, other     *)
(* sources (an accepted proposal, a language server, replace-all), undo    *)
(* and redo, cursor moves, asynchronous saves through the filesystem       *)
(* worker, and the document-sync drain.  The operations are those of       *)
(* TextBuffer; this module adds who calls them and when.                   *)
(***************************************************************************)
EXTENDS TextBuffer, FiniteSets

CONSTANTS KeyText,         \* what the keyboard inserts: texts
          OtherText,       \* what the other sources insert: texts
          Origins,         \* documents a file can hold when it is opened
          MaxLen,          \* bound on the document
          MaxVersion,      \* bound on the revisions
          MaxWrites,       \* bound on the saves in flight
          MaxGroups,       \* bound on the undo groups handed out
          MaxPending,      \* bound on the changes one handler makes before it drains
          Selections,      \* the selections tried, as pairs <<anchor, head>>
          MaxDecorations   \* bound on the overlays placed

ASSUME BufferAssumption ==
  /\ Keyboard \in Sources /\ NoSource \notin Sources
  /\ {MaxLen, MaxVersion, MaxWrites, MaxGroups, MaxPending, MaxDecorations} \subseteq Nat

VARIABLES
  buf,        \* the Buffer
  disk,       \* contents of its file
  writes,     \* WriteFile requests at the worker, oldest first
  mirror,     \* the document as the last take_pending_changes left its consumer
  typing      \* the last thing that happened was typing, with no boundary since

vars == <<buf, disk, writes, mirror, typing>>

Init ==
  /\ disk \in Origins
  /\ buf = FromText(disk)
  /\ writes = <<>>
  /\ mirror = disk
  /\ typing = FALSE

Editing ==
  /\ buf.version < MaxVersion
  /\ buf.nextGroup < MaxGroups
  /\ Len(buf.pending) < MaxPending

\* Whether an edit was recorded, and not refused or empty.
Recorded == buf'.version # buf.version

Type(s) ==
  /\ Editing /\ Len(buf.text) + Len(s) <= MaxLen
  /\ buf' = InsertText(buf, s, Keyboard)
  /\ typing' = (Recorded \/ typing)
  /\ UNCHANGED <<disk, writes, mirror>>

Backspace ==
  /\ Editing
  /\ buf' = DeleteBackward(buf)
  /\ typing' = (Recorded \/ typing)
  /\ UNCHANGED <<disk, writes, mirror>>

ForwardDelete ==
  /\ Editing
  /\ buf' = DeleteForward(buf)
  /\ typing' = (Recorded \/ typing)
  /\ UNCHANGED <<disk, writes, mirror>>

\* An edit elsewhere in the document: agent hunk, language-server edit, replace.
EditElsewhere(from, to, s, source) ==
  /\ Editing /\ source # Keyboard
  /\ from <= to /\ to <= Len(buf.text) /\ Len(buf.text) + Len(s) <= MaxLen
  /\ buf' = EditRange(buf, from, to, s, source)
  /\ typing' = (typing /\ ~Recorded)
  /\ UNCHANGED <<disk, writes, mirror>>

MoveCursor(anchor, head) ==
  /\ {anchor, head} \subseteq 0 .. Len(buf.text)
  /\ buf' = SetSelection(buf, anchor, head)
  /\ typing' = FALSE
  /\ UNCHANGED <<disk, writes, mirror>>

UndoEdit ==
  /\ Editing
  /\ buf' = Undo(buf)
  /\ typing' = (typing /\ ~Recorded)
  /\ UNCHANGED <<disk, writes, mirror>>

RedoEdit ==
  /\ Editing
  /\ buf' = Redo(buf)
  /\ typing' = (typing /\ ~Recorded)
  /\ UNCHANGED <<disk, writes, mirror>>

\* Model::save_active_buffer: the version travels with the bytes.
RequestSave ==
  /\ IsDirty(buf)
  /\ Len(writes) < MaxWrites
  /\ writes' = Append(writes, [version |-> buf.version, contents |-> buf.text])
  /\ UNCHANGED <<buf, disk, mirror, typing>>

\* The worker writes and reports; the report finds the buffer as it is by then.
SaveSucceeds ==
  /\ writes # <<>>
  /\ disk' = Head(writes).contents
  /\ buf' = MarkSaved(buf, Head(writes).version)
  /\ writes' = Tail(writes)
  /\ typing' = FALSE
  /\ UNCHANGED mirror

\* FileFailed for a save leaves the buffer as it was.
SaveFails ==
  /\ writes # <<>>
  /\ writes' = Tail(writes)
  /\ UNCHANGED <<buf, disk, mirror, typing>>

\* sync_lsp_documents drains the changes and replays them on its copy.
TakePendingChanges ==
  /\ buf.pending # <<>>
  /\ mirror' = FoldLeft(LAMBDA doc, cs : Apply(cs, doc), mirror, buf.pending)
  /\ buf' = [buf EXCEPT !.pending = <<>>]
  /\ UNCHANGED <<disk, writes, typing>>

\* A producer places an overlay over from..to.  `covers` remembers the text
\* under it and is read by the properties only.
PlaceDecoration(class, from, to) ==
  /\ from <= to /\ to <= Len(buf.text)
  /\ Cardinality(buf.decorations) < MaxDecorations
  /\ buf' = [buf EXCEPT !.decorations = @ \cup
               {[class |-> class, start |-> from, end |-> to, state |-> "Clean",
                 covers |-> SubSeq(buf.text, from + 1, to)]}]
  /\ UNCHANGED <<disk, writes, mirror, typing>>

Next ==
  \/ \E s \in KeyText : Type(s)
  \/ Backspace
  \/ ForwardDelete
  \/ \E from, to \in 0 .. MaxLen, s \in OtherText, source \in Sources :
       EditElsewhere(from, to, s, source)
  \/ \E sel \in Selections : MoveCursor(sel[1], sel[2])
  \/ UndoEdit
  \/ RedoEdit
  \/ RequestSave
  \/ SaveSucceeds
  \/ SaveFails
  \/ TakePendingChanges
  \/ \E class \in {"hunk", "derived"}, from, to \in 0 .. MaxLen :
       PlaceDecoration(class, from, to)

Spec == Init /\ [][Next]_vars

-----------------------------------------------------------------------------
Documents == BoundedSeq(Char, MaxLen)

TypeOK ==
  /\ buf.text \in Documents
  /\ buf.version \in 0 .. MaxVersion
  /\ buf.saved \in 0 .. MaxVersion
  /\ {buf.anchor, buf.head} \subseteq 0 .. Len(buf.text)
  /\ buf.lastSource \in Sources \cup {NoSource}
  /\ buf.broken \in BOOLEAN
  /\ Len(writes) <= MaxWrites
  /\ typing \in BOOLEAN

-----------------------------------------------------------------------------
(***************************************************************************)
(* The refinement: the documents the log would lead to, one for each undo  *)
(* group.  Walk replays a log from its top, change by change.              *)
(***************************************************************************)
Walk(doc, changes) ==
  LET at[k \in 0 .. Len(changes)] ==
        IF k = 0 THEN doc ELSE Apply(changes[Len(changes) - k + 1], at[k - 1])
  IN  at

\* The positions in a log where a group begins, in log order.
GroupStarts(log) ==
  SetToSortSeq({i \in DOMAIN log : i = 1 \/ log[i].group # log[i - 1].group}, <)

StepsOf(doc, log, changes) ==
  LET starts == GroupStarts(log)
      at == Walk(doc, changes)
  IN  [k \in DOMAIN starts |-> at[Len(log) - starts[k] + 1]]

Past   == StepsOf(buf.text, buf.applied, [i \in DOMAIN buf.applied |-> buf.applied[i].inverse])
Future == StepsOf(buf.text, buf.undone, [i \in DOMAIN buf.undone |-> buf.undone[i].forward])

Undoable == INSTANCE UndoSteps WITH past <- Past, present <- buf.text, future <- Future

\* The log of changesets, groups and inverses behaves as a stack of documents:
\* one undo takes back exactly the last step, whoever made it, a run of typing
\* is one step, neither split nor joined with the step before, and ends at a cursor
\* move, a save, an undo or an edit by someone else, and redo returns what undo took
\* (History, Buffer::undo, Buffer::redo).
ImplementsUndoSteps == Undoable!UndoSpec

\* A buffer that says it has nothing to save holds what its file holds, however
\* saves, failures, edits and undo interleave (mark_saved takes the version of
\* the bytes that were written, not the buffer's).
CleanMeansOnDisk == ~IsDirty(buf) => buf.text = disk

\* Draining never misses or repeats a change: the consumer's copy plus what is
\* pending is the buffer, undo and redo included (take_pending_changes, ADR-0011).
PendingCatchesUp ==
  FoldLeft(LAMBDA doc, cs : Apply(cs, doc), mirror, buf.pending) = buf.text

\* A hunk marker that still reads clean lies over the text it was placed on, after
\* any number of edits, undos and redos (DecorationSet::map, touches).
CleanMarkerCoversItsText ==
  \A d \in buf.decorations :
    d.class = "hunk" /\ d.state = "Clean" =>
      IsPrefix(d.covers, SubSeq(buf.text, d.start + 1, d.end))

=============================================================================
