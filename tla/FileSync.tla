------------------------------ MODULE FileSync ------------------------------
(***************************************************************************)
(* A file and the buffers open on it, kept in step through the filesystem  *)
(* worker: opening, saving, re-reading when the watcher reports a change,  *)
(* closing, and the crash-recovery draft that mirrors unsaved work         *)
(* (crates/app/src/model.rs, crates/filesystem/src/worker.rs, watch.rs).   *)
(*                                                                         *)
(* The main loop, the worker and the watcher are three threads: requests   *)
(* wait in `queue` in order, and events from the worker and the watcher    *)
(* share the loop's channel.  Text is an opaque value here; EditorBuffer   *)
(* has what happens inside it.                                             *)
(***************************************************************************)
EXTENDS Naturals, Sequences, SequencesExt, FiniteSets

CONSTANTS Text,          \* what a document can hold
          NoText,        \* no draft file
          MaxVersion,    \* bound on the edits of a buffer
          MaxId,         \* bound on the buffer ids handed out in one run of the program
          MaxWrites,     \* bound on the writes by other programs
          MaxQueue,      \* bound on the requests waiting when the human adds one
          MaxEvents,     \* capacity of the loop's channel: a full one blocks its producers
          MaxCrashes     \* bound on the crashes

ASSUME FileSyncAssumption ==
  /\ NoText \notin Text
  /\ {MaxVersion, MaxId, MaxWrites, MaxQueue, MaxEvents, MaxCrashes} \subseteq Nat

VARIABLES
  disk,           \* contents of the file
  draft,          \* contents of its draft file, or NoText
  buffers,        \* the buffers open on the file, in tab order
  nextId,         \* Model.next_buffer_id
  opening,        \* Model.opening: ids of first reads in flight
  queue,          \* FsRequests the worker has not served
  events,         \* FsEvents the loop has not absorbed
  touched,        \* the watcher holds a batch with this file in it
  draftVersion,   \* Model.draft_versions: a set of at most one version
  deadline,       \* Model.draft_deadline is set
  draftWrites,    \* Model.pending_draft_writes
  known,          \* the file is in Model.known_drafts
  offered,        \* the recovery overlay is up
  others,         \* writes by other programs so far
  crashes,        \* crashes so far
  told,           \* the human was told of a failure since the last edit
  harm            \* history: what re-reads did, "work" replaced and a closed "tab" brought back

vars == <<disk, draft, buffers, nextId, opening, queue, events, touched, draftVersion,
          deadline, draftWrites, known, offered, others, crashes, told, harm>>

recovery == <<draftVersion, deadline, draftWrites, known, offered>>
outside  == <<disk, draft, touched, others, crashes>>

\* Buffer::from_text
Fresh(id, t) == [id |-> id, text |-> t, version |-> 0, saved |-> 0]

IsDirty(b) == b.saved # b.version

\* Buffer::mark_saved
MarkSaved(b, version) == [b EXCEPT !.saved = version]

\* The buffers with unsaved work, and the last of them in tab order: its version and
\* its text are those that a map keyed by the path keeps.
DirtyAt(bs) == {i \in DOMAIN bs : IsDirty(bs[i])}
LastDirty(bs) == bs[CHOOSE i \in DirtyAt(bs) : \A j \in DirtyAt(bs) : j <= i]

Indices(id) == {i \in DOMAIN buffers : buffers[i].id = id}

\* Mutant: the debounce starts only when the buffer becomes dirty.
SyncFirstDraft(bs, seen) ==
  LET now == IF DirtyAt(bs) = {} THEN {} ELSE {LastDirty(bs).version}
  IN  /\ draftVersion' = now
      /\ deadline' = (now # {} /\ (deadline \/ seen = {}))

\* sync_drafts_at, at the end of every command, keystroke and reload: the debounce
\* starts again when a dirty buffer shows a version it has not seen.
SyncDrafts(bs, seen) ==
  LET now == IF DirtyAt(bs) = {} THEN {} ELSE {LastDirty(bs).version}
  IN  /\ draftVersion' = now
      /\ deadline' = (now # {} /\ (deadline \/ now # seen))

\* A read of this buffer is queued, or its result is on its way.
Rereading(id) ==
  \/ \E i \in DOMAIN queue : queue[i].op = "ReadFile" /\ queue[i].id = id
  \/ \E i \in DOMAIN events : events[i].op = "FileLoaded" /\ events[i].id = id

-----------------------------------------------------------------------------
Init ==
  /\ disk \in Text
  /\ draft = NoText
  /\ buffers = <<>> /\ nextId = 0 /\ opening = {}
  /\ queue = <<>> /\ events = <<>> /\ touched = FALSE
  /\ draftVersion = {} /\ deadline = FALSE /\ draftWrites = {}
  /\ known = FALSE /\ offered = FALSE
  /\ others = 0 /\ crashes = 0 /\ told = FALSE
  /\ harm = {}

Room == Len(queue) < MaxQueue

\* open_file, when it is not open and not being opened.
OpenFile ==
  /\ ~offered
  /\ buffers = <<>> /\ opening = {} /\ nextId < MaxId /\ Room
  /\ nextId' = nextId + 1
  /\ opening' = {nextId + 1}
  /\ queue' = Append(queue, [op |-> "ReadFile", id |-> nextId + 1])
  /\ UNCHANGED <<buffers, events, recovery, outside, told, harm>>

\* type_char and every other edit: the text changes, the version grows.
TypeText(i, t) ==
  /\ ~offered
  /\ buffers[i].version < MaxVersion /\ t # buffers[i].text
  /\ buffers' = [buffers EXCEPT ![i].text = t, ![i].version = @ + 1]
  /\ SyncDrafts(buffers', draftVersion)
  /\ told' = FALSE
  /\ UNCHANGED <<nextId, opening, queue, events, draftWrites, known, offered, outside, harm>>

\* save_active_buffer: the version travels with the bytes.
SaveActiveBuffer(i) ==
  /\ ~offered
  /\ IsDirty(buffers[i]) /\ Room
  /\ queue' = Append(queue, [op |-> "WriteFile", id |-> buffers[i].id,
                             version |-> buffers[i].version, text |-> buffers[i].text])
  /\ SyncDrafts(buffers, draftVersion)
  /\ UNCHANGED <<buffers, nextId, opening, events, draftWrites, known, offered, outside, told, harm>>

\* close_tab, confirmed when there was unsaved work, and discard_buffer.
CloseTab(i) ==
  /\ ~offered
  /\ buffers' = RemoveAt(buffers, i)
  /\ SyncDrafts(buffers', draftVersion)
  /\ UNCHANGED <<nextId, opening, queue, events, draftWrites, known, offered, outside, told, harm>>

\* Any other command, a cursor move say: dispatch still ends in the drafts.
OtherCommand ==
  /\ ~offered
  /\ SyncDrafts(buffers, draftVersion)
  /\ UNCHANGED <<buffers, nextId, opening, queue, events, draftWrites, known, offered, outside, told, harm>>

\* queue_due_drafts, when the debounce has run out.
QueueDueDrafts ==
  /\ deadline
  /\ deadline' = FALSE
  /\ IF DirtyAt(buffers) = {}
     THEN UNCHANGED <<queue, nextId, draftWrites>>
     ELSE /\ Room /\ nextId < MaxId
          /\ nextId' = nextId + 1
          /\ draftWrites' = draftWrites \cup {nextId + 1}
          /\ queue' = Append(queue, [op |-> "WriteDraft", id |-> nextId + 1,
                                     version |-> LastDirty(buffers).version,
                                     text |-> LastDirty(buffers).text])
  /\ UNCHANGED <<buffers, opening, events, draftVersion, known, offered, outside, told, harm>>

-----------------------------------------------------------------------------
\* The worker serves one request and reports it.  The 100 ms the watcher gathers
\* its batch for outlast the report of the write that touched the file.
ServeRequest ==
  /\ queue # <<>> /\ Len(events) < MaxEvents
  /\ queue' = Tail(queue)
  /\ LET r == Head(queue)
     IN  \/ /\ r.op = "ReadFile"
            /\ events' = Append(events, [op |-> "FileLoaded", id |-> r.id, text |-> disk])
            /\ UNCHANGED <<disk, draft, touched>>
         \/ /\ r.op = "WriteFile"
            /\ disk' = r.text /\ touched' = TRUE
            /\ events' = Append(events, [op |-> "FileSaved", id |-> r.id, version |-> r.version])
            /\ UNCHANGED draft
         \/ /\ r.op = "WriteDraft"
            /\ draft' = r.text
            /\ events' = Append(events, [op |-> "FileSaved", id |-> r.id, version |-> r.version])
            /\ UNCHANGED <<disk, touched>>
         \/ /\ r.op = "RemoveDraft"
            /\ draft' = NoText
            /\ UNCHANGED <<disk, touched, events>>
  /\ UNCHANGED <<buffers, nextId, opening, recovery, others, crashes, told, harm>>

\* The disk refuses a read or a write.
RefuseRequest ==
  /\ queue # <<>> /\ Len(events) < MaxEvents /\ Head(queue).op # "RemoveDraft"
  /\ queue' = Tail(queue)
  /\ events' = Append(events, [op |-> "FileFailed", id |-> Head(queue).id])
  /\ UNCHANGED <<buffers, nextId, opening, recovery, outside, told, harm>>

\* The coalescer releases its batch.
ReportChange ==
  /\ touched /\ Len(events) < MaxEvents
  /\ touched' = FALSE
  /\ events' = Append(events, [op |-> "Changed"])
  /\ UNCHANGED <<disk, draft, buffers, nextId, opening, queue, recovery, others, crashes, told, harm>>

\* Another program writes the file.
WrittenByOther(t) ==
  /\ others < MaxWrites /\ t # disk
  /\ disk' = t /\ touched' = TRUE /\ others' = others + 1
  /\ UNCHANGED <<draft, buffers, nextId, opening, queue, events, recovery, crashes, told, harm>>

-----------------------------------------------------------------------------

\* on_fs_event, FileLoaded: a buffer with that id is replaced in place, whatever it
\* holds by now; with none the file is opened.
OnFileLoaded ==
  /\ events # <<>> /\ Head(events).op = "FileLoaded"
  /\ LET e == Head(events)
         at == Indices(e.id)
     IN  /\ buffers' = IF at # {} THEN [i \in DOMAIN buffers |->
                                          IF i \in at THEN Fresh(e.id, e.text) ELSE buffers[i]]
                       ELSE Append(buffers, Fresh(e.id, e.text))
         /\ opening' = opening \ {e.id}
         /\ harm' = harm \cup (IF at \cap DirtyAt(buffers) # {} THEN {"work"} ELSE {})
                         \cup (IF at = {} /\ e.id \notin opening THEN {"tab"} ELSE {})
  /\ events' = Tail(events)
  /\ SyncDrafts(buffers', draftVersion)
  /\ UNCHANGED <<nextId, queue, draftWrites, known, offered, outside, told>>

\* on_fs_event, FileSaved: of a draft, or of the file, which clears the draft.
OnFileSaved ==
  /\ events # <<>> /\ Head(events).op = "FileSaved"
  /\ LET e == Head(events)
         at == Indices(e.id)
     IN  \/ /\ e.id \in draftWrites
            /\ draftWrites' = draftWrites \ {e.id}
            /\ known' = TRUE
            /\ UNCHANGED <<buffers, queue, draftVersion>>
         \/ /\ e.id \notin draftWrites /\ at = {}
            /\ UNCHANGED <<buffers, queue, draftVersion, draftWrites, known>>
         \/ /\ e.id \notin draftWrites /\ at # {}
            /\ buffers' = [i \in DOMAIN buffers |->
                 IF i \in at THEN MarkSaved(buffers[i], e.version) ELSE buffers[i]]
            /\ draftVersion' = {}
            /\ known' = FALSE
            /\ queue' = IF known THEN Append(queue, [op |-> "RemoveDraft"]) ELSE queue
            /\ UNCHANGED draftWrites
  /\ events' = Tail(events)
  /\ UNCHANGED <<nextId, opening, deadline, offered, outside, told, harm>>

\* on_fs_event, FileFailed: nothing changes but what was waiting, and the human is told.
OnFileFailed ==
  /\ events # <<>> /\ Head(events).op = "FileFailed"
  /\ events' = Tail(events)
  /\ draftWrites' = draftWrites \ {Head(events).id}
  /\ opening' = opening \ {Head(events).id}
  /\ told' = TRUE
  /\ UNCHANGED <<buffers, nextId, queue, draftVersion, deadline, known, offered, outside, harm>>

\* Mutant: only the tree hears of the change.
OnChangedTreeOnly ==
  /\ events # <<>> /\ Head(events).op = "Changed"
  /\ events' = Tail(events)
  /\ UNCHANGED <<buffers, nextId, opening, queue, recovery, outside, told, harm>>

\* on_fs_event, Changed, and reload_changed_buffers: a buffer with unsaved work is
\* left alone, any other is read again.
OnChanged ==
  /\ events # <<>> /\ Head(events).op = "Changed"
  /\ events' = Tail(events)
  /\ IF buffers = <<>> \/ IsDirty(Head(buffers))
     THEN UNCHANGED queue
     ELSE queue' = Append(queue, [op |-> "ReadFile", id |-> Head(buffers).id])
  /\ UNCHANGED <<buffers, nextId, opening, recovery, outside, told, harm>>

-----------------------------------------------------------------------------
\* The program dies and is started again: the file and the draft are all there is.
\* restore_drafts reads the file first and offers what it found.
Crash ==
  /\ crashes < MaxCrashes
  /\ crashes' = crashes + 1
  /\ queue' = <<>> /\ events' = <<>> /\ touched' = FALSE /\ opening' = {}
  /\ draftVersion' = {} /\ deadline' = FALSE /\ draftWrites' = {}
  /\ known' = (draft # NoText) /\ offered' = (draft # NoText)
  /\ buffers' = IF draft # NoText THEN <<Fresh(1, disk)>> ELSE <<>>
  /\ nextId' = IF draft # NoText THEN 1 ELSE 0
  /\ told' = FALSE /\ harm' = {}
  /\ UNCHANGED <<disk, draft, others>>

\* apply_recovery_drafts: one undoable edit of the buffer, if it is still open.  The
\* command for all drafts ends in dispatch, Enter for the selected ones does not.
AcceptDraft(dispatched) ==
  /\ offered
  /\ offered' = FALSE
  /\ buffers' = IF buffers = <<>> THEN buffers
                ELSE [buffers EXCEPT ![1].text = draft, ![1].version = @ + 1]
  /\ IF dispatched THEN SyncDrafts(buffers', draftVersion) ELSE UNCHANGED <<draftVersion, deadline>>
  /\ UNCHANGED <<nextId, opening, queue, events, draftWrites, known, outside, told, harm>>

\* discard_recovery_drafts
DiscardDraft ==
  /\ offered /\ Room
  /\ offered' = FALSE
  /\ known' = FALSE
  /\ queue' = Append(queue, [op |-> "RemoveDraft"])
  /\ UNCHANGED <<buffers, nextId, opening, events, draftVersion, deadline, draftWrites, outside, told, harm>>

\* Esc leaves the draft for next time.
IgnoreDraft ==
  /\ offered
  /\ offered' = FALSE
  /\ UNCHANGED <<buffers, nextId, opening, queue, events, draftVersion, deadline, draftWrites,
                 known, outside, told, harm>>

-----------------------------------------------------------------------------
Human ==
  \/ OpenFile
  \/ \E i \in DOMAIN buffers :
       \/ \E t \in Text : TypeText(i, t)
       \/ SaveActiveBuffer(i)
       \/ CloseTab(i)
  \/ OtherCommand
  \/ \E dispatched \in BOOLEAN : AcceptDraft(dispatched)
  \/ DiscardDraft
  \/ IgnoreDraft

Absorb == OnFileLoaded \/ OnFileSaved \/ OnFileFailed \/ OnChanged

Next ==
  \/ Human
  \/ QueueDueDrafts
  \/ ServeRequest
  \/ RefuseRequest
  \/ ReportChange
  \/ \E t \in Text : WrittenByOther(t)
  \/ Absorb
  \/ Crash

\* The three threads run: the loop takes its next message, the worker its next
\* request, the watcher's window ends, the debounce runs out.
Fairness ==
  /\ WF_vars(Absorb)
  /\ WF_vars(ServeRequest)
  /\ WF_vars(ReportChange)
  /\ WF_vars(QueueDueDrafts)

Spec == Init /\ [][Next]_vars
FairSpec == Spec /\ Fairness

-----------------------------------------------------------------------------
TypeOK ==
  /\ disk \in Text /\ draft \in Text \cup {NoText}
  /\ \A i \in DOMAIN buffers : buffers[i].text \in Text /\ buffers[i].id \in 1 .. nextId
  /\ opening \subseteq 1 .. nextId /\ draftWrites \subseteq 1 .. nextId
  /\ Len(events) <= MaxEvents

\* "Unsaved work is never replaced by a reload" (reload_changed_buffers): only the
\* human's own edits and recovery choice change a buffer that is not saved.
UnsavedWorkStays ==
  [][\A i \in DOMAIN buffers : Absorb /\ IsDirty(buffers[i]) =>
       i \in DOMAIN buffers' /\ buffers'[i].text = buffers[i].text]_vars

NoticeOnTheWay ==
  \/ touched
  \/ \E i \in DOMAIN events : events[i].op \in {"Changed", "FileLoaded", "FileFailed"}
  \/ \E i \in DOMAIN queue : queue[i].op = "ReadFile"

\* A buffer that reads saved shows the file, or the news that it does not is on its
\* way: saves, foreign writes and re-reads in any order (mark_saved, FileSaved), until
\* a re-read does harm.
SavedMeansCurrent ==
  harm = {} => \A i \in DOMAIN buffers :
    ~IsDirty(buffers[i]) => buffers[i].text = disk \/ NoticeOnTheWay \/ told

\* ADR-0014 section 5, "a dirty buffer is mirrored, debounced, to a draft file": once
\* the debounce is over and its write done, the draft holds the unsaved text, until a
\* re-read does harm.  The exception is the code's own: the report of a save takes the
\* draft away though the buffer was typed into since (clear_draft in on_fs_event), and
\* so does recovery without dispatch leave the debounce asleep, until the next command.
UnsavedWorkIsMirrored ==
  harm = {} => \A i \in DOMAIN buffers :
    IsDirty(buffers[i]) =>
      deadline \/ draftWrites # {} \/ told \/ draftVersion = {} \/ draft = buffers[i].text

\* The same without the exception: not so of the code, for a buffer typed into while
\* its save was under way.
DraftSurvivesASave ==
  harm = {} => \A i \in DOMAIN buffers :
    IsDirty(buffers[i]) => deadline \/ draftWrites # {} \/ told \/ draft = buffers[i].text

\* An editor "that shows stale text ... is lying about the file": a saved buffer
\* that fell behind its file catches up, or gets unsaved work, or is closed, or the
\* human is told the file cannot be read, or a re-read has done harm.
StaleBufferCatchesUp ==
  (\E i \in DOMAIN buffers : ~IsDirty(buffers[i]) /\ buffers[i].text # disk) ~>
    (told \/ harm # {} \/ \A i \in DOMAIN buffers : IsDirty(buffers[i]) \/ buffers[i].text = disk)

\* The buffers whose unsaved work the re-read under way will replace.
Exposed == {buffers[i].id : i \in {i \in DirtyAt(buffers) : Rereading(buffers[i].id)}}

Edit ==
  \/ \E i \in DOMAIN buffers : \E t \in Text : TypeText(i, t)
  \/ \E dispatched \in BOOLEAN : AcceptDraft(dispatched)

\* "Unsaved work is never replaced by a reload", as far as the code keeps it: up to the
\* first harm the only work replaced is of an exposed buffer, one edited while its
\* re-read was under way, and nothing but an edit or a recovery exposes one: no save,
\* report, foreign write, close or draft in any order (reload_changed_buffers).
OnlyLateEditsAreReplaced ==
  [][harm = {} =>
       /\ \A i \in DOMAIN buffers : Absorb /\ IsDirty(buffers[i]) =>
            buffers[i].id \in Exposed \/ (i \in DOMAIN buffers' /\ buffers'[i].text = buffers[i].text)
       /\ Exposed' \subseteq Exposed \/ Edit]_vars
=============================================================================
