--------------------------- MODULE FileSyncProofs ---------------------------
(***************************************************************************)
(* Proofs about FileSync, for any texts, any number of edits, saves, reads *)
(* and writes by other programs, and any length of queue and channel: a    *)
(* buffer that reads saved shows its file, the only unsaved work a re-read *)
(* replaces was edited while that re-read was under way, and unsaved work  *)
(* is mirrored in a draft.  Everything the human, the disk and the other   *)
(* programs can do is in it; what is said ends where a re-read has done    *)
(* harm (`harm`), since the code says nothing of the files after that, and *)
(* begins again with the next start of the program.                        *)
(***************************************************************************)
EXTENDS FileSync, SequenceLemmas, TLAPS

\* What the program holds: the text of a buffer may be that of a draft.
SomeText == Text \cup {NoText}
Buffer   == [id : Nat, text : SomeText, version : Nat, saved : Nat]
Request  == [op : {"ReadFile"}, id : Nat]
              \cup [op : {"WriteFile", "WriteDraft"}, id : Nat, version : Nat, text : SomeText]
              \cup [op : {"RemoveDraft"}]
Event    == [op : {"FileLoaded"}, id : Nat, text : SomeText]
              \cup [op : {"FileSaved"}, id : Nat, version : Nat]
              \cup [op : {"FileFailed"}, id : Nat]
              \cup [op : {"Changed"}]

TypeInv ==
  /\ disk \in SomeText /\ draft \in SomeText
  /\ buffers \in Seq(Buffer) /\ queue \in Seq(Request) /\ events \in Seq(Event)
  /\ nextId \in Nat /\ opening \subseteq Nat
  /\ touched \in BOOLEAN /\ told \in BOOLEAN

\* Every id in use was handed out.
IdsInv ==
  /\ \A i \in DOMAIN buffers : buffers[i].id <= nextId
  /\ \A id \in opening : id <= nextId
  /\ \A k \in DOMAIN queue : queue[k].op # "RemoveDraft" => queue[k].id <= nextId
  /\ \A k \in DOMAIN events : events[k].op # "Changed" => events[k].id <= nextId

\* At most one buffer is open on the file or being opened.
OneBuffer ==
  /\ Len(buffers) <= 1
  /\ buffers # <<>> => opening = {}
  /\ \A x, y \in opening : x = y

OpenIds == {buffers[i].id : i \in DOMAIN buffers}
LiveIds == opening \cup OpenIds

\* A first read is under way at most once: asked for, or answered.
ReadAskedOnce ==
  \A j, k \in DOMAIN queue :
    queue[j].op = "ReadFile" /\ queue[k].op = "ReadFile" /\ queue[j].id = queue[k].id
      /\ queue[k].id \in opening => j = k
ReadAnsweredOnce ==
  \A j, k \in DOMAIN events :
    events[j].op \in {"FileLoaded", "FileFailed"} /\ events[k].op \in {"FileLoaded", "FileFailed"}
      /\ events[j].id = events[k].id /\ events[k].id \in opening => j = k
ReadAskedOrAnswered ==
  \A j \in DOMAIN queue : \A k \in DOMAIN events :
    queue[j].op = "ReadFile" /\ events[k].op \in {"FileLoaded", "FileFailed"}
      /\ queue[j].id = events[k].id => queue[j].id \notin opening

WritesAreOld ==
  /\ \A k \in DOMAIN queue : queue[k].op = "WriteDraft" => queue[k].id \notin LiveIds
  /\ \A k \in DOMAIN queue : queue[k].op = "WriteFile" => queue[k].id \notin opening
  /\ \A k \in DOMAIN events : events[k].op = "FileSaved" => events[k].id \notin opening

ChangeFollows(k) == touched \/ \E j \in DOMAIN events : k < j /\ events[j].op = "Changed"

NewsFollows ==
  \A k \in DOMAIN events :
    /\ events[k].op = "FileSaved" /\ events[k].id \in LiveIds => ChangeFollows(k)
    /\ events[k].op = "FileLoaded" => events[k].text = disk \/ ChangeFollows(k)

\* Requests and events on their way, in the order the loop will hear of them.
OnTheWay == {events[k] : k \in DOMAIN events} \cup {queue[k] : k \in DOMAIN queue}
IsAhead(a, b) ==
  \/ \E j, k \in DOMAIN events : j < k /\ a = events[j] /\ b = events[k]
  \/ \E j \in DOMAIN events : \E k \in DOMAIN queue : a = events[j] /\ b = queue[k]
  \/ \E j, k \in DOMAIN queue : j < k /\ a = queue[j] /\ b = queue[k]
IsSave(m, id) == m.op \in {"WriteFile", "FileSaved"} /\ m.id = id
IsRead(m, id) == m.op \in {"ReadFile", "FileLoaded"} /\ m.id = id

\* A saved buffer is read: what was saved of it before the read was asked for is the
\* version marked saved, and what is saved behind the read is a later one.
SavesAheadOfReads ==
  \A i \in DOMAIN buffers : \A a, b :
    IsAhead(a, b) /\ IsSave(a, buffers[i].id) /\ IsRead(b, buffers[i].id) => a.version = buffers[i].saved
SavesBehindReads ==
  \A i \in DOMAIN buffers : \A a, b :
    IsAhead(a, b) /\ IsRead(a, buffers[i].id) /\ IsSave(b, buffers[i].id) => buffers[i].saved < b.version

\* A save under way carries a version between the one marked saved and the present one.
Between(v, b) == b.saved <= v /\ v <= b.version
MarkedBefore == \A i \in DOMAIN buffers : buffers[i].saved <= buffers[i].version
SavedBetween ==
  \A i \in DOMAIN buffers : \A k \in DOMAIN events :
    events[k].op = "FileSaved" /\ events[k].id = buffers[i].id => Between(events[k].version, buffers[i])
SavingBetween ==
  \A i \in DOMAIN buffers : \A k \in DOMAIN queue :
    queue[k].op = "WriteFile" /\ queue[k].id = buffers[i].id => Between(queue[k].version, buffers[i])

\* Saves of a buffer come back in the order of their versions.
SavedInOrder ==
  \A j, k \in DOMAIN events :
    j < k /\ events[j].op = "FileSaved" /\ events[k].op = "FileSaved" /\ events[j].id = events[k].id
      /\ events[k].id \in OpenIds => events[j].version <= events[k].version
SavedThenSaving ==
  \A j \in DOMAIN events : \A k \in DOMAIN queue :
    events[j].op = "FileSaved" /\ queue[k].op = "WriteFile" /\ events[j].id = queue[k].id
      /\ queue[k].id \in OpenIds => events[j].version <= queue[k].version
SavingInOrder ==
  \A j, k \in DOMAIN queue :
    j < k /\ queue[j].op = "WriteFile" /\ queue[k].op = "WriteFile" /\ queue[j].id = queue[k].id
      /\ queue[k].id \in OpenIds => queue[j].version <= queue[k].version

\* A buffer that reads saved shows its file, or news is on its way.
SavedAreCurrent ==
  \A i \in DOMAIN buffers : ~IsDirty(buffers[i]) => buffers[i].text = disk \/ NoticeOnTheWay \/ told

SaveInv ==
  /\ TypeInv /\ IdsInv /\ OneBuffer
  /\ ReadAskedOnce /\ ReadAnsweredOnce /\ ReadAskedOrAnswered
  /\ WritesAreOld /\ NewsFollows
  /\ SavesAheadOfReads /\ SavesBehindReads
  /\ MarkedBefore /\ SavedBetween /\ SavingBetween
  /\ SavedInOrder /\ SavedThenSaving /\ SavingInOrder /\ SavedAreCurrent

-----------------------------------------------------------------------------
\* `new` is `old` with x appended; `new` is `old` without its first element.
Grown(new, old, x) ==
  /\ \A k \in DOMAIN new : \/ k \in Nat /\ k \in DOMAIN old /\ k < Len(old) + 1 /\ new[k] = old[k]
                           \/ k \in Nat /\ k = Len(old) + 1 /\ new[k] = x
  /\ \A k \in DOMAIN old : k \in Nat /\ k < Len(old) + 1 /\ k \in DOMAIN new /\ new[k] = old[k]
  /\ Len(old) + 1 \in Nat /\ Len(old) + 1 \in DOMAIN new /\ new[Len(old) + 1] = x
Shrunk(new, old) ==
  /\ 1 \in DOMAIN old
  /\ \A k \in DOMAIN new : k \in Nat /\ 1 < k + 1 /\ k + 1 \in DOMAIN old /\ new[k] = old[k + 1]
  /\ \A k \in DOMAIN old : k \in Nat /\ (k # 1 => 1 < k /\ k - 1 \in DOMAIN new /\ new[k - 1] = old[k])

\* What appending to a sequence leaves in it, and where.
LEMMA AppendFacts ==
  ASSUME NEW S, NEW s \in Seq(S), NEW x \in S
  PROVE  Append(s, x) \in Seq(S) /\ Grown(Append(s, x), s, x)
BY DEF Grown

\* What the tail of a sequence keeps, and where.
LEMMA TailFacts ==
  ASSUME NEW S, NEW s \in Seq(S), s # <<>>
  PROVE  Tail(s) \in Seq(S) /\ Head(s) \in S /\ Head(s) = s[1] /\ Shrunk(Tail(s), s)
BY DEF Shrunk

\* With one buffer, the last dirty one is that one.
LEMMA TheBuffer ==
  ASSUME TypeInv, OneBuffer, buffers # <<>>
  PROVE  /\ DOMAIN buffers = {1} /\ buffers[1] \in Buffer
         /\ DirtyAt(buffers) # {} => LastDirty(buffers) = buffers[1] /\ IsDirty(buffers[1])
<1>1. buffers \in Seq(Buffer) /\ Len(buffers) = 1 /\ DOMAIN buffers = 1 .. Len(buffers)
  <2>1. buffers \in Seq(Buffer) /\ Len(buffers) <= 1
    BY DEF TypeInv, OneBuffer
  <2>2. Len(buffers) \in Nat /\ DOMAIN buffers = 1 .. Len(buffers)
    BY <2>1, LenProperties
  <2>3. Len(buffers) # 0
    BY <2>1, EmptySeq
  <2>. QED BY <2>1, <2>2, <2>3
<1>2. DOMAIN buffers = {1} /\ buffers[1] \in Buffer
  BY <1>1
<1>3. ASSUME DirtyAt(buffers) # {}
      PROVE  LastDirty(buffers) = buffers[1] /\ IsDirty(buffers[1])
  <2>1. DirtyAt(buffers) = {1} /\ IsDirty(buffers[1])
    BY <1>2, <1>3 DEF DirtyAt
  <2>2. (CHOOSE i \in DirtyAt(buffers) : \A j \in DirtyAt(buffers) : j <= i) = 1
    BY <2>1
  <2>. QED BY <2>1, <2>2 DEF LastDirty
<1>. QED BY <1>2, <1>3

\* What the ids and the versions of requests, events and buffers are.
FieldsTyped ==
  /\ \A k \in DOMAIN queue :
       /\ queue[k].op # "FileSaved"
       /\ queue[k].op # "RemoveDraft" => queue[k].id \in Nat
       /\ queue[k].op \in {"WriteFile", "WriteDraft"} => queue[k].version \in Nat
  /\ \A k \in DOMAIN events :
       /\ events[k].op # "WriteFile"
       /\ events[k].op # "Changed" => events[k].id \in Nat
       /\ events[k].op = "FileSaved" => events[k].version \in Nat
  /\ \A i \in DOMAIN buffers :
       buffers[i].id \in Nat /\ buffers[i].version \in Nat /\ buffers[i].saved \in Nat

\* So they are, by the type invariant.
LEMMA FieldTypes == TypeInv => FieldsTyped
<1>. SUFFICES ASSUME TypeInv PROVE FieldsTyped
  OBVIOUS
<1>1. \A k \in DOMAIN queue : queue[k] \in Request
  BY DEF TypeInv
<1>2. \A k \in DOMAIN events : events[k] \in Event
  BY DEF TypeInv
<1>3. \A i \in DOMAIN buffers : buffers[i] \in Buffer
  BY DEF TypeInv
<1>4. \A k \in DOMAIN queue : /\ queue[k].op # "FileSaved"
                              /\ queue[k].op # "RemoveDraft" => queue[k].id \in Nat
                              /\ queue[k].op \in {"WriteFile", "WriteDraft"} => queue[k].version \in Nat
  BY <1>1 DEF Request
<1>5. \A k \in DOMAIN events : /\ events[k].op # "WriteFile"
                               /\ events[k].op # "Changed" => events[k].id \in Nat
                               /\ events[k].op = "FileSaved" => events[k].version \in Nat
  BY <1>2 DEF Event
<1>6. \A i \in DOMAIN buffers : buffers[i].id \in Nat /\ buffers[i].version \in Nat /\ buffers[i].saved \in Nat
  BY <1>3 DEF Buffer
<1>. QED BY <1>4, <1>5, <1>6 DEF FieldsTyped

\* A request joins the queue behind everything that is on its way.
LEMMA AheadAsked ==
  ASSUME NEW r, queue' = queue \/ Grown(queue', queue, r), events' = events \/ Shrunk(events', events),
         NEW a, NEW b, IsAhead(a, b)'
  PROVE  a \in OnTheWay /\ (IsAhead(a, b) \/ b = r)
<1>1. \A k \in DOMAIN queue' : \/ k \in DOMAIN queue /\ queue'[k] = queue[k]
                               \/ queue'[k] = r
  BY DEF Grown
<1>2. \A j, k \in DOMAIN queue' : j < k => j \in DOMAIN queue /\ queue'[j] = queue[j]
  <2>1. CASE queue' = queue
    BY <2>1
  <2>2. CASE Grown(queue', queue, r)
    <3>. SUFFICES ASSUME NEW j \in DOMAIN queue', NEW k \in DOMAIN queue', j < k
                  PROVE  j \in DOMAIN queue /\ queue'[j] = queue[j]
      OBVIOUS
    <3>1. k \in Nat /\ k <= Len(queue) + 1 /\ Len(queue) + 1 \in Nat /\ j \in Nat
      BY <2>2 DEF Grown
    <3>2. j # Len(queue) + 1
      BY <3>1
    <3>. QED BY <2>2, <3>2 DEF Grown
  <2>. QED BY <2>1, <2>2
<1>3. \A j \in DOMAIN events' : \E p \in DOMAIN events : events'[j] = events[p]
  BY DEF Shrunk
<1>4. \A j, k \in DOMAIN events' : j < k =>
        \E p, q \in DOMAIN events : p < q /\ events'[j] = events[p] /\ events'[k] = events[q]
  <2>1. CASE events' = events
    BY <2>1
  <2>2. CASE Shrunk(events', events)
    <3>. SUFFICES ASSUME NEW j \in DOMAIN events', NEW k \in DOMAIN events', j < k
                  PROVE  \E p, q \in DOMAIN events : p < q /\ events'[j] = events[p] /\ events'[k] = events[q]
      OBVIOUS
    <3>1. /\ j \in Nat /\ k \in Nat /\ j + 1 \in DOMAIN events /\ k + 1 \in DOMAIN events
          /\ events'[j] = events[j + 1] /\ events'[k] = events[k + 1]
      BY <2>2 DEF Shrunk
    <3>2. j + 1 < k + 1
      BY <3>1
    <3>. QED BY <3>1, <3>2
  <2>. QED BY <2>1, <2>2
<1>5. CASE \E j, k \in DOMAIN events' : j < k /\ a = events'[j] /\ b = events'[k]
  <2>1. PICK j \in DOMAIN events', k \in DOMAIN events' : j < k /\ a = events'[j] /\ b = events'[k]
    BY <1>5
  <2>2. PICK p \in DOMAIN events, q \in DOMAIN events : p < q /\ a = events[p] /\ b = events[q]
    BY <1>4, <2>1
  <2>. QED BY <2>2 DEF IsAhead, OnTheWay
<1>6. CASE \E j \in DOMAIN events' : \E k \in DOMAIN queue' : a = events'[j] /\ b = queue'[k]
  <2>1. PICK j \in DOMAIN events', k \in DOMAIN queue' : a = events'[j] /\ b = queue'[k]
    BY <1>6
  <2>2. PICK p \in DOMAIN events : a = events[p]
    BY <1>3, <2>1
  <2>. QED BY <1>1, <2>1, <2>2 DEF IsAhead, OnTheWay
<1>7. CASE \E j, k \in DOMAIN queue' : j < k /\ a = queue'[j] /\ b = queue'[k]
  <2>1. PICK j \in DOMAIN queue', k \in DOMAIN queue' : j < k /\ a = queue'[j] /\ b = queue'[k]
    BY <1>7
  <2>2. j \in DOMAIN queue /\ a = queue[j]
    BY <1>2, <2>1
  <2>. QED BY <1>1, <2>1, <2>2 DEF IsAhead, OnTheWay
<1>. QED BY <1>5, <1>6, <1>7 DEF IsAhead

\* Absorbing the first event puts nothing ahead of anything.
LEMMA FewerAhead ==
  ASSUME queue' = queue, Shrunk(events', events), NEW a, NEW b, IsAhead(a, b)'
  PROVE  IsAhead(a, b)
<1>1. \A k \in DOMAIN events' : k \in Nat /\ k + 1 \in DOMAIN events /\ events'[k] = events[k + 1]
  BY DEF Shrunk
<1>2. CASE \E j, k \in DOMAIN events' : j < k /\ a = events'[j] /\ b = events'[k]
  <2>1. PICK j \in DOMAIN events', k \in DOMAIN events' : j < k /\ a = events'[j] /\ b = events'[k]
    BY <1>2
  <2>2. j + 1 < k + 1 /\ j + 1 \in DOMAIN events /\ k + 1 \in DOMAIN events /\ a = events[j + 1] /\ b = events[k + 1]
    BY <1>1, <2>1
  <2>. QED BY <2>2 DEF IsAhead
<1>3. CASE \E j \in DOMAIN events' : \E k \in DOMAIN queue' : a = events'[j] /\ b = queue'[k]
  BY <1>1, <1>3 DEF IsAhead
<1>4. CASE \E j, k \in DOMAIN queue' : j < k /\ a = queue'[j] /\ b = queue'[k]
  BY <1>4 DEF IsAhead
<1>. QED BY <1>2, <1>3, <1>4 DEF IsAhead

\* What answers the first request is where that request was in the order.
LEMMA AheadServed ==
  ASSUME NEW e, Shrunk(queue', queue), events' = events \/ Grown(events', events, e),
         NEW a, NEW b, IsAhead(a, b)'
  PROVE  IsAhead(a, b) \/ (a = e /\ IsAhead(queue[1], b)) \/ (b = e /\ IsAhead(a, queue[1]))
<1>1. \A k \in DOMAIN events' : \/ k \in DOMAIN events /\ events'[k] = events[k]
                                \/ events'[k] = e
  BY DEF Grown
<1>2. \A j, k \in DOMAIN events' : j < k => j \in DOMAIN events /\ events'[j] = events[j]
  <2>1. CASE events' = events
    BY <2>1
  <2>2. CASE Grown(events', events, e)
    <3>. SUFFICES ASSUME NEW j \in DOMAIN events', NEW k \in DOMAIN events', j < k
                  PROVE  j \in DOMAIN events /\ events'[j] = events[j]
      OBVIOUS
    <3>1. k \in Nat /\ k <= Len(events) + 1 /\ Len(events) + 1 \in Nat /\ j \in Nat
      BY <2>2 DEF Grown
    <3>2. j # Len(events) + 1
      BY <3>1
    <3>. QED BY <2>2, <3>2 DEF Grown
  <2>. QED BY <2>1, <2>2
<1>3. /\ 1 \in DOMAIN queue
      /\ \A k \in DOMAIN queue' : k \in Nat /\ 1 < k + 1 /\ k + 1 \in DOMAIN queue /\ queue'[k] = queue[k + 1]
  BY DEF Shrunk
<1>4. CASE \E j, k \in DOMAIN events' : j < k /\ a = events'[j] /\ b = events'[k]
  <2>1. PICK j \in DOMAIN events', k \in DOMAIN events' : j < k /\ a = events'[j] /\ b = events'[k]
    BY <1>4
  <2>2. j \in DOMAIN events /\ a = events[j]
    BY <1>2, <2>1
  <2>. QED BY <1>1, <1>3, <2>1, <2>2 DEF IsAhead
<1>5. CASE \E j \in DOMAIN events' : \E k \in DOMAIN queue' : a = events'[j] /\ b = queue'[k]
  <2>1. PICK j \in DOMAIN events', k \in DOMAIN queue' : a = events'[j] /\ b = queue'[k]
    BY <1>5
  <2>2. 1 < k + 1 /\ k + 1 \in DOMAIN queue /\ b = queue[k + 1]
    BY <1>3, <2>1
  <2>3. IsAhead(queue[1], b)
    BY <1>3, <2>2 DEF IsAhead
  <2>. QED BY <1>1, <2>1, <2>2, <2>3 DEF IsAhead
<1>6. CASE \E j, k \in DOMAIN queue' : j < k /\ a = queue'[j] /\ b = queue'[k]
  <2>1. PICK j \in DOMAIN queue', k \in DOMAIN queue' : j < k /\ a = queue'[j] /\ b = queue'[k]
    BY <1>6
  <2>2. j + 1 \in DOMAIN queue /\ k + 1 \in DOMAIN queue /\ a = queue[j + 1] /\ b = queue[k + 1] /\ j + 1 < k + 1
    BY <1>3, <2>1
  <2>. QED BY <2>2 DEF IsAhead
<1>. QED BY <1>4, <1>5, <1>6 DEF IsAhead

\* The watcher's report is behind every event.
LEMMA AheadReported ==
  ASSUME NEW e, queue' = queue, events' = events \/ Grown(events', events, e),
         NEW a, NEW b, IsAhead(a, b)'
  PROVE  IsAhead(a, b) \/ a = e \/ b = e
<1>1. \A k \in DOMAIN events' : \/ k \in DOMAIN events /\ events'[k] = events[k]
                                \/ events'[k] = e
  BY DEF Grown
<1>. QED BY <1>1 DEF IsAhead

\* The first event is ahead of all the rest.
LEMMA FirstIsAhead ==
  ASSUME NEW r, queue' = queue \/ Grown(queue', queue, r), Shrunk(events', events),
         NEW m, m \in OnTheWay'
  PROVE  IsAhead(events[1], m) \/ m = r
<1>1. 1 \in DOMAIN events
  BY DEF Shrunk
<1>2. ASSUME NEW k \in DOMAIN events', m = events'[k] PROVE IsAhead(events[1], m)
  <2>1. 1 < k + 1 /\ k + 1 \in DOMAIN events /\ events'[k] = events[k + 1]
    BY DEF Shrunk
  <2>. QED BY <1>1, <1>2, <2>1 DEF IsAhead
<1>3. ASSUME NEW k \in DOMAIN queue', m = queue'[k] PROVE IsAhead(events[1], m) \/ m = r
  <2>1. (k \in DOMAIN queue /\ queue'[k] = queue[k]) \/ queue'[k] = r
    BY DEF Grown
  <2>. QED BY <1>1, <1>3, <2>1 DEF IsAhead
<1>. QED BY <1>2, <1>3 DEF OnTheWay

\* A message that is neither a read nor a save of an open buffer; one that says of
\* them no more than another does.
Silent(m) == \A i \in DOMAIN buffers : ~IsSave(m, buffers[i].id) /\ ~IsRead(m, buffers[i].id)
StandsFor(m, n) ==
  \A i \in DOMAIN buffers :
    /\ IsSave(m, buffers[i].id) => IsSave(n, buffers[i].id) /\ m.version = n.version
    /\ IsRead(m, buffers[i].id) => IsRead(n, buffers[i].id)

\* A step that marks no open buffer saved, and puts on its way nothing that speaks of
\* one, keeps reads and saves in order.
LEMMA OrderKept ==
  ASSUME SavesAheadOfReads, SavesBehindReads,
         \A i \in DOMAIN buffers' : /\ i \in DOMAIN buffers /\ buffers'[i].id = buffers[i].id
                                    /\ buffers'[i].saved = buffers[i].saved,
         \A a, b : IsAhead(a, b)' => IsAhead(a, b) \/ Silent(a) \/ Silent(b)
  PROVE  SavesAheadOfReads' /\ SavesBehindReads'
<1>1. SavesAheadOfReads'
  <2>. SUFFICES ASSUME NEW i \in DOMAIN buffers', NEW a, NEW b, IsAhead(a, b)',
                       IsSave(a, buffers'[i].id), IsRead(b, buffers'[i].id)
                PROVE  a.version = buffers'[i].saved
    BY DEF SavesAheadOfReads, IsSave, IsRead
  <2>. QED BY DEF SavesAheadOfReads, Silent
<1>2. SavesBehindReads'
  <2>. SUFFICES ASSUME NEW i \in DOMAIN buffers', NEW a, NEW b, IsAhead(a, b)',
                       IsRead(a, buffers'[i].id), IsSave(b, buffers'[i].id)
                PROVE  buffers'[i].saved < b.version
    BY DEF SavesBehindReads, IsSave, IsRead
  <2>. QED BY DEF SavesBehindReads, Silent
<1>. QED BY <1>1, <1>2

\* So does an answer that says of the open buffers no more than its request did.
LEMMA OrderServed ==
  ASSUME SavesAheadOfReads, SavesBehindReads, buffers' = buffers, Shrunk(queue', queue),
         NEW e, Grown(events', events, e), StandsFor(e, queue[1])
  PROVE  SavesAheadOfReads' /\ SavesBehindReads'
<1>. DEFINE r == queue[1]
<1>0. \A a, b : IsAhead(a, b)' => IsAhead(a, b) \/ (a = e /\ IsAhead(r, b)) \/ (b = e /\ IsAhead(a, r))
  BY AheadServed
<1>. HIDE DEF r
<1>1. SavesAheadOfReads'
  <2>. SUFFICES ASSUME NEW i \in DOMAIN buffers, NEW a, NEW b, IsAhead(a, b)',
                       IsSave(a, buffers[i].id), IsRead(b, buffers[i].id)
                PROVE  a.version = buffers[i].saved
    BY DEF SavesAheadOfReads, IsSave, IsRead
  <2>1. CASE IsAhead(a, b)
    BY <2>1 DEF SavesAheadOfReads
  <2>2. CASE a = e /\ IsAhead(r, b)
    BY <2>2 DEF SavesAheadOfReads, StandsFor, r
  <2>3. CASE b = e /\ IsAhead(a, r)
    BY <2>3 DEF SavesAheadOfReads, StandsFor, r
  <2>. QED BY <1>0, <2>1, <2>2, <2>3
<1>2. SavesBehindReads'
  <2>. SUFFICES ASSUME NEW i \in DOMAIN buffers, NEW a, NEW b, IsAhead(a, b)',
                       IsRead(a, buffers[i].id), IsSave(b, buffers[i].id)
                PROVE  buffers[i].saved < b.version
    BY DEF SavesBehindReads, IsSave, IsRead
  <2>1. CASE IsAhead(a, b)
    BY <2>1 DEF SavesBehindReads
  <2>2. CASE a = e /\ IsAhead(r, b)
    BY <2>2 DEF SavesBehindReads, StandsFor, r
  <2>3. CASE b = e /\ IsAhead(a, r)
    BY <2>3 DEF SavesBehindReads, StandsFor, r
  <2>. QED BY <1>0, <2>1, <2>2, <2>3
<1>. QED BY <1>1, <1>2

\* A save on its way, asked for or reported, carries a version between the marked one
\* and the present one.
LEMMA SavesAreBetween ==
  ASSUME FieldsTyped, SavedBetween, SavingBetween, NEW i \in DOMAIN buffers, NEW m \in OnTheWay,
         IsSave(m, buffers[i].id)
  PROVE  m.version \in Nat /\ buffers[i].saved <= m.version /\ m.version <= buffers[i].version
<1>1. CASE \E k \in DOMAIN events : m = events[k]
  BY <1>1 DEF FieldsTyped, SavedBetween, Between, IsSave
<1>2. CASE \E k \in DOMAIN queue : m = queue[k]
  BY <1>2 DEF FieldsTyped, SavingBetween, Between, IsSave
<1>. QED BY <1>1, <1>2 DEF OnTheWay

saveVars == <<disk, buffers, nextId, opening, queue, events, touched, told>>

\* The types hold whatever a re-read did.
LEMMA NextTypes ==
  ASSUME TypeInv, [Next]_vars
  PROVE  TypeInv'
<1>. USE DEF recovery, outside
<1>t. /\ disk \in SomeText /\ draft \in SomeText /\ nextId \in Nat /\ opening \subseteq Nat
      /\ touched \in BOOLEAN /\ told \in BOOLEAN
      /\ buffers \in Seq(Buffer) /\ queue \in Seq(Request) /\ events \in Seq(Event)
  BY DEF TypeInv
<1>q. /\ \A r \in Request : Append(queue, r) \in Seq(Request)
      /\ queue # <<>> => Tail(queue) \in Seq(Request) /\ Head(queue) \in Request
  BY <1>t
<1>e. /\ \A e \in Event : Append(events, e) \in Seq(Event)
      /\ events # <<>> => Tail(events) \in Seq(Event) /\ Head(events) \in Event
  BY <1>t
<1>b. \A i \in DOMAIN buffers : buffers[i] \in Buffer
  BY <1>t
<1>f. \A id \in Nat, t \in SomeText : Fresh(id, t) \in Buffer
  BY DEF Fresh, Buffer
<1>1. CASE OpenFile
  <2>1. [op |-> "ReadFile", id |-> nextId + 1] \in Request
    BY <1>t DEF Request
  <2>. QED BY <1>1, <1>t, <1>q, <2>1 DEF OpenFile, TypeInv
<1>2. ASSUME NEW i \in DOMAIN buffers, NEW t \in SomeText, told' \in BOOLEAN,
             buffers' = [buffers EXCEPT ![i].text = t, ![i].version = @ + 1],
             UNCHANGED <<disk, draft, nextId, opening, queue, events, touched>>
      PROVE  TypeInv'
  <2>1. [buffers[i] EXCEPT !.text = t, !.version = @ + 1] \in Buffer
    BY <1>b, <1>2 DEF Buffer
  <2>2. buffers' = [buffers EXCEPT ![i] = [buffers[i] EXCEPT !.text = t, !.version = @ + 1]]
    BY <1>2, <1>t
  <2>. DEFINE b == [buffers[i] EXCEPT !.text = t, !.version = @ + 1]
  <2>. HIDE DEF b
  <2>3. [buffers EXCEPT ![i] = b] \in Seq(Buffer)
    BY <2>1, <1>t DEF b
  <2>. QED BY <1>2, <1>t, <2>2, <2>3 DEF TypeInv, b
<1>3. ASSUME NEW i \in DOMAIN buffers, SaveActiveBuffer(i) PROVE TypeInv'
  <2>1. [op |-> "WriteFile", id |-> buffers[i].id, version |-> buffers[i].version, text |-> buffers[i].text] \in Request
    BY <1>b, <1>3 DEF Request, Buffer
  <2>. QED BY <1>3, <1>t, <1>q, <2>1 DEF SaveActiveBuffer, TypeInv
<1>4. ASSUME NEW i \in DOMAIN buffers, CloseTab(i) PROVE TypeInv'
  <2>1. RemoveAt(buffers, i) \in Seq(Buffer)
    BY <1>4, <1>t, Removed
  <2>. QED BY <1>4, <1>t, <2>1 DEF CloseTab, TypeInv
<1>5. CASE DiscardDraft
  <2>1. [op |-> "RemoveDraft"] \in Request
    BY DEF Request
  <2>. QED BY <1>5, <1>t, <1>q, <2>1 DEF DiscardDraft, TypeInv
<1>6. CASE QueueDueDrafts
  <2>1. CASE DirtyAt(buffers) = {}
    BY <1>6, <1>t, <2>1 DEF QueueDueDrafts, TypeInv
  <2>2. CASE DirtyAt(buffers) # {}
    <3>1. Len(buffers) \in Nat /\ DirtyAt(buffers) \subseteq 1..Len(buffers)
      BY <1>t DEF DirtyAt
    <3>2. \E i \in DirtyAt(buffers) : \A j \in DirtyAt(buffers) : j <= i
      BY <2>2, <3>1, GreatestNatural
    <3>3. LastDirty(buffers) \in Buffer
      BY <1>b, <3>2 DEF LastDirty, DirtyAt
    <3>. DEFINE b == LastDirty(buffers)
                r == [op |-> "WriteDraft", id |-> nextId + 1, version |-> b.version, text |-> b.text]
    <3>4. b.version \in Nat /\ b.text \in SomeText
      BY <3>3 DEF Buffer
    <3>5. queue' = Append(queue, r) /\ nextId' = nextId + 1 /\ UNCHANGED <<buffers, opening, events, outside, told>>
      BY <1>6, <2>2 DEF QueueDueDrafts
    <3>. HIDE DEF b
    <3>6. r \in Request
      BY <1>t, <3>4 DEF Request
    <3>. QED BY <1>t, <1>q, <3>5, <3>6 DEF TypeInv
  <2>. QED BY <2>1, <2>2
<1>7. CASE ServeRequest
  <2>. DEFINE r == Head(queue)
  <2>1. queue # <<>> /\ queue' = Tail(queue) /\ UNCHANGED <<buffers, nextId, opening, told>> /\ r \in Request
    BY <1>7, <1>q DEF ServeRequest
  <2>2. CASE r.op = "ReadFile"
    <3>1. [op |-> "FileLoaded", id |-> r.id, text |-> disk] \in Event
      BY <2>1, <2>2, <1>t DEF Request, Event
    <3>. QED BY <1>7, <2>1, <2>2, <3>1, <1>t, <1>q, <1>e DEF ServeRequest, TypeInv
  <2>3. CASE r.op \in {"WriteFile", "WriteDraft"}
    <3>1. [op |-> "FileSaved", id |-> r.id, version |-> r.version] \in Event /\ r.text \in SomeText
      BY <2>1, <2>3 DEF Request, Event
    <3>. QED BY <1>7, <2>1, <2>3, <3>1, <1>t, <1>q, <1>e DEF ServeRequest, TypeInv
  <2>4. CASE r.op = "RemoveDraft"
    <3>1. NoText \in SomeText
      BY DEF SomeText
    <3>. QED BY <1>7, <2>1, <2>4, <3>1, <1>t, <1>q DEF ServeRequest, TypeInv
  <2>. QED BY <2>1, <2>2, <2>3, <2>4 DEF Request
<1>8. CASE RefuseRequest
  <2>1. queue # <<>> /\ Head(queue) \in Request /\ Head(queue).op # "RemoveDraft"
    BY <1>8, <1>q DEF RefuseRequest
  <2>2. [op |-> "FileFailed", id |-> Head(queue).id] \in Event
    BY <2>1 DEF Request, Event
  <2>. QED BY <1>8, <2>1, <2>2, <1>t, <1>q, <1>e DEF RefuseRequest, TypeInv
<1>9. CASE ReportChange
  <2>1. [op |-> "Changed"] \in Event
    BY DEF Event
  <2>. QED BY <1>9, <2>1, <1>t, <1>e DEF ReportChange, TypeInv
<1>10. ASSUME NEW t \in Text, WrittenByOther(t) PROVE TypeInv'
  BY <1>10, <1>t DEF WrittenByOther, TypeInv, SomeText
<1>11. CASE OnFileLoaded
  <2>. DEFINE e == Head(events)
  <2>1. /\ e \in Event /\ e.op = "FileLoaded" /\ events' = Tail(events) /\ events # <<>>
        /\ opening' = opening \ {e.id}
        /\ UNCHANGED <<disk, draft, touched, queue, nextId, told>>
        /\ buffers' = IF Indices(e.id) # {} THEN [i \in DOMAIN buffers |->
                        IF i \in Indices(e.id) THEN Fresh(e.id, e.text) ELSE buffers[i]]
                      ELSE Append(buffers, Fresh(e.id, e.text))
    BY <1>11, <1>e DEF OnFileLoaded
  <2>. HIDE DEF e
  <2>. DEFINE b == Fresh(e.id, e.text)
  <2>2. b \in Buffer
    BY <2>1, <1>f DEF Event
  <2>. HIDE DEF b
  <2>3. Append(buffers, b) \in Seq(Buffer)
    BY <2>2, <1>t
  <2>4. [i \in DOMAIN buffers |-> IF i \in Indices(e.id) THEN b ELSE buffers[i]] \in Seq(Buffer)
    BY <2>2, <1>t
  <2>5. buffers' \in Seq(Buffer)
    BY <2>1, <2>3, <2>4 DEF b
  <2>. QED BY <2>1, <2>5, <1>t, <1>e DEF TypeInv
<1>12. CASE OnFileSaved
  <2>. DEFINE e == Head(events)
  <2>1. /\ e \in Event /\ e.op = "FileSaved" /\ events' = Tail(events) /\ events # <<>>
        /\ UNCHANGED <<disk, draft, touched, opening, nextId, told>>
        /\ \/ UNCHANGED <<buffers, queue>>
           \/ /\ queue' = queue \/ queue' = Append(queue, [op |-> "RemoveDraft"])
              /\ buffers' = [i \in DOMAIN buffers |->
                   IF i \in Indices(e.id) THEN MarkSaved(buffers[i], e.version) ELSE buffers[i]]
    BY <1>12, <1>e DEF OnFileSaved
  <2>. HIDE DEF e
  <2>2. \A i \in DOMAIN buffers : MarkSaved(buffers[i], e.version) \in Buffer
    BY <2>1, <1>b DEF MarkSaved, Event, Buffer
  <2>3. [i \in DOMAIN buffers |->
           IF i \in Indices(e.id) THEN MarkSaved(buffers[i], e.version) ELSE buffers[i]] \in Seq(Buffer)
    BY <2>2, <1>t
  <2>4. [op |-> "RemoveDraft"] \in Request
    BY DEF Request
  <2>. QED BY <2>1, <2>3, <2>4, <1>t, <1>q, <1>e DEF TypeInv
<1>13. CASE OnFileFailed
  BY <1>13, <1>t, <1>e DEF OnFileFailed, TypeInv
<1>14. CASE OnChanged
  <2>1. buffers # <<>> => Head(buffers) \in Buffer
    BY <1>t
  <2>2. buffers # <<>> => [op |-> "ReadFile", id |-> Head(buffers).id] \in Request
    BY <2>1 DEF Request, Buffer
  <2>. QED BY <1>14, <2>2, <1>t, <1>q, <1>e DEF OnChanged, TypeInv
<1>15. CASE Crash
  <2>. DEFINE b == Fresh(1, disk)
  <2>1. b \in Buffer
    BY <1>t, <1>f
  <2>. HIDE DEF b
  <2>2. <<>> \in Seq(Buffer) /\ <<b>> \in Seq(Buffer) /\ <<>> \in Seq(Request) /\ <<>> \in Seq(Event)
    BY <2>1
  <2>3. buffers' = <<b>> \/ buffers' = <<>>
    BY <1>15 DEF Crash, b
  <2>. QED BY <1>15, <2>2, <2>3, <1>t DEF Crash, TypeInv
<1>16. CASE Human
  <2>1. ASSUME NEW i \in DOMAIN buffers, NEW t \in Text, TypeText(i, t) PROVE TypeInv'
    BY <1>2, <2>1 DEF TypeText, SomeText
  <2>2. ASSUME NEW dispatched \in BOOLEAN, AcceptDraft(dispatched) PROVE TypeInv'
    <3>1. CASE buffers = <<>>
      BY <1>t, <2>2, <3>1 DEF AcceptDraft, TypeInv
    <3>2. CASE buffers # <<>>
      <4>1. 1 \in DOMAIN buffers
        BY <3>2, <1>t
      <4>. QED BY <1>2, <1>t, <2>2, <3>2, <4>1 DEF AcceptDraft
    <3>. QED BY <3>1, <3>2
  <2>3. CASE OtherCommand \/ IgnoreDraft
    BY <1>t, <2>3 DEF OtherCommand, IgnoreDraft, TypeInv
  <2>. QED BY <1>16, <1>1, <1>3, <1>4, <1>5, <2>1, <2>2, <2>3 DEF Human
<1>17. CASE UNCHANGED vars
  BY <1>17, <1>t DEF vars, TypeInv
<1>. QED
  BY <1>6, <1>7, <1>8, <1>9, <1>10, <1>11, <1>12, <1>13, <1>14, <1>15, <1>16, <1>17
     DEF Next, Absorb

\* Nothing is open and nothing is under way at first.
LEMMA InitSave == Init => SaveInv
<1>. SUFFICES ASSUME Init PROVE SaveInv
  OBVIOUS
<1>1. DOMAIN buffers = {} /\ DOMAIN queue = {} /\ DOMAIN events = {} /\ opening = {}
  BY DEF Init
<1>2. TypeInv
  <2>1. buffers = <<>> /\ queue = <<>> /\ events = <<>> /\ nextId = 0 /\ opening = {} /\ touched = FALSE /\ told = FALSE
        /\ disk \in SomeText /\ draft \in SomeText
    BY DEF Init, SomeText
  <2>2. <<>> \in Seq(Buffer) /\ <<>> \in Seq(Request) /\ <<>> \in Seq(Event)
    OBVIOUS
  <2>. QED BY <2>1, <2>2 DEF TypeInv
<1>3. OneBuffer
  BY DEF Init, OneBuffer
<1>. QED BY <1>1, <1>2, <1>3 DEF SaveInv, IdsInv, ReadAskedOnce,
     ReadAnsweredOnce, ReadAskedOrAnswered, WritesAreOld, NewsFollows,
     SavesAheadOfReads, SavesBehindReads, MarkedBefore, SavedBetween, SavingBetween,
     SavedInOrder, SavedThenSaving, SavingInOrder, SavedAreCurrent

\* A step that leaves the file, the buffers, the requests and the events alone.
LEMMA StutterSave ==
  ASSUME SaveInv, UNCHANGED saveVars, UNCHANGED draft
  PROVE  SaveInv'
<1>. USE DEF saveVars
<1>1. UNCHANGED <<LiveIds, OpenIds>>
  BY DEF LiveIds, OpenIds
<1>2. TypeInv' /\ IdsInv' /\ OneBuffer'
  BY DEF SaveInv, TypeInv, IdsInv, OneBuffer
<1>3. ReadAskedOnce' /\ ReadAnsweredOnce' /\ ReadAskedOrAnswered' /\ WritesAreOld'
  BY <1>1 DEF SaveInv, ReadAskedOnce, ReadAnsweredOnce, ReadAskedOrAnswered, WritesAreOld
<1>4. NewsFollows' /\ SavedAreCurrent'
  BY <1>1 DEF SaveInv, NewsFollows, ChangeFollows, SavedAreCurrent, NoticeOnTheWay
<1>5. SavesAheadOfReads' /\ SavesBehindReads'
  BY DEF SaveInv, SavesAheadOfReads, SavesBehindReads, IsAhead
<1>6. MarkedBefore' /\ SavedBetween' /\ SavingBetween'
  BY DEF SaveInv, MarkedBefore, SavedBetween, SavingBetween
<1>7. SavedInOrder' /\ SavedThenSaving' /\ SavingInOrder'
  BY <1>1 DEF SaveInv, SavedInOrder, SavedThenSaving, SavingInOrder
<1>. QED BY <1>2, <1>3, <1>4, <1>5, <1>6, <1>7 DEF SaveInv

\* Opening the file asks for its first read (open_file).
LEMMA OpenFileSave ==
  ASSUME SaveInv, TypeInv', OpenFile
  PROVE  SaveInv'
<1>. USE DEF recovery, outside
<1>t. TypeInv /\ OneBuffer BY DEF SaveInv
<1>f. FieldsTyped
  BY <1>t, FieldTypes
<1>. DEFINE r == [op |-> "ReadFile", id |-> nextId + 1]
<1>1. /\ UNCHANGED <<disk, draft, buffers, events, touched, told>> /\ buffers = <<>> /\ opening = {}
      /\ nextId' = nextId + 1 /\ opening' = {nextId + 1} /\ queue' = Append(queue, r)
  BY DEF OpenFile
<1>2. r \in Request /\ r.op = "ReadFile" /\ r.id = nextId + 1 /\ nextId \in Nat
  BY <1>t DEF TypeInv, Request
<1>. HIDE DEF r
<1>o. OpenIds' = OpenIds /\ OpenIds = {}
  BY <1>1 DEF OpenIds
<1>q. Grown(queue', queue, r)
  BY <1>t, <1>1, <1>2, AppendFacts DEF TypeInv
<1>21. IdsInv'
  BY <1>1, <1>2, <1>o, <1>q, <1>t, <1>f DEF SaveInv, IdsInv, Grown, FieldsTyped, TypeInv
<1>22. OneBuffer'
  BY <1>1, <1>2, <1>o DEF SaveInv, OneBuffer
<1>23. SavesAheadOfReads' /\ SavesBehindReads'
  BY <1>1 DEF SavesAheadOfReads, SavesBehindReads
<1>24. ReadAskedOnce'
  BY <1>1, <1>2, <1>o, <1>q, <1>f DEF SaveInv, ReadAskedOnce, Grown, FieldsTyped, IdsInv
<1>25. ReadAnsweredOnce'
  BY <1>1, <1>2, <1>o, <1>f DEF SaveInv, ReadAnsweredOnce, FieldsTyped, IdsInv
<1>26. ReadAskedOrAnswered'
  BY <1>1, <1>2, <1>o, <1>q, <1>f DEF SaveInv, ReadAskedOrAnswered, Grown, FieldsTyped,
     IdsInv
<1>27. WritesAreOld'
  BY <1>1, <1>2, <1>o, <1>q, <1>f DEF SaveInv, WritesAreOld, Grown, FieldsTyped, LiveIds,
     IdsInv
<1>28. NewsFollows'
  BY <1>1, <1>2, <1>o, <1>q, <1>f DEF SaveInv, NewsFollows, Grown, FieldsTyped,
     ChangeFollows, LiveIds, IdsInv
<1>32. MarkedBefore'
  BY <1>1, <1>2, <1>o, <1>f DEF SaveInv, MarkedBefore, FieldsTyped
<1>33. SavedBetween'
  BY <1>1, <1>2, <1>o, <1>f DEF SaveInv, SavedBetween, FieldsTyped, Between
<1>34. SavingBetween'
  BY <1>1, <1>2, <1>o, <1>q, <1>f DEF SaveInv, SavingBetween, Grown, FieldsTyped, Between
<1>35. SavedInOrder'
  BY <1>1, <1>2, <1>o DEF SaveInv, SavedInOrder, LiveIds
<1>36. SavedThenSaving'
  BY <1>1, <1>2, <1>o, <1>q DEF SaveInv, SavedThenSaving, Grown, LiveIds
<1>37. SavingInOrder'
  BY <1>1, <1>2, <1>o, <1>q DEF SaveInv, SavingInOrder, Grown, LiveIds
<1>39. SavedAreCurrent'
  BY <1>1, <1>2, <1>o, <1>q DEF SaveInv, SavedAreCurrent, Grown, NoticeOnTheWay, IsDirty
<1>. QED BY <1>21, <1>22, <1>23, <1>24, <1>25, <1>26, <1>27, <1>28, <1>32, <1>33, <1>34,
     <1>35, <1>36, <1>37, <1>39 DEF SaveInv

\* An edit, typed or of a restored draft, keeps the invariant while no re-read is
\* under way (type_char, apply_recovery_drafts).
LEMMA EditSave ==
  ASSUME SaveInv, TypeInv', NEW i \in DOMAIN buffers, NEW t \in SomeText, told' \in BOOLEAN,
         buffers' = [buffers EXCEPT ![i].text = t, ![i].version = @ + 1],
         UNCHANGED <<disk, draft, nextId, opening, queue, events, touched>>
  PROVE  SaveInv'
<1>. USE DEF recovery, outside
<1>t. TypeInv /\ OneBuffer BY DEF SaveInv
<1>f. FieldsTyped
  BY <1>t, FieldTypes
<1>0. i = 1 /\ buffers[1] \in Buffer /\ DOMAIN buffers = {1} /\ buffers # <<>>
  BY <1>t, TheBuffer
<1>1. DOMAIN buffers' = {1}
  BY <1>0
<1>2. /\ Len(buffers') = Len(buffers)
      /\ buffers'[1].id = buffers[1].id /\ buffers'[1].version = buffers[1].version + 1
      /\ buffers'[1].saved = buffers[1].saved
      /\ buffers[1].version \in Nat /\ buffers[1].saved \in Nat
  <2>1. buffers[1].version \in Nat /\ buffers[1].saved \in Nat
    BY <1>0 DEF Buffer
  <2>2. buffers \in Seq(Buffer) /\ buffers' \in Seq(Buffer) /\ DOMAIN buffers' = DOMAIN buffers
    BY <1>0, <1>1, <1>t DEF TypeInv
  <2>3. Len(buffers') = Len(buffers)
    BY <2>2
  <2>. QED BY <1>0, <2>1, <2>3 DEF Buffer
<1>o. OpenIds' = OpenIds /\ LiveIds' = LiveIds
  BY <1>0, <1>1, <1>2 DEF OpenIds, LiveIds
<1>21. IdsInv'
  BY <1>0, <1>1, <1>2, <1>o, <1>t, <1>f DEF SaveInv, IdsInv, FieldsTyped, TypeInv
<1>22. OneBuffer'
  BY <1>0, <1>1, <1>2, <1>o DEF SaveInv, OneBuffer
<1>23. SavesAheadOfReads' /\ SavesBehindReads'
  <2>1. \A a, b : IsAhead(a, b)' => IsAhead(a, b)
    BY DEF IsAhead
  <2>. QED BY <1>0, <1>1, <1>2, <2>1, OrderKept DEF SaveInv
<1>24. ReadAskedOnce'
  BY <1>0, <1>1, <1>2, <1>o DEF SaveInv, ReadAskedOnce
<1>25. ReadAnsweredOnce'
  BY <1>0, <1>1, <1>2, <1>o DEF SaveInv, ReadAnsweredOnce
<1>26. ReadAskedOrAnswered'
  BY <1>0, <1>1, <1>2, <1>o DEF SaveInv, ReadAskedOrAnswered
<1>27. WritesAreOld'
  BY <1>0, <1>1, <1>2, <1>o DEF SaveInv, WritesAreOld
<1>28. NewsFollows'
  BY <1>0, <1>1, <1>2, <1>o DEF SaveInv, NewsFollows, ChangeFollows
<1>32. MarkedBefore'
  BY <1>0, <1>1, <1>2, <1>o, <1>f DEF SaveInv, MarkedBefore, FieldsTyped
<1>33. SavedBetween'
  BY <1>0, <1>1, <1>2, <1>o, <1>f DEF SaveInv, SavedBetween, FieldsTyped, Between
<1>34. SavingBetween'
  BY <1>0, <1>1, <1>2, <1>o, <1>f DEF SaveInv, SavingBetween, FieldsTyped, Between
<1>35. SavedInOrder'
  BY <1>0, <1>1, <1>2, <1>o DEF SaveInv, SavedInOrder
<1>36. SavedThenSaving'
  BY <1>0, <1>1, <1>2, <1>o DEF SaveInv, SavedThenSaving
<1>37. SavingInOrder'
  BY <1>0, <1>1, <1>2, <1>o DEF SaveInv, SavingInOrder
<1>39. SavedAreCurrent'
  BY <1>0, <1>1, <1>2, <1>o DEF SaveInv, SavedAreCurrent, NoticeOnTheWay, IsDirty,
     MarkedBefore
<1>. QED BY <1>21, <1>22, <1>23, <1>24, <1>25, <1>26, <1>27, <1>28, <1>32, <1>33, <1>34,
     <1>35, <1>36, <1>37, <1>39 DEF SaveInv

\* A save is the newest of its buffer, behind no read of it (save_active_buffer).
LEMMA SaveActiveBufferSave ==
  ASSUME SaveInv, TypeInv', NEW i \in DOMAIN buffers, SaveActiveBuffer(i)
  PROVE  SaveInv'
<1>. USE DEF recovery, outside
<1>t. TypeInv /\ OneBuffer BY DEF SaveInv
<1>f. FieldsTyped
  BY <1>t, FieldTypes
<1>. DEFINE r == [op |-> "WriteFile", id |-> buffers[i].id, version |-> buffers[i].version, text |-> buffers[i].text]
<1>0. i = 1 /\ buffers[1] \in Buffer /\ DOMAIN buffers = {1} /\ buffers # <<>>
  BY <1>t, TheBuffer
<1>1. /\ UNCHANGED <<disk, draft, buffers, nextId, opening, events, touched, told>>
      /\ queue' = Append(queue, r) /\ IsDirty(buffers[1]) /\ buffers # <<>>
  BY <1>0 DEF SaveActiveBuffer
<1>2. r \in Request /\ r.op = "WriteFile" /\ r.id = buffers[1].id /\ r.version = buffers[1].version
      /\ r.version \in Nat /\ buffers[1].saved \in Nat
  BY <1>0 DEF Buffer, Request
<1>. HIDE DEF r
<1>o. OpenIds' = OpenIds /\ LiveIds' = LiveIds /\ OpenIds = {buffers[1].id}
  BY <1>0, <1>1 DEF OpenIds, LiveIds
<1>q. Grown(queue', queue, r)
  BY <1>t, <1>1, <1>2, AppendFacts DEF TypeInv
<1>3. buffers[1].saved < r.version
  BY <1>0, <1>1, <1>2 DEF SaveInv, MarkedBefore, IsDirty
<1>21. IdsInv'
  BY <1>0, <1>1, <1>2, <1>3, <1>o, <1>q, <1>t, <1>f DEF SaveInv, IdsInv, Grown,
     FieldsTyped, TypeInv
<1>22. OneBuffer'
  BY <1>0, <1>1, <1>2, <1>3, <1>o DEF SaveInv, OneBuffer
<1>23. SavesAheadOfReads' /\ SavesBehindReads'
  <2>1. \A a, b : IsAhead(a, b)' => IsAhead(a, b) \/ b = r
    BY <1>1, <1>q, AheadAsked
  <2>2. ~IsRead(r, buffers[1].id) /\ buffers[1].saved < r.version
    BY <1>2, <1>3 DEF IsRead
  <2>. QED BY <1>0, <1>1, <2>1, <2>2 DEF SaveInv, SavesAheadOfReads, SavesBehindReads
<1>24. ReadAskedOnce'
  BY <1>0, <1>1, <1>2, <1>3, <1>o, <1>q DEF SaveInv, ReadAskedOnce, Grown
<1>25. ReadAnsweredOnce'
  BY <1>0, <1>1, <1>2, <1>3, <1>o DEF SaveInv, ReadAnsweredOnce
<1>26. ReadAskedOrAnswered'
  BY <1>0, <1>1, <1>2, <1>3, <1>o, <1>q DEF SaveInv, ReadAskedOrAnswered, Grown
<1>27. WritesAreOld'
  BY <1>0, <1>1, <1>2, <1>3, <1>o, <1>q DEF SaveInv, WritesAreOld, Grown, OneBuffer
<1>28. NewsFollows'
  BY <1>0, <1>1, <1>2, <1>3, <1>o, <1>q DEF SaveInv, NewsFollows, Grown, ChangeFollows
<1>32. MarkedBefore'
  BY <1>0, <1>1, <1>2, <1>3, <1>o, <1>f DEF SaveInv, MarkedBefore, FieldsTyped
<1>33. SavedBetween'
  BY <1>0, <1>1, <1>2, <1>3, <1>o, <1>f DEF SaveInv, SavedBetween, FieldsTyped, Between
<1>34. SavingBetween'
  BY <1>0, <1>1, <1>2, <1>3, <1>o, <1>q, <1>f DEF SaveInv, SavingBetween, Grown,
     FieldsTyped, Between, MarkedBefore
<1>35. SavedInOrder'
  BY <1>0, <1>1, <1>2, <1>3, <1>o DEF SaveInv, SavedInOrder
<1>36. SavedThenSaving'
  <2>. SUFFICES ASSUME NEW j \in DOMAIN events, NEW k \in DOMAIN queue',
                       events[j].op = "FileSaved", queue'[k].op = "WriteFile",
                       events[j].id = queue'[k].id, queue'[k].id \in OpenIds
                PROVE  events[j].version <= queue'[k].version
    BY <1>1, <1>o DEF SavedThenSaving
  <2>1. CASE k \in DOMAIN queue /\ queue'[k] = queue[k]
    BY <2>1 DEF SaveInv, SavedThenSaving
  <2>2. CASE queue'[k] = r
    BY <1>0, <1>2, <2>2 DEF SaveInv, SavedBetween, Between
  <2>. QED BY <1>q, <2>1, <2>2 DEF Grown
<1>37. SavingInOrder'
  BY <1>0, <1>1, <1>2, <1>3, <1>o, <1>q DEF SaveInv, SavingInOrder, Grown, SavingBetween,
     Between
<1>39. SavedAreCurrent'
  BY <1>0, <1>1, <1>2, <1>3, <1>o, <1>q DEF SaveInv, SavedAreCurrent, Grown,
     NoticeOnTheWay, IsDirty
<1>. QED BY <1>21, <1>22, <1>23, <1>24, <1>25, <1>26, <1>27, <1>28, <1>32, <1>33, <1>34,
     <1>35, <1>36, <1>37, <1>39 DEF SaveInv

\* A closed buffer leaves no read behind, when none was under way (close_tab).
LEMMA CloseTabSave ==
  ASSUME SaveInv, TypeInv', NEW i \in DOMAIN buffers, CloseTab(i)
  PROVE  SaveInv'
<1>. USE DEF recovery, outside
<1>t. TypeInv /\ OneBuffer BY DEF SaveInv
<1>f. FieldsTyped
  BY <1>t, FieldTypes
<1>0. i = 1 /\ DOMAIN buffers = {1} /\ buffers # <<>> /\ opening = {} /\ Len(buffers) = 1
  BY <1>t, TheBuffer, LenProperties DEF OneBuffer, TypeInv
<1>1. /\ buffers' = <<>> /\ UNCHANGED <<disk, draft, nextId, opening, queue, events, touched, told>>
  BY <1>0, <1>t DEF CloseTab, TypeInv, RemoveAt
<1>2. <<>> \in Seq(Buffer) /\ DOMAIN buffers' = {}
  BY <1>1
<1>o. LiveIds' = {} /\ OpenIds' = {} /\ LiveIds = {buffers[1].id} /\ OpenIds = {buffers[1].id}
  BY <1>0, <1>1, <1>2 DEF OpenIds, LiveIds
<1>21. IdsInv'
  BY <1>0, <1>1, <1>2, <1>o, <1>t, <1>f DEF SaveInv, IdsInv, FieldsTyped, TypeInv
<1>22. OneBuffer'
  BY <1>0, <1>1, <1>2, <1>o DEF SaveInv, OneBuffer
<1>23. SavesAheadOfReads' /\ SavesBehindReads'
  BY <1>2 DEF SavesAheadOfReads, SavesBehindReads
<1>24. ReadAskedOnce'
  BY <1>0, <1>1, <1>2, <1>o DEF SaveInv, ReadAskedOnce
<1>25. ReadAnsweredOnce'
  BY <1>0, <1>1, <1>2, <1>o DEF SaveInv, ReadAnsweredOnce
<1>26. ReadAskedOrAnswered'
  BY <1>0, <1>1, <1>2, <1>o DEF SaveInv, ReadAskedOrAnswered
<1>27. WritesAreOld'
  BY <1>0, <1>1, <1>2, <1>o DEF SaveInv, WritesAreOld
<1>28. NewsFollows'
  BY <1>0, <1>1, <1>2, <1>o DEF SaveInv, NewsFollows, ChangeFollows
<1>32. MarkedBefore'
  BY <1>0, <1>1, <1>2, <1>o, <1>f DEF SaveInv, MarkedBefore, FieldsTyped
<1>33. SavedBetween'
  BY <1>0, <1>1, <1>2, <1>o, <1>f DEF SaveInv, SavedBetween, FieldsTyped, Between
<1>34. SavingBetween'
  BY <1>0, <1>1, <1>2, <1>o, <1>f DEF SaveInv, SavingBetween, FieldsTyped, Between
<1>35. SavedInOrder'
  BY <1>0, <1>1, <1>2, <1>o DEF SaveInv, SavedInOrder
<1>36. SavedThenSaving'
  BY <1>0, <1>1, <1>2, <1>o DEF SaveInv, SavedThenSaving
<1>37. SavingInOrder'
  BY <1>0, <1>1, <1>2, <1>o DEF SaveInv, SavingInOrder
<1>39. SavedAreCurrent'
  BY <1>0, <1>1, <1>2, <1>o DEF SaveInv, SavedAreCurrent, NoticeOnTheWay, IsDirty
<1>. QED BY <1>21, <1>22, <1>23, <1>24, <1>25, <1>26, <1>27, <1>28, <1>32, <1>33, <1>34,
     <1>35, <1>36, <1>37, <1>39 DEF SaveInv

\* A draft's id is new, so the answer is no buffer's (queue_due_drafts).
LEMMA QueueDueDraftsSave ==
  ASSUME SaveInv, TypeInv', QueueDueDrafts
  PROVE  SaveInv'
<1>. USE DEF recovery, outside
<1>t. TypeInv /\ OneBuffer BY DEF SaveInv
<1>f. FieldsTyped
  BY <1>t, FieldTypes
<1>1. CASE DirtyAt(buffers) = {}
  <2>1. UNCHANGED saveVars /\ UNCHANGED draft
    BY <1>1 DEF QueueDueDrafts, saveVars
  <2>. QED BY <2>1, StutterSave
<1>2. CASE DirtyAt(buffers) # {}
  <2>. DEFINE r == [op |-> "WriteDraft", id |-> nextId + 1, version |-> buffers[1].version, text |-> buffers[1].text]
  <2>0. buffers # <<>>
    BY <1>2 DEF DirtyAt
  <2>1. DOMAIN buffers = {1} /\ buffers[1] \in Buffer /\ LastDirty(buffers) = buffers[1]
    BY <1>t, <1>2, <2>0, TheBuffer
  <2>2. /\ UNCHANGED <<disk, draft, buffers, opening, events, touched, told>> /\ nextId' = nextId + 1 /\ nextId \in Nat
        /\ queue' = Append(queue, r)
    BY <1>2, <2>1, <1>t DEF QueueDueDrafts, TypeInv
  <2>3. r \in Request /\ r.op = "WriteDraft" /\ r.id = nextId + 1
    BY <2>1, <2>2 DEF Buffer, Request
  <2>. HIDE DEF r
  <2>o. OpenIds' = OpenIds /\ LiveIds' = LiveIds /\ r.id \notin LiveIds
    <3>1. \A id \in LiveIds : id \in Nat /\ id <= nextId
      BY <1>t, <1>f DEF SaveInv, IdsInv, LiveIds, OpenIds, FieldsTyped, TypeInv
    <3>. QED BY <3>1, <2>2, <2>3 DEF OpenIds, LiveIds
  <2>q. Grown(queue', queue, r)
    BY <1>t, <2>2, <2>3, AppendFacts DEF TypeInv
  <2>21. IdsInv'
    BY <2>1, <2>2, <2>3, <2>o, <2>q, <1>t, <1>f DEF SaveInv, IdsInv, Grown, FieldsTyped,
       TypeInv
  <2>22. OneBuffer'
    BY <2>1, <2>2, <2>3, <2>o DEF SaveInv, OneBuffer
  <2>23. SavesAheadOfReads' /\ SavesBehindReads'
    <3>1. \A a, b : IsAhead(a, b)' => IsAhead(a, b) \/ b = r
      BY <2>2, <2>q, AheadAsked
    <3>2. Silent(r)
      BY <2>3 DEF Silent, IsSave, IsRead
    <3>. QED BY <2>2, <3>1, <3>2, OrderKept DEF SaveInv
  <2>24. ReadAskedOnce'
    BY <2>1, <2>2, <2>3, <2>o, <2>q DEF SaveInv, ReadAskedOnce, Grown
  <2>25. ReadAnsweredOnce'
    BY <2>1, <2>2, <2>3, <2>o DEF SaveInv, ReadAnsweredOnce
  <2>26. ReadAskedOrAnswered'
    BY <2>1, <2>2, <2>3, <2>o, <2>q DEF SaveInv, ReadAskedOrAnswered, Grown
  <2>27. WritesAreOld'
    BY <2>1, <2>2, <2>3, <2>o, <2>q DEF SaveInv, WritesAreOld, Grown
  <2>28. NewsFollows'
    BY <2>1, <2>2, <2>3, <2>o, <2>q DEF SaveInv, NewsFollows, Grown, ChangeFollows
  <2>32. MarkedBefore'
    BY <2>1, <2>2, <2>3, <2>o, <1>f DEF SaveInv, MarkedBefore, FieldsTyped
  <2>33. SavedBetween'
    BY <2>1, <2>2, <2>3, <2>o, <1>f DEF SaveInv, SavedBetween, FieldsTyped, Between
  <2>34. SavingBetween'
    BY <2>1, <2>2, <2>3, <2>o, <2>q, <1>f DEF SaveInv, SavingBetween, Grown, FieldsTyped,
       Between
  <2>35. SavedInOrder'
    BY <2>1, <2>2, <2>3, <2>o DEF SaveInv, SavedInOrder
  <2>36. SavedThenSaving'
    BY <2>1, <2>2, <2>3, <2>o, <2>q DEF SaveInv, SavedThenSaving, Grown
  <2>37. SavingInOrder'
    BY <2>1, <2>2, <2>3, <2>o, <2>q DEF SaveInv, SavingInOrder, Grown
  <2>39. SavedAreCurrent'
    BY <2>1, <2>2, <2>3, <2>o, <2>q DEF SaveInv, SavedAreCurrent, Grown, NoticeOnTheWay,
       IsDirty
  <2>. QED BY <2>21, <2>22, <2>23, <2>24, <2>25, <2>26, <2>27, <2>28, <2>32, <2>33, <2>34,
       <2>35, <2>36, <2>37, <2>39 DEF SaveInv
<1>. QED BY <1>1, <1>2

\* Removing the draft touches neither buffers nor file (discard_recovery_drafts).
LEMMA DiscardDraftSave ==
  ASSUME SaveInv, TypeInv', DiscardDraft
  PROVE  SaveInv'
<1>. USE DEF recovery, outside
<1>t. TypeInv /\ OneBuffer BY DEF SaveInv
<1>f. FieldsTyped
  BY <1>t, FieldTypes
<1>. DEFINE r == [op |-> "RemoveDraft"]
<1>1. UNCHANGED <<disk, draft, buffers, nextId, opening, events, touched, told>> /\ queue' = Append(queue, r)
  BY DEF DiscardDraft
<1>2. r \in Request /\ r.op = "RemoveDraft"
  BY DEF Request
<1>. HIDE DEF r
<1>o. OpenIds' = OpenIds /\ LiveIds' = LiveIds
  BY <1>1 DEF OpenIds, LiveIds
<1>q. Grown(queue', queue, r)
  BY <1>t, <1>1, <1>2, AppendFacts DEF TypeInv
<1>21. IdsInv'
  BY <1>1, <1>2, <1>o, <1>q, <1>t, <1>f DEF SaveInv, IdsInv, Grown, FieldsTyped, TypeInv
<1>22. OneBuffer'
  BY <1>1, <1>2, <1>o DEF SaveInv, OneBuffer
<1>23. SavesAheadOfReads' /\ SavesBehindReads'
  <2>1. \A a, b : IsAhead(a, b)' => IsAhead(a, b) \/ b = r
    BY <1>1, <1>q, AheadAsked
  <2>2. Silent(r)
    BY <1>2 DEF Silent, IsSave, IsRead
  <2>. QED BY <1>1, <2>1, <2>2, OrderKept DEF SaveInv
<1>24. ReadAskedOnce'
  BY <1>1, <1>2, <1>o, <1>q DEF SaveInv, ReadAskedOnce, Grown
<1>25. ReadAnsweredOnce'
  BY <1>1, <1>2, <1>o DEF SaveInv, ReadAnsweredOnce
<1>26. ReadAskedOrAnswered'
  BY <1>1, <1>2, <1>o, <1>q DEF SaveInv, ReadAskedOrAnswered, Grown
<1>27. WritesAreOld'
  BY <1>1, <1>2, <1>o, <1>q DEF SaveInv, WritesAreOld, Grown
<1>28. NewsFollows'
  BY <1>1, <1>2, <1>o, <1>q DEF SaveInv, NewsFollows, Grown, ChangeFollows
<1>32. MarkedBefore'
  BY <1>1, <1>2, <1>o, <1>f DEF SaveInv, MarkedBefore, FieldsTyped
<1>33. SavedBetween'
  BY <1>1, <1>2, <1>o, <1>f DEF SaveInv, SavedBetween, FieldsTyped, Between
<1>34. SavingBetween'
  BY <1>1, <1>2, <1>o, <1>q, <1>f DEF SaveInv, SavingBetween, Grown, FieldsTyped, Between
<1>35. SavedInOrder'
  BY <1>1, <1>2, <1>o DEF SaveInv, SavedInOrder
<1>36. SavedThenSaving'
  BY <1>1, <1>2, <1>o, <1>q DEF SaveInv, SavedThenSaving, Grown
<1>37. SavingInOrder'
  BY <1>1, <1>2, <1>o, <1>q DEF SaveInv, SavingInOrder, Grown
<1>39. SavedAreCurrent'
  BY <1>1, <1>2, <1>o, <1>q DEF SaveInv, SavedAreCurrent, Grown, NoticeOnTheWay, IsDirty
<1>. QED BY <1>21, <1>22, <1>23, <1>24, <1>25, <1>26, <1>27, <1>28, <1>32, <1>33, <1>34,
     <1>35, <1>36, <1>37, <1>39 DEF SaveInv

\* The batch the watcher held is now an event behind all others (Coalescer).
LEMMA ReportChangeSave ==
  ASSUME SaveInv, TypeInv', ReportChange
  PROVE  SaveInv'
<1>. USE DEF recovery, outside
<1>t. TypeInv /\ OneBuffer BY DEF SaveInv
<1>f. FieldsTyped
  BY <1>t, FieldTypes
<1>. DEFINE e == [op |-> "Changed"]
<1>1. UNCHANGED <<disk, draft, buffers, nextId, opening, queue, told>> /\ touched' = FALSE /\ events' = Append(events, e)
  BY DEF ReportChange
<1>2. e \in Event /\ e.op = "Changed"
  BY DEF Event
<1>. HIDE DEF e
<1>o. OpenIds' = OpenIds /\ LiveIds' = LiveIds
  BY <1>1 DEF OpenIds, LiveIds
<1>e. Grown(events', events, e)
  BY <1>t, <1>1, <1>2, AppendFacts DEF TypeInv
<1>21. IdsInv'
  BY <1>1, <1>2, <1>o, <1>e, <1>t, <1>f DEF SaveInv, IdsInv, Grown, FieldsTyped, TypeInv
<1>22. OneBuffer'
  BY <1>1, <1>2, <1>o DEF SaveInv, OneBuffer
<1>23. SavesAheadOfReads' /\ SavesBehindReads'
  <2>1. \A a, b : IsAhead(a, b)' => IsAhead(a, b) \/ a = e \/ b = e
    BY <1>1, <1>e, AheadReported
  <2>2. Silent(e)
    BY <1>2 DEF Silent, IsSave, IsRead
  <2>. QED BY <1>1, <2>1, <2>2, OrderKept DEF SaveInv
<1>24. ReadAskedOnce'
  BY <1>1, <1>2, <1>o DEF SaveInv, ReadAskedOnce
<1>25. ReadAnsweredOnce'
  BY <1>1, <1>2, <1>o, <1>e DEF SaveInv, ReadAnsweredOnce, Grown
<1>26. ReadAskedOrAnswered'
  BY <1>1, <1>2, <1>o, <1>e DEF SaveInv, ReadAskedOrAnswered, Grown
<1>27. WritesAreOld'
  BY <1>1, <1>2, <1>o, <1>e DEF SaveInv, WritesAreOld, Grown
<1>28. NewsFollows'
  BY <1>1, <1>2, <1>o, <1>e DEF SaveInv, NewsFollows, Grown, ChangeFollows
<1>32. MarkedBefore'
  BY <1>1, <1>2, <1>o, <1>f DEF SaveInv, MarkedBefore, FieldsTyped
<1>33. SavedBetween'
  BY <1>1, <1>2, <1>o, <1>e, <1>f DEF SaveInv, SavedBetween, Grown, FieldsTyped, Between
<1>34. SavingBetween'
  BY <1>1, <1>2, <1>o, <1>f DEF SaveInv, SavingBetween, FieldsTyped, Between
<1>35. SavedInOrder'
  BY <1>1, <1>2, <1>o, <1>e DEF SaveInv, SavedInOrder, Grown
<1>36. SavedThenSaving'
  BY <1>1, <1>2, <1>o, <1>e DEF SaveInv, SavedThenSaving, Grown
<1>37. SavingInOrder'
  BY <1>1, <1>2, <1>o DEF SaveInv, SavingInOrder
<1>39. SavedAreCurrent'
  BY <1>1, <1>2, <1>o, <1>e DEF SaveInv, SavedAreCurrent, Grown, NoticeOnTheWay, IsDirty
<1>. QED BY <1>21, <1>22, <1>23, <1>24, <1>25, <1>26, <1>27, <1>28, <1>32, <1>33, <1>34,
     <1>35, <1>36, <1>37, <1>39 DEF SaveInv

\* A foreign write is in the watcher's batch.
LEMMA WrittenByOtherSave ==
  ASSUME SaveInv, TypeInv', NEW t \in Text, WrittenByOther(t)
  PROVE  SaveInv'
<1>. USE DEF recovery, outside
<1>t. TypeInv /\ OneBuffer BY DEF SaveInv
<1>f. FieldsTyped
  BY <1>t, FieldTypes
<1>1. UNCHANGED <<draft, buffers, nextId, opening, queue, events, told>> /\ touched' = TRUE /\ disk' = t /\ t \in SomeText
  BY DEF WrittenByOther, SomeText
<1>o. OpenIds' = OpenIds /\ LiveIds' = LiveIds
  BY <1>1 DEF OpenIds, LiveIds
<1>21. IdsInv'
  BY <1>1, <1>o, <1>t, <1>f DEF SaveInv, IdsInv, FieldsTyped, TypeInv
<1>22. OneBuffer'
  BY <1>1, <1>o DEF SaveInv, OneBuffer
<1>23. SavesAheadOfReads' /\ SavesBehindReads'
  <2>1. \A a, b : IsAhead(a, b)' => IsAhead(a, b)
    BY <1>1 DEF IsAhead
  <2>. QED BY <1>1, <2>1, OrderKept DEF SaveInv
<1>24. ReadAskedOnce'
  BY <1>1, <1>o DEF SaveInv, ReadAskedOnce
<1>25. ReadAnsweredOnce'
  BY <1>1, <1>o DEF SaveInv, ReadAnsweredOnce
<1>26. ReadAskedOrAnswered'
  BY <1>1, <1>o DEF SaveInv, ReadAskedOrAnswered
<1>27. WritesAreOld'
  BY <1>1, <1>o DEF SaveInv, WritesAreOld
<1>28. NewsFollows'
  BY <1>1, <1>o DEF SaveInv, NewsFollows, ChangeFollows
<1>32. MarkedBefore'
  BY <1>1, <1>o, <1>f DEF SaveInv, MarkedBefore, FieldsTyped
<1>33. SavedBetween'
  BY <1>1, <1>o, <1>f DEF SaveInv, SavedBetween, FieldsTyped, Between
<1>34. SavingBetween'
  BY <1>1, <1>o, <1>f DEF SaveInv, SavingBetween, FieldsTyped, Between
<1>35. SavedInOrder'
  BY <1>1, <1>o DEF SaveInv, SavedInOrder
<1>36. SavedThenSaving'
  BY <1>1, <1>o DEF SaveInv, SavedThenSaving
<1>37. SavingInOrder'
  BY <1>1, <1>o DEF SaveInv, SavingInOrder
<1>39. SavedAreCurrent'
  BY <1>1, <1>o DEF SaveInv, SavedAreCurrent, NoticeOnTheWay, IsDirty
<1>. QED BY <1>21, <1>22, <1>23, <1>24, <1>25, <1>26, <1>27, <1>28, <1>32, <1>33, <1>34,
     <1>35, <1>36, <1>37, <1>39 DEF SaveInv

\* The worker answers in the order it was asked; what it writes touches the file
\* (worker.rs, serve).
LEMMA ServeRequestSave ==
  ASSUME SaveInv, TypeInv', ServeRequest
  PROVE  SaveInv'
<1>. USE DEF recovery, outside
<1>t. TypeInv /\ OneBuffer BY DEF SaveInv
<1>f. FieldsTyped
  BY <1>t, FieldTypes
<1>. DEFINE r == queue[1]
<1>0. queue # <<>> /\ queue' = Tail(queue) /\ UNCHANGED <<buffers, nextId, opening, told>>
  BY DEF ServeRequest
<1>o. OpenIds' = OpenIds /\ LiveIds' = LiveIds
  BY <1>0 DEF OpenIds, LiveIds
<1>qt. queue' \in Seq(Request) /\ Head(queue) \in Request /\ Head(queue) = queue[1]
  BY <1>0, <1>t, TailFacts DEF TypeInv
<1>q. Shrunk(queue', queue)
  BY <1>0, <1>t, TailFacts DEF TypeInv
<1>k. r.op \in {"ReadFile", "WriteFile", "WriteDraft", "RemoveDraft"}
  BY <1>qt DEF Request
<1>1. CASE r.op = "ReadFile"
  <2>. DEFINE e == [op |-> "FileLoaded", id |-> r.id, text |-> disk]
  <2>1. UNCHANGED <<disk, draft, touched>> /\ events' = Append(events, e)
    BY <1>qt, <1>1 DEF ServeRequest
  <2>2. e \in Event /\ e.op = "FileLoaded" /\ e.id = r.id /\ e.text = disk
    BY <1>t, <1>qt, <1>1 DEF Event, Request, TypeInv
  <2>. HIDE DEF e
  <2>e. Grown(events', events, e)
    BY <1>t, <2>1, <2>2, AppendFacts DEF TypeInv
  <2>21. IdsInv'
    BY <1>0, <1>o, <1>1, <2>1, <2>2, <1>q, <2>e, <1>t, <1>f DEF SaveInv, IdsInv, Shrunk,
       Grown, FieldsTyped, TypeInv
  <2>22. OneBuffer'
    BY <1>0, <1>o, <1>1, <2>1, <2>2 DEF SaveInv, OneBuffer
  <2>23. SavesAheadOfReads' /\ SavesBehindReads'
    <3>1. StandsFor(e, queue[1])
      BY <1>1, <2>2 DEF StandsFor, IsSave, IsRead
    <3>. QED BY <1>0, <1>q, <2>e, <3>1, OrderServed DEF SaveInv
  <2>24. ReadAskedOnce'
    BY <1>0, <1>o, <1>1, <2>1, <2>2, <1>q DEF SaveInv, ReadAskedOnce, Shrunk
  <2>25. ReadAnsweredOnce'
    BY <1>0, <1>o, <1>1, <2>1, <2>2, <2>e, <1>q DEF SaveInv, ReadAnsweredOnce, Grown,
       Shrunk, ReadAskedOrAnswered
  <2>26. ReadAskedOrAnswered'
    BY <1>0, <1>o, <1>1, <2>1, <2>2, <1>q, <2>e DEF SaveInv, ReadAskedOrAnswered, Shrunk,
       Grown, ReadAskedOnce
  <2>27. WritesAreOld'
    BY <1>0, <1>o, <1>1, <2>1, <2>2, <1>q, <2>e DEF SaveInv, WritesAreOld, Shrunk, Grown
  <2>28. NewsFollows'
    BY <1>0, <1>o, <1>1, <2>1, <2>2, <1>q, <2>e DEF SaveInv, NewsFollows, Shrunk, Grown,
       ChangeFollows
  <2>32. MarkedBefore'
    BY <1>0, <1>o, <1>1, <2>1, <2>2, <1>f DEF SaveInv, MarkedBefore, FieldsTyped
  <2>33. SavedBetween'
    <3>. SUFFICES ASSUME NEW i \in DOMAIN buffers', NEW k \in DOMAIN events',
                         (events[k].op = "FileSaved" /\ events[k].id = buffers[i].id)'
                  PROVE  (buffers[i].saved <= events[k].version /\ events[k].version <= buffers[i].version)'
      BY DEF SavedBetween, Between
    <3>1. CASE k \in DOMAIN events /\ events'[k] = events[k]
      BY <3>1, <1>0 DEF SaveInv, SavedBetween, Between
    <3>2. CASE k = Len(events) + 1 /\ events'[k] = e
      BY <3>2, <1>0, <1>q, <1>1, <2>2 DEF SaveInv, Shrunk, SavingBetween, Between
    <3>. QED BY <3>1, <3>2, <2>e DEF Grown
  <2>34. SavingBetween'
    <3>1. \A k \in DOMAIN queue' : k + 1 \in DOMAIN queue /\ queue'[k] = queue[k + 1]
      BY <1>q DEF Shrunk
    <3>. QED BY <3>1, <1>0 DEF SaveInv, SavingBetween, Between
  <2>35. SavedInOrder'
    <3>. SUFFICES ASSUME NEW j \in DOMAIN events', NEW k \in DOMAIN events', j < k,
                         (/\ events[j].op = "FileSaved" /\ events[k].op = "FileSaved"
                          /\ events[j].id = events[k].id /\ events[k].id \in OpenIds)'
                  PROVE  (events[j].version <= events[k].version)'
      BY DEF SavedInOrder
    <3>1. j \in DOMAIN events /\ events'[j] = events[j]
      BY <2>e DEF Grown
    <3>2. CASE k \in DOMAIN events /\ events'[k] = events[k]
      BY <3>1, <3>2, <1>o DEF SaveInv, SavedInOrder
    <3>3. CASE k = Len(events) + 1 /\ events'[k] = e
      BY <3>1, <3>3, <1>o, <1>q, <1>1, <2>2 DEF SaveInv, Shrunk, SavedThenSaving
    <3>. QED BY <3>2, <3>3, <2>e DEF Grown
  <2>36. SavedThenSaving'
    <3>. SUFFICES ASSUME NEW j \in DOMAIN events', NEW k \in DOMAIN queue',
                         (/\ events[j].op = "FileSaved" /\ queue[k].op = "WriteFile"
                          /\ events[j].id = queue[k].id /\ queue[k].id \in OpenIds)'
                  PROVE  (events[j].version <= queue[k].version)'
      BY DEF SavedThenSaving
    <3>1. k + 1 \in DOMAIN queue /\ queue'[k] = queue[k + 1] /\ 1 < k + 1 /\ 1 \in DOMAIN queue
      BY <1>q DEF Shrunk
    <3>2. CASE j \in DOMAIN events /\ events'[j] = events[j]
      BY <3>1, <3>2, <1>o DEF SaveInv, SavedThenSaving
    <3>3. CASE j = Len(events) + 1 /\ events'[j] = e
      BY <3>1, <3>3, <1>o, <1>1, <2>2 DEF SaveInv, SavingInOrder
    <3>. QED BY <3>2, <3>3, <2>e DEF Grown
  <2>37. SavingInOrder'
    BY <1>0, <1>o, <1>1, <2>1, <2>2, <1>q, <1>f DEF SaveInv, SavingInOrder, Shrunk,
       FieldsTyped
  <2>39. SavedAreCurrent'
    BY <1>0, <1>o, <1>1, <2>1, <2>2, <1>q, <2>e DEF SaveInv, SavedAreCurrent, Shrunk,
       Grown, NoticeOnTheWay, IsDirty
  <2>. QED BY <2>21, <2>22, <2>23, <2>24, <2>25, <2>26, <2>27, <2>28, <2>32, <2>33, <2>34,
       <2>35, <2>36, <2>37, <2>39 DEF SaveInv
<1>2. CASE r.op = "WriteFile"
  <2>. DEFINE e == [op |-> "FileSaved", id |-> r.id, version |-> r.version]
  <2>1. disk' = r.text /\ touched' = TRUE /\ UNCHANGED draft /\ events' = Append(events, e)
    BY <1>qt, <1>2 DEF ServeRequest
  <2>2. e \in Event /\ e.op = "FileSaved" /\ e.id = r.id /\ e.version = r.version
    BY <1>t, <1>qt, <1>2 DEF Event, Request, TypeInv
  <2>. HIDE DEF e
  <2>e. Grown(events', events, e)
    BY <1>t, <2>1, <2>2, AppendFacts DEF TypeInv
  <2>3. disk' \in SomeText
    BY <1>qt, <1>2, <2>1 DEF Request
  <2>21. IdsInv'
    BY <1>0, <1>o, <1>2, <2>1, <2>2, <1>q, <2>e, <1>t, <1>f DEF SaveInv, IdsInv, Shrunk,
       Grown, FieldsTyped, TypeInv
  <2>22. OneBuffer'
    BY <1>0, <1>o, <1>2, <2>1, <2>2 DEF SaveInv, OneBuffer
  <2>23. SavesAheadOfReads' /\ SavesBehindReads'
    <3>1. StandsFor(e, queue[1])
      BY <1>2, <2>2 DEF StandsFor, IsSave, IsRead
    <3>. QED BY <1>0, <1>q, <2>e, <3>1, OrderServed DEF SaveInv
  <2>24. ReadAskedOnce'
    BY <1>0, <1>o, <1>2, <2>1, <2>2, <1>q DEF SaveInv, ReadAskedOnce, Shrunk
  <2>25. ReadAnsweredOnce'
    BY <1>0, <1>o, <1>2, <2>1, <2>2, <2>e, <1>q DEF SaveInv, ReadAnsweredOnce, Grown, Shrunk
  <2>26. ReadAskedOrAnswered'
    BY <1>0, <1>o, <1>2, <2>1, <2>2, <1>q, <2>e DEF SaveInv, ReadAskedOrAnswered, Shrunk,
       Grown
  <2>27. WritesAreOld'
    BY <1>0, <1>o, <1>2, <2>1, <2>2, <1>q, <2>e DEF SaveInv, WritesAreOld, Shrunk, Grown
  <2>28. NewsFollows'
    BY <1>0, <1>o, <1>2, <2>1, <2>2, <1>q, <2>e DEF SaveInv, NewsFollows, Shrunk, Grown,
       ChangeFollows
  <2>32. MarkedBefore'
    BY <1>0, <1>o, <1>2, <2>1, <2>2, <1>f DEF SaveInv, MarkedBefore, FieldsTyped
  <2>33. SavedBetween'
    <3>. SUFFICES ASSUME NEW i \in DOMAIN buffers', NEW k \in DOMAIN events',
                         (events[k].op = "FileSaved" /\ events[k].id = buffers[i].id)'
                  PROVE  (buffers[i].saved <= events[k].version /\ events[k].version <= buffers[i].version)'
      BY DEF SavedBetween, Between
    <3>1. CASE k \in DOMAIN events /\ events'[k] = events[k]
      BY <3>1, <1>0 DEF SaveInv, SavedBetween, Between
    <3>2. CASE k = Len(events) + 1 /\ events'[k] = e
      BY <3>2, <1>0, <1>q, <1>2, <2>2 DEF SaveInv, Shrunk, SavingBetween, Between
    <3>. QED BY <3>1, <3>2, <2>e DEF Grown
  <2>34. SavingBetween'
    <3>1. \A k \in DOMAIN queue' : k + 1 \in DOMAIN queue /\ queue'[k] = queue[k + 1]
      BY <1>q DEF Shrunk
    <3>. QED BY <3>1, <1>0 DEF SaveInv, SavingBetween, Between
  <2>35. SavedInOrder'
    <3>. SUFFICES ASSUME NEW j \in DOMAIN events', NEW k \in DOMAIN events', j < k,
                         (/\ events[j].op = "FileSaved" /\ events[k].op = "FileSaved"
                          /\ events[j].id = events[k].id /\ events[k].id \in OpenIds)'
                  PROVE  (events[j].version <= events[k].version)'
      BY DEF SavedInOrder
    <3>1. j \in DOMAIN events /\ events'[j] = events[j]
      BY <2>e DEF Grown
    <3>2. CASE k \in DOMAIN events /\ events'[k] = events[k]
      BY <3>1, <3>2, <1>o DEF SaveInv, SavedInOrder
    <3>3. CASE k = Len(events) + 1 /\ events'[k] = e
      BY <3>1, <3>3, <1>o, <1>q, <1>2, <2>2 DEF SaveInv, Shrunk, SavedThenSaving
    <3>. QED BY <3>2, <3>3, <2>e DEF Grown
  <2>36. SavedThenSaving'
    <3>. SUFFICES ASSUME NEW j \in DOMAIN events', NEW k \in DOMAIN queue',
                         (/\ events[j].op = "FileSaved" /\ queue[k].op = "WriteFile"
                          /\ events[j].id = queue[k].id /\ queue[k].id \in OpenIds)'
                  PROVE  (events[j].version <= queue[k].version)'
      BY DEF SavedThenSaving
    <3>1. k + 1 \in DOMAIN queue /\ queue'[k] = queue[k + 1] /\ 1 < k + 1 /\ 1 \in DOMAIN queue
      BY <1>q DEF Shrunk
    <3>2. CASE j \in DOMAIN events /\ events'[j] = events[j]
      BY <3>1, <3>2, <1>o DEF SaveInv, SavedThenSaving
    <3>3. CASE j = Len(events) + 1 /\ events'[j] = e
      BY <3>1, <3>3, <1>o, <1>2, <2>2 DEF SaveInv, SavingInOrder
    <3>. QED BY <3>2, <3>3, <2>e DEF Grown
  <2>37. SavingInOrder'
    BY <1>0, <1>o, <1>2, <2>1, <2>2, <1>q, <1>f DEF SaveInv, SavingInOrder, Shrunk,
       FieldsTyped
  <2>39. SavedAreCurrent'
    BY <1>0, <1>o, <1>2, <2>1, <2>2, <1>q, <2>e DEF SaveInv, SavedAreCurrent, Shrunk,
       Grown, NoticeOnTheWay, IsDirty
  <2>. QED BY <2>21, <2>22, <2>23, <2>24, <2>25, <2>26, <2>27, <2>28, <2>32, <2>33, <2>34,
       <2>35, <2>36, <2>37, <2>39 DEF SaveInv
<1>3. CASE r.op = "WriteDraft"
  <2>. DEFINE e == [op |-> "FileSaved", id |-> r.id, version |-> r.version]
  <2>1. draft' = r.text /\ UNCHANGED <<disk, touched>> /\ events' = Append(events, e)
    BY <1>qt, <1>3 DEF ServeRequest
  <2>2. e \in Event /\ e.op = "FileSaved" /\ e.id = r.id /\ e.version = r.version
    BY <1>t, <1>qt, <1>3 DEF Event, Request, TypeInv
  <2>. HIDE DEF e
  <2>e. Grown(events', events, e)
    BY <1>t, <2>1, <2>2, AppendFacts DEF TypeInv
  <2>3. draft' \in SomeText
    BY <1>qt, <1>3, <2>1 DEF Request
  <2>21. IdsInv'
    BY <1>0, <1>o, <1>3, <2>1, <2>2, <1>q, <2>e, <1>t, <1>f DEF SaveInv, IdsInv, Shrunk,
       Grown, FieldsTyped, TypeInv
  <2>22. OneBuffer'
    BY <1>0, <1>o, <1>3, <2>1, <2>2 DEF SaveInv, OneBuffer
  <2>23. SavesAheadOfReads' /\ SavesBehindReads'
    <3>1. r.id \notin LiveIds
      BY <1>q, <1>3 DEF SaveInv, WritesAreOld, Shrunk
    <3>2. StandsFor(e, queue[1])
      BY <1>3, <2>2, <3>1 DEF StandsFor, IsSave, IsRead, LiveIds, OpenIds
    <3>. QED BY <1>0, <1>q, <2>e, <3>2, OrderServed DEF SaveInv
  <2>24. ReadAskedOnce'
    BY <1>0, <1>o, <1>3, <2>1, <2>2, <1>q DEF SaveInv, ReadAskedOnce, Shrunk
  <2>25. ReadAnsweredOnce'
    BY <1>0, <1>o, <1>3, <2>1, <2>2, <2>e, <1>q DEF SaveInv, ReadAnsweredOnce, Grown, Shrunk
  <2>26. ReadAskedOrAnswered'
    BY <1>0, <1>o, <1>3, <2>1, <2>2, <1>q, <2>e DEF SaveInv, ReadAskedOrAnswered, Shrunk,
       Grown
  <2>27. WritesAreOld'
    BY <1>0, <1>o, <1>3, <2>1, <2>2, <1>q, <2>e DEF SaveInv, WritesAreOld, Shrunk, Grown,
       LiveIds
  <2>28. NewsFollows'
    <3>1. \A k \in DOMAIN events : ChangeFollows(k) => ChangeFollows(k)'
      BY <2>1, <2>e DEF ChangeFollows, Grown
    <3>. SUFFICES ASSUME NEW k \in DOMAIN events'
                  PROVE  (/\ events[k].op = "FileSaved" /\ events[k].id \in LiveIds => ChangeFollows(k)
                          /\ events[k].op = "FileLoaded" => events[k].text = disk \/ ChangeFollows(k))'
      BY DEF NewsFollows
    <3>2. CASE k \in DOMAIN events /\ events'[k] = events[k]
      BY <3>1, <3>2, <1>o, <2>1 DEF SaveInv, NewsFollows
    <3>3. CASE events'[k] = e
      BY <3>3, <1>q, <1>o, <1>3, <2>2 DEF SaveInv, WritesAreOld, Shrunk
    <3>. QED BY <3>2, <3>3, <2>e DEF Grown
  <2>32. MarkedBefore'
    BY <1>0, <1>o, <1>3, <2>1, <2>2, <1>f DEF SaveInv, MarkedBefore, FieldsTyped
  <2>33. SavedBetween'
    <3>. SUFFICES ASSUME NEW i \in DOMAIN buffers', NEW k \in DOMAIN events',
                         (events[k].op = "FileSaved" /\ events[k].id = buffers[i].id)'
                  PROVE  (buffers[i].saved <= events[k].version /\ events[k].version <= buffers[i].version)'
      BY DEF SavedBetween, Between
    <3>1. CASE k \in DOMAIN events /\ events'[k] = events[k]
      BY <3>1, <1>0 DEF SaveInv, SavedBetween, Between
    <3>2. CASE k = Len(events) + 1 /\ events'[k] = e
      BY <3>2, <1>0, <1>q, <1>3, <2>2 DEF SaveInv, Shrunk, SavingBetween, Between,
         WritesAreOld, LiveIds, OpenIds
    <3>. QED BY <3>1, <3>2, <2>e DEF Grown
  <2>34. SavingBetween'
    <3>1. \A k \in DOMAIN queue' : k + 1 \in DOMAIN queue /\ queue'[k] = queue[k + 1]
      BY <1>q DEF Shrunk
    <3>. QED BY <3>1, <1>0 DEF SaveInv, SavingBetween, Between
  <2>35. SavedInOrder'
    <3>. SUFFICES ASSUME NEW j \in DOMAIN events', NEW k \in DOMAIN events', j < k,
                         (/\ events[j].op = "FileSaved" /\ events[k].op = "FileSaved"
                          /\ events[j].id = events[k].id /\ events[k].id \in OpenIds)'
                  PROVE  (events[j].version <= events[k].version)'
      BY DEF SavedInOrder
    <3>1. j \in DOMAIN events /\ events'[j] = events[j]
      BY <2>e DEF Grown
    <3>2. CASE k \in DOMAIN events /\ events'[k] = events[k]
      BY <3>1, <3>2, <1>o DEF SaveInv, SavedInOrder
    <3>3. CASE k = Len(events) + 1 /\ events'[k] = e
      BY <3>1, <3>3, <1>o, <1>q, <1>3, <2>2 DEF SaveInv, Shrunk, SavedThenSaving,
         WritesAreOld, LiveIds
    <3>. QED BY <3>2, <3>3, <2>e DEF Grown
  <2>36. SavedThenSaving'
    <3>. SUFFICES ASSUME NEW j \in DOMAIN events', NEW k \in DOMAIN queue',
                         (/\ events[j].op = "FileSaved" /\ queue[k].op = "WriteFile"
                          /\ events[j].id = queue[k].id /\ queue[k].id \in OpenIds)'
                  PROVE  (events[j].version <= queue[k].version)'
      BY DEF SavedThenSaving
    <3>1. k + 1 \in DOMAIN queue /\ queue'[k] = queue[k + 1] /\ 1 < k + 1 /\ 1 \in DOMAIN queue
      BY <1>q DEF Shrunk
    <3>2. CASE j \in DOMAIN events /\ events'[j] = events[j]
      BY <3>1, <3>2, <1>o DEF SaveInv, SavedThenSaving
    <3>3. CASE j = Len(events) + 1 /\ events'[j] = e
      BY <3>1, <3>3, <1>o, <1>3, <2>2 DEF SaveInv, SavingInOrder, WritesAreOld, LiveIds
    <3>. QED BY <3>2, <3>3, <2>e DEF Grown
  <2>37. SavingInOrder'
    BY <1>0, <1>o, <1>3, <2>1, <2>2, <1>q, <1>f DEF SaveInv, SavingInOrder, Shrunk,
       FieldsTyped
  <2>39. SavedAreCurrent'
    <3>1. ASSUME NEW k \in DOMAIN queue, queue[k].op = "ReadFile"
          PROVE  k - 1 \in DOMAIN queue' /\ queue'[k - 1].op = "ReadFile"
      BY <3>1, <1>q, <1>3 DEF Shrunk
    <3>2. \A k \in DOMAIN events : k \in DOMAIN events' /\ events'[k] = events[k]
      BY <2>e DEF Grown
    <3>3. NoticeOnTheWay => NoticeOnTheWay'
      BY <3>1, <3>2, <2>1 DEF NoticeOnTheWay
    <3>. QED BY <3>3, <1>0, <2>1 DEF SaveInv, SavedAreCurrent, IsDirty
  <2>. QED BY <2>21, <2>22, <2>23, <2>24, <2>25, <2>26, <2>27, <2>28, <2>32, <2>33, <2>34,
       <2>35, <2>36, <2>37, <2>39 DEF SaveInv
<1>4. CASE r.op = "RemoveDraft"
  <2>1. draft' \in SomeText /\ UNCHANGED <<disk, touched, events>>
    BY <1>qt, <1>4 DEF ServeRequest, SomeText
  <2>21. IdsInv'
    BY <1>0, <1>o, <1>4, <2>1, <1>q, <1>t, <1>f DEF SaveInv, IdsInv, Shrunk, FieldsTyped,
       TypeInv
  <2>22. OneBuffer'
    BY <1>0, <1>o, <1>4, <2>1 DEF SaveInv, OneBuffer
  <2>23. SavesAheadOfReads' /\ SavesBehindReads'
    <3>1. Silent(r)
      BY <1>4 DEF Silent, IsSave, IsRead
    <3>2. \A a, b : IsAhead(a, b)' => IsAhead(a, b) \/ a = r \/ b = r
      BY <1>q, <2>1, AheadServed
    <3>. QED BY <1>0, <3>1, <3>2, OrderKept DEF SaveInv
  <2>24. ReadAskedOnce'
    BY <1>0, <1>o, <1>4, <2>1, <1>q DEF SaveInv, ReadAskedOnce, Shrunk
  <2>25. ReadAnsweredOnce'
    BY <1>0, <1>o, <1>4, <2>1 DEF SaveInv, ReadAnsweredOnce
  <2>26. ReadAskedOrAnswered'
    BY <1>0, <1>o, <1>4, <2>1, <1>q DEF SaveInv, ReadAskedOrAnswered, Shrunk
  <2>27. WritesAreOld'
    BY <1>0, <1>o, <1>4, <2>1, <1>q DEF SaveInv, WritesAreOld, Shrunk
  <2>28. NewsFollows'
    BY <1>0, <1>o, <1>4, <2>1, <1>q DEF SaveInv, NewsFollows, Shrunk, ChangeFollows
  <2>32. MarkedBefore'
    BY <1>0, <1>o, <1>4, <2>1, <1>f DEF SaveInv, MarkedBefore, FieldsTyped
  <2>33. SavedBetween'
    BY <1>0, <1>o, <1>4, <2>1, <1>f DEF SaveInv, SavedBetween, FieldsTyped, Between
  <2>34. SavingBetween'
    <3>1. \A k \in DOMAIN queue' : k + 1 \in DOMAIN queue /\ queue'[k] = queue[k + 1]
      BY <1>q DEF Shrunk
    <3>. QED BY <3>1, <1>0 DEF SaveInv, SavingBetween, Between
  <2>35. SavedInOrder'
    BY <1>0, <1>o, <1>4, <2>1 DEF SaveInv, SavedInOrder
  <2>36. SavedThenSaving'
    <3>. SUFFICES ASSUME NEW j \in DOMAIN events', NEW k \in DOMAIN queue',
                         (/\ events[j].op = "FileSaved" /\ queue[k].op = "WriteFile"
                          /\ events[j].id = queue[k].id /\ queue[k].id \in OpenIds)'
                  PROVE  (events[j].version <= queue[k].version)'
      BY DEF SavedThenSaving
    <3>1. k + 1 \in DOMAIN queue /\ queue'[k] = queue[k + 1] /\ 1 < k + 1 /\ 1 \in DOMAIN queue
      BY <1>q DEF Shrunk
    <3>. QED BY <3>1, <1>o, <2>1 DEF SaveInv, SavedThenSaving
  <2>37. SavingInOrder'
    BY <1>0, <1>o, <1>4, <2>1, <1>q DEF SaveInv, SavingInOrder, Shrunk
  <2>39. SavedAreCurrent'
    <3>1. ASSUME NEW k \in DOMAIN queue, queue[k].op = "ReadFile"
          PROVE  k - 1 \in DOMAIN queue' /\ queue'[k - 1].op = "ReadFile"
      BY <3>1, <1>q, <1>4 DEF Shrunk
    <3>2. \A k \in DOMAIN events : k \in DOMAIN events' /\ events'[k] = events[k]
      BY <2>1
    <3>3. NoticeOnTheWay => NoticeOnTheWay'
      BY <3>1, <3>2, <2>1 DEF NoticeOnTheWay
    <3>. QED BY <3>3, <1>0, <2>1 DEF SaveInv, SavedAreCurrent, IsDirty
  <2>. QED BY <2>21, <2>22, <2>23, <2>24, <2>25, <2>26, <2>27, <2>28, <2>32, <2>33, <2>34,
       <2>35, <2>36, <2>37, <2>39 DEF SaveInv
<1>. QED BY <1>k, <1>1, <1>2, <1>3, <1>4

\* A refused request is answered all the same.
LEMMA RefuseRequestSave ==
  ASSUME SaveInv, TypeInv', RefuseRequest
  PROVE  SaveInv'
<1>. USE DEF recovery, outside
<1>t. TypeInv /\ OneBuffer BY DEF SaveInv
<1>f. FieldsTyped
  BY <1>t, FieldTypes
<1>. DEFINE r == queue[1]
<1>. DEFINE e == [op |-> "FileFailed", id |-> r.id]
<1>0. queue # <<>> /\ queue' = Tail(queue) /\ UNCHANGED <<disk, draft, touched, buffers, nextId, opening, told>>
  BY DEF RefuseRequest
<1>o. OpenIds' = OpenIds /\ LiveIds' = LiveIds
  BY <1>0 DEF OpenIds, LiveIds
<1>qt. queue' \in Seq(Request) /\ Head(queue) \in Request /\ Head(queue) = queue[1]
  BY <1>0, <1>t, TailFacts DEF TypeInv
<1>q. Shrunk(queue', queue)
  BY <1>0, <1>t, TailFacts DEF TypeInv
<1>1. events' = Append(events, e) /\ r.op # "RemoveDraft"
  BY <1>qt DEF RefuseRequest
<1>2. e \in Event /\ e.op = "FileFailed" /\ e.id = r.id
  BY <1>qt, <1>1 DEF Request, Event
<1>k. r.op \in {"ReadFile", "WriteFile", "WriteDraft", "RemoveDraft"}
  BY <1>qt DEF Request
<1>. HIDE DEF e
<1>e. Grown(events', events, e)
  BY <1>t, <1>1, <1>2, AppendFacts DEF TypeInv
<1>21. IdsInv'
  BY <1>0, <1>1, <1>2, <1>o, <1>q, <1>e, <1>t, <1>f DEF SaveInv, IdsInv, Shrunk, Grown,
     FieldsTyped, TypeInv
<1>22. OneBuffer'
  BY <1>0, <1>1, <1>2, <1>o DEF SaveInv, OneBuffer
<1>23. SavesAheadOfReads' /\ SavesBehindReads'
  <2>1. StandsFor(e, queue[1])
    BY <1>2 DEF StandsFor, IsSave, IsRead
  <2>. QED BY <1>0, <1>q, <1>e, <2>1, OrderServed DEF SaveInv
<1>24. ReadAskedOnce'
  BY <1>0, <1>1, <1>2, <1>o, <1>q DEF SaveInv, ReadAskedOnce, Shrunk
<1>25. ReadAnsweredOnce'
  BY <1>0, <1>1, <1>2, <1>o, <1>e, <1>q, <1>k DEF SaveInv, ReadAnsweredOnce, Grown, Shrunk,
     ReadAskedOrAnswered, WritesAreOld, LiveIds
<1>26. ReadAskedOrAnswered'
  BY <1>0, <1>1, <1>2, <1>o, <1>q, <1>e, <1>k DEF SaveInv, ReadAskedOrAnswered, Shrunk,
     Grown, ReadAskedOnce, WritesAreOld, LiveIds
<1>27. WritesAreOld'
  BY <1>0, <1>1, <1>2, <1>o, <1>q, <1>e DEF SaveInv, WritesAreOld, Shrunk, Grown
<1>28. NewsFollows'
  BY <1>0, <1>1, <1>2, <1>o, <1>q, <1>e DEF SaveInv, NewsFollows, Shrunk, Grown,
     ChangeFollows
<1>32. MarkedBefore'
  BY <1>0, <1>1, <1>2, <1>o, <1>f DEF SaveInv, MarkedBefore, FieldsTyped
<1>33. SavedBetween'
  <2>. SUFFICES ASSUME NEW i \in DOMAIN buffers', NEW k \in DOMAIN events',
                       (events[k].op = "FileSaved" /\ events[k].id = buffers[i].id)'
                PROVE  (buffers[i].saved <= events[k].version /\ events[k].version <= buffers[i].version)'
    BY DEF SavedBetween, Between
  <2>1. CASE k \in DOMAIN events /\ events'[k] = events[k]
    BY <2>1, <1>0 DEF SaveInv, SavedBetween, Between
  <2>2. CASE k = Len(events) + 1 /\ events'[k] = e
    BY <2>2, <1>0, <1>q, <1>2 DEF SaveInv, Shrunk, SavingBetween, Between
  <2>. QED BY <2>1, <2>2, <1>e DEF Grown
<1>34. SavingBetween'
  <2>1. \A k \in DOMAIN queue' : k + 1 \in DOMAIN queue /\ queue'[k] = queue[k + 1]
    BY <1>q DEF Shrunk
  <2>. QED BY <2>1, <1>0 DEF SaveInv, SavingBetween, Between
<1>35. SavedInOrder'
  <2>. SUFFICES ASSUME NEW j \in DOMAIN events', NEW k \in DOMAIN events', j < k,
                       (/\ events[j].op = "FileSaved" /\ events[k].op = "FileSaved"
                        /\ events[j].id = events[k].id /\ events[k].id \in OpenIds)'
                PROVE  (events[j].version <= events[k].version)'
    BY DEF SavedInOrder
  <2>1. j \in DOMAIN events /\ events'[j] = events[j]
    BY <1>e DEF Grown
  <2>2. CASE k \in DOMAIN events /\ events'[k] = events[k]
    BY <2>1, <2>2, <1>o DEF SaveInv, SavedInOrder
  <2>3. CASE k = Len(events) + 1 /\ events'[k] = e
    BY <2>1, <2>3, <1>o, <1>q, <1>2 DEF SaveInv, Shrunk, SavedThenSaving
  <2>. QED BY <2>2, <2>3, <1>e DEF Grown
<1>36. SavedThenSaving'
  <2>. SUFFICES ASSUME NEW j \in DOMAIN events', NEW k \in DOMAIN queue',
                       (/\ events[j].op = "FileSaved" /\ queue[k].op = "WriteFile"
                        /\ events[j].id = queue[k].id /\ queue[k].id \in OpenIds)'
                PROVE  (events[j].version <= queue[k].version)'
    BY DEF SavedThenSaving
  <2>1. k + 1 \in DOMAIN queue /\ queue'[k] = queue[k + 1] /\ 1 < k + 1 /\ 1 \in DOMAIN queue
    BY <1>q DEF Shrunk
  <2>2. CASE j \in DOMAIN events /\ events'[j] = events[j]
    BY <2>1, <2>2, <1>o DEF SaveInv, SavedThenSaving
  <2>3. CASE j = Len(events) + 1 /\ events'[j] = e
    BY <2>1, <2>3, <1>o, <1>2 DEF SaveInv, SavingInOrder
  <2>. QED BY <2>2, <2>3, <1>e DEF Grown
<1>37. SavingInOrder'
  BY <1>0, <1>1, <1>2, <1>o, <1>q, <1>f DEF SaveInv, SavingInOrder, Shrunk, FieldsTyped
<1>39. SavedAreCurrent'
  BY <1>0, <1>1, <1>2, <1>o, <1>q, <1>e DEF SaveInv, SavedAreCurrent, Shrunk, Grown,
     NoticeOnTheWay, IsDirty
<1>. QED BY <1>21, <1>22, <1>23, <1>24, <1>25, <1>26, <1>27, <1>28, <1>32, <1>33, <1>34,
     <1>35, <1>36, <1>37, <1>39 DEF SaveInv

\* A failure is told, and ends a first read (on_fs_event, FileFailed).
LEMMA OnFileFailedSave ==
  ASSUME SaveInv, TypeInv', OnFileFailed
  PROVE  SaveInv'
<1>. USE DEF recovery, outside
<1>t. TypeInv /\ OneBuffer BY DEF SaveInv
<1>f. FieldsTyped
  BY <1>t, FieldTypes
<1>. DEFINE e == events[1]
<1>0. events # <<>> /\ events' = Tail(events) /\ UNCHANGED <<disk, draft, touched, buffers, nextId, queue>>
      /\ told' = TRUE
  BY DEF OnFileFailed
<1>et. events' \in Seq(Event) /\ Head(events) \in Event /\ Head(events) = events[1]
  BY <1>0, <1>t, TailFacts DEF TypeInv
<1>e. Shrunk(events', events)
  BY <1>0, <1>t, TailFacts DEF TypeInv
<1>1. opening' = opening \ {e.id} /\ e.op = "FileFailed"
  BY <1>0, <1>et DEF OnFileFailed
<1>o. OpenIds' = OpenIds /\ LiveIds' \subseteq LiveIds /\ opening' \subseteq opening
  BY <1>0, <1>1 DEF OpenIds, LiveIds
<1>21. IdsInv'
  BY <1>0, <1>1, <1>o, <1>e, <1>t, <1>f DEF SaveInv, IdsInv, Shrunk, FieldsTyped, TypeInv
<1>22. OneBuffer'
  BY <1>0, <1>1, <1>o DEF SaveInv, OneBuffer
<1>23. SavesAheadOfReads' /\ SavesBehindReads'
  <2>1. \A a, b : IsAhead(a, b)' => IsAhead(a, b)
    BY <1>0, <1>e, FewerAhead
  <2>. QED BY <1>0, <2>1, OrderKept DEF SaveInv
<1>24. ReadAskedOnce'
  BY <1>0, <1>1, <1>o DEF SaveInv, ReadAskedOnce
<1>25. ReadAnsweredOnce'
  BY <1>0, <1>1, <1>o, <1>e DEF SaveInv, ReadAnsweredOnce, Shrunk
<1>26. ReadAskedOrAnswered'
  BY <1>0, <1>1, <1>o, <1>e DEF SaveInv, ReadAskedOrAnswered, Shrunk
<1>27. WritesAreOld'
  BY <1>0, <1>1, <1>o, <1>e DEF SaveInv, WritesAreOld, Shrunk
<1>28. NewsFollows'
  <2>1. ASSUME NEW k \in DOMAIN events', ChangeFollows(k + 1) PROVE ChangeFollows(k)'
    <3>1. CASE touched
      BY <3>1, <1>0 DEF ChangeFollows
    <3>2. CASE \E j \in DOMAIN events : k + 1 < j /\ events[j].op = "Changed"
      <4>1. PICK j \in DOMAIN events : k + 1 < j /\ events[j].op = "Changed"
        BY <3>2
      <4>2. j - 1 \in DOMAIN events' /\ events'[j - 1] = events[j] /\ k < j - 1
        BY <4>1, <1>e DEF Shrunk
      <4>. QED BY <4>1, <4>2 DEF ChangeFollows
    <3>. QED BY <2>1, <3>1, <3>2 DEF ChangeFollows
  <2>2. \A k \in DOMAIN events' : k + 1 \in DOMAIN events /\ events'[k] = events[k + 1]
    BY <1>e DEF Shrunk
  <2>. SUFFICES ASSUME NEW k \in DOMAIN events'
                PROVE  (/\ events[k].op = "FileSaved" /\ events[k].id \in LiveIds => ChangeFollows(k)
                        /\ events[k].op = "FileLoaded" => events[k].text = disk \/ ChangeFollows(k))'
    BY DEF NewsFollows
  <2>. QED BY <2>1, <2>2, <1>0, <1>o DEF SaveInv, NewsFollows
<1>32. MarkedBefore'
  BY <1>0, <1>1, <1>o, <1>f DEF SaveInv, MarkedBefore, FieldsTyped
<1>33. SavedBetween'
  <2>1. \A k \in DOMAIN events' : k + 1 \in DOMAIN events /\ events'[k] = events[k + 1]
    BY <1>e DEF Shrunk
  <2>. QED BY <2>1, <1>0 DEF SaveInv, SavedBetween
<1>34. SavingBetween'
  BY <1>0, <1>1, <1>o, <1>f DEF SaveInv, SavingBetween, FieldsTyped, Between
<1>35. SavedInOrder'
  BY <1>0, <1>1, <1>o, <1>e DEF SaveInv, SavedInOrder, Shrunk
<1>36. SavedThenSaving'
  <2>1. \A j \in DOMAIN events' : j + 1 \in DOMAIN events /\ events'[j] = events[j + 1]
    BY <1>e DEF Shrunk
  <2>2. \A k \in DOMAIN queue' : queue'[k].op = "WriteFile" => k \in DOMAIN queue /\ queue'[k] = queue[k]
    BY <1>0
  <2>. QED BY <2>1, <2>2, <1>o DEF SaveInv, SavedThenSaving
<1>37. SavingInOrder'
  BY <1>0, <1>1, <1>o DEF SaveInv, SavingInOrder
<1>39. SavedAreCurrent'
  BY <1>0, <1>1, <1>o, <1>e DEF SaveInv, SavedAreCurrent, Shrunk, NoticeOnTheWay, IsDirty
<1>. QED BY <1>21, <1>22, <1>23, <1>24, <1>25, <1>26, <1>27, <1>28, <1>32, <1>33, <1>34,
     <1>35, <1>36, <1>37, <1>39 DEF SaveInv

\* A change of the file has a saved buffer read again (reload_changed_buffers).
LEMMA OnChangedSave ==
  ASSUME SaveInv, TypeInv', OnChanged
  PROVE  SaveInv'
<1>. USE DEF recovery, outside
<1>t. TypeInv /\ OneBuffer BY DEF SaveInv
<1>f. FieldsTyped
  BY <1>t, FieldTypes
<1>. DEFINE e == events[1]
<1>. DEFINE r == [op |-> "ReadFile", id |-> buffers[1].id]
<1>0. events # <<>> /\ events' = Tail(events) /\ UNCHANGED <<disk, draft, touched, buffers, nextId, opening, told>>
  BY DEF OnChanged
<1>et. events' \in Seq(Event) /\ Head(events) \in Event /\ Head(events) = events[1]
  BY <1>0, <1>t, TailFacts DEF TypeInv
<1>e. Shrunk(events', events)
  BY <1>0, <1>t, TailFacts DEF TypeInv
<1>o. OpenIds' = OpenIds /\ LiveIds' = LiveIds
  BY <1>0 DEF OpenIds, LiveIds
<1>1. e.op = "Changed"
  BY <1>0, <1>et DEF OnChanged
<1>2. CASE queue' = queue /\ (buffers = <<>> \/ IsDirty(buffers[1]))
  <2>0. \A i \in DOMAIN buffers : IsDirty(buffers[i])
    BY <1>2, <1>t, TheBuffer
  <2>21. IdsInv'
    BY <1>0, <1>o, <1>1, <1>2, <2>0, <1>e, <1>t, <1>f DEF SaveInv, IdsInv, Shrunk,
       FieldsTyped, TypeInv
  <2>22. OneBuffer'
    BY <1>0, <1>o, <1>1, <1>2, <2>0 DEF SaveInv, OneBuffer
  <2>23. SavesAheadOfReads' /\ SavesBehindReads'
    <3>1. \A a, b : IsAhead(a, b)' => IsAhead(a, b)
      BY <1>2, <1>e, FewerAhead
    <3>. QED BY <1>0, <3>1, OrderKept DEF SaveInv
  <2>24. ReadAskedOnce'
    BY <1>0, <1>o, <1>1, <1>2, <2>0 DEF SaveInv, ReadAskedOnce
  <2>25. ReadAnsweredOnce'
    BY <1>0, <1>o, <1>1, <1>2, <2>0, <1>e DEF SaveInv, ReadAnsweredOnce, Shrunk
  <2>26. ReadAskedOrAnswered'
    BY <1>0, <1>o, <1>1, <1>2, <2>0, <1>e DEF SaveInv, ReadAskedOrAnswered, Shrunk
  <2>27. WritesAreOld'
    BY <1>0, <1>o, <1>1, <1>2, <2>0, <1>e DEF SaveInv, WritesAreOld, Shrunk
  <2>28. NewsFollows'
    <3>1. ASSUME NEW k \in DOMAIN events', ChangeFollows(k + 1) PROVE ChangeFollows(k)'
      <4>1. CASE touched
        BY <4>1, <1>0 DEF ChangeFollows
      <4>2. CASE \E j \in DOMAIN events : k + 1 < j /\ events[j].op = "Changed"
        <5>1. PICK j \in DOMAIN events : k + 1 < j /\ events[j].op = "Changed"
          BY <4>2
        <5>2. j - 1 \in DOMAIN events' /\ events'[j - 1] = events[j] /\ k < j - 1
          BY <5>1, <1>e DEF Shrunk
        <5>. QED BY <5>1, <5>2 DEF ChangeFollows
      <4>. QED BY <3>1, <4>1, <4>2 DEF ChangeFollows
    <3>2. \A k \in DOMAIN events' : k + 1 \in DOMAIN events /\ events'[k] = events[k + 1]
      BY <1>e DEF Shrunk
    <3>. SUFFICES ASSUME NEW k \in DOMAIN events'
                  PROVE  (/\ events[k].op = "FileSaved" /\ events[k].id \in LiveIds => ChangeFollows(k)
                          /\ events[k].op = "FileLoaded" => events[k].text = disk \/ ChangeFollows(k))'
      BY DEF NewsFollows
    <3>. QED BY <3>1, <3>2, <1>0, <1>o DEF SaveInv, NewsFollows
  <2>32. MarkedBefore'
    BY <1>0, <1>o, <1>1, <1>2, <2>0, <1>f DEF SaveInv, MarkedBefore, FieldsTyped
  <2>33. SavedBetween'
    <3>1. \A k \in DOMAIN events' : k + 1 \in DOMAIN events /\ events'[k] = events[k + 1]
      BY <1>e DEF Shrunk
    <3>. QED BY <3>1, <1>0 DEF SaveInv, SavedBetween, Between
  <2>34. SavingBetween'
    BY <1>0, <1>o, <1>1, <1>2, <2>0, <1>f DEF SaveInv, SavingBetween, FieldsTyped, Between
  <2>35. SavedInOrder'
    BY <1>0, <1>o, <1>1, <1>2, <2>0, <1>e DEF SaveInv, SavedInOrder, Shrunk
  <2>36. SavedThenSaving'
    <3>1. \A j \in DOMAIN events' : j + 1 \in DOMAIN events /\ events'[j] = events[j + 1]
      BY <1>e DEF Shrunk
    <3>2. \A k \in DOMAIN queue' : queue'[k].op = "WriteFile" => k \in DOMAIN queue /\ queue'[k] = queue[k]
      BY <1>2
    <3>. QED BY <3>1, <3>2, <1>o DEF SaveInv, SavedThenSaving
  <2>37. SavingInOrder'
    BY <1>0, <1>o, <1>1, <1>2, <2>0 DEF SaveInv, SavingInOrder
  <2>39. SavedAreCurrent'
    BY <1>0, <1>o, <1>1, <1>2, <2>0, <1>e DEF SaveInv, SavedAreCurrent, Shrunk,
       NoticeOnTheWay, IsDirty
  <2>. QED BY <2>21, <2>22, <2>23, <2>24, <2>25, <2>26, <2>27, <2>28, <2>32, <2>33, <2>34,
       <2>35, <2>36, <2>37, <2>39 DEF SaveInv
<1>3. CASE queue' = Append(queue, r) /\ buffers # <<>> /\ ~IsDirty(buffers[1])
  <2>0. DOMAIN buffers = {1} /\ buffers[1] \in Buffer
    BY <1>3, <1>t, TheBuffer
  <2>1. r \in Request /\ r.op = "ReadFile" /\ r.id = buffers[1].id /\ buffers[1].id \in OpenIds /\ OpenIds \subseteq LiveIds
        /\ r.id \notin opening
    BY <1>3, <1>t, <2>0 DEF Buffer, Request, OpenIds, LiveIds, OneBuffer
  <2>. HIDE DEF r
  <2>q. Grown(queue', queue, r)
    BY <1>t, <1>3, <2>1, AppendFacts DEF TypeInv
  <2>21. IdsInv'
    BY <1>0, <1>o, <1>1, <1>3, <2>0, <2>1, <2>q, <1>e, <1>t, <1>f DEF SaveInv, IdsInv,
       Grown, Shrunk, FieldsTyped, TypeInv
  <2>22. OneBuffer'
    BY <1>0, <1>o, <1>1, <1>3, <2>0, <2>1 DEF SaveInv, OneBuffer
  <2>23. SavesAheadOfReads' /\ SavesBehindReads'
    <3>1. \A a, b : IsAhead(a, b)' => a \in OnTheWay /\ (IsAhead(a, b) \/ b = r)
      BY <1>e, <2>q, AheadAsked
    <3>2. ASSUME NEW a \in OnTheWay, IsSave(a, buffers[1].id) PROVE a.version = buffers[1].saved
      <4>1. buffers[1].saved = buffers[1].version
        BY <1>3 DEF IsDirty
      <4>2. 1 \in DOMAIN buffers /\ SavedBetween /\ SavingBetween
        BY <2>0 DEF SaveInv
      <4>3. a.version \in Nat /\ buffers[1].saved <= a.version /\ a.version <= buffers[1].version
        BY <3>2, <4>2, <1>f, SavesAreBetween
      <4>. QED BY <4>1, <4>2, <4>3, <1>f DEF FieldsTyped
    <3>3. SavesAheadOfReads'
      BY <1>0, <2>0, <3>1, <3>2 DEF SaveInv, SavesAheadOfReads
    <3>4. ~IsSave(r, buffers[1].id)
      BY <2>1 DEF IsSave
    <3>5. SavesBehindReads'
      BY <1>0, <2>0, <3>1, <3>4 DEF SaveInv, SavesBehindReads
    <3>. QED BY <3>3, <3>5
  <2>24. ReadAskedOnce'
    BY <1>0, <1>o, <1>1, <1>3, <2>0, <2>1, <2>q DEF SaveInv, ReadAskedOnce, Grown
  <2>25. ReadAnsweredOnce'
    BY <1>0, <1>o, <1>1, <1>3, <2>0, <2>1, <1>e DEF SaveInv, ReadAnsweredOnce, Shrunk
  <2>26. ReadAskedOrAnswered'
    BY <1>0, <1>o, <1>1, <1>3, <2>0, <2>1, <2>q, <1>e DEF SaveInv, ReadAskedOrAnswered,
       Grown, Shrunk
  <2>27. WritesAreOld'
    <3>1. \A k \in DOMAIN events' : k + 1 \in DOMAIN events /\ events'[k] = events[k + 1]
      BY <1>e DEF Shrunk
    <3>2. \A k \in DOMAIN queue' : queue'[k].op \in {"WriteDraft", "WriteFile"} => k \in DOMAIN queue /\ queue'[k] = queue[k]
      BY <2>q, <2>1 DEF Grown
    <3>. QED BY <3>1, <3>2, <1>0, <1>o DEF SaveInv, WritesAreOld
  <2>28. NewsFollows'
    <3>1. ASSUME NEW k \in DOMAIN events', ChangeFollows(k + 1) PROVE ChangeFollows(k)'
      <4>1. CASE touched
        BY <4>1, <1>0 DEF ChangeFollows
      <4>2. CASE \E j \in DOMAIN events : k + 1 < j /\ events[j].op = "Changed"
        <5>1. PICK j \in DOMAIN events : k + 1 < j /\ events[j].op = "Changed"
          BY <4>2
        <5>2. j - 1 \in DOMAIN events' /\ events'[j - 1] = events[j] /\ k < j - 1
          BY <5>1, <1>e DEF Shrunk
        <5>. QED BY <5>1, <5>2 DEF ChangeFollows
      <4>. QED BY <3>1, <4>1, <4>2 DEF ChangeFollows
    <3>2. \A k \in DOMAIN events' : k + 1 \in DOMAIN events /\ events'[k] = events[k + 1]
      BY <1>e DEF Shrunk
    <3>. SUFFICES ASSUME NEW k \in DOMAIN events'
                  PROVE  (/\ events[k].op = "FileSaved" /\ events[k].id \in LiveIds => ChangeFollows(k)
                          /\ events[k].op = "FileLoaded" => events[k].text = disk \/ ChangeFollows(k))'
      BY DEF NewsFollows
    <3>. QED BY <3>1, <3>2, <1>0, <1>o DEF SaveInv, NewsFollows
  <2>32. MarkedBefore'
    BY <1>0, <1>o, <1>1, <1>3, <2>0, <2>1, <1>f DEF SaveInv, MarkedBefore, FieldsTyped
  <2>33. SavedBetween'
    <3>1. \A k \in DOMAIN events' : k + 1 \in DOMAIN events /\ events'[k] = events[k + 1]
      BY <1>e DEF Shrunk
    <3>. QED BY <3>1, <1>0 DEF SaveInv, SavedBetween, Between
  <2>34. SavingBetween'
    BY <1>0, <2>1, <2>q DEF SaveInv, SavingBetween, Grown
  <2>35. SavedInOrder'
    BY <1>0, <1>o, <1>1, <1>3, <2>0, <2>1, <1>e DEF SaveInv, SavedInOrder, Shrunk
  <2>36. SavedThenSaving'
    <3>1. \A j \in DOMAIN events' : j + 1 \in DOMAIN events /\ events'[j] = events[j + 1]
      BY <1>e DEF Shrunk
    <3>2. \A k \in DOMAIN queue' : queue'[k].op = "WriteFile" => k \in DOMAIN queue /\ queue'[k] = queue[k]
      BY <2>q, <2>1 DEF Grown
    <3>. QED BY <3>1, <3>2, <1>o DEF SaveInv, SavedThenSaving
  <2>37. SavingInOrder'
    BY <1>0, <1>o, <1>1, <1>3, <2>0, <2>1, <2>q DEF SaveInv, SavingInOrder, Grown
  <2>39. SavedAreCurrent'
    BY <1>0, <1>o, <1>1, <1>3, <2>0, <2>1, <2>q, <1>e DEF SaveInv, SavedAreCurrent,
       Grown, Shrunk, NoticeOnTheWay, IsDirty
  <2>. QED BY <2>21, <2>22, <2>23, <2>24, <2>25, <2>26, <2>27, <2>28, <2>32, <2>33, <2>34,
       <2>35, <2>36, <2>37, <2>39 DEF SaveInv
<1>4. buffers # <<>> => Head(buffers) = buffers[1]
  BY <1>t DEF TypeInv
<1>. QED BY <1>2, <1>3, <1>4 DEF OnChanged

\* What was read replaces the buffer it was read for (on_fs_event, FileLoaded).
LEMMA OnFileLoadedSave ==
  ASSUME SaveInv, TypeInv', OnFileLoaded, harm' = {}
  PROVE  SaveInv'
<1>. USE DEF recovery, outside
<1>t. TypeInv /\ OneBuffer BY DEF SaveInv
<1>f. FieldsTyped
  BY <1>t, FieldTypes
<1>. DEFINE e == events[1]
<1>0. events # <<>> /\ events' = Tail(events) /\ UNCHANGED <<disk, draft, touched, queue, nextId, told>>
  BY DEF OnFileLoaded
<1>et. events' \in Seq(Event) /\ Head(events) \in Event /\ Head(events) = events[1]
  BY <1>0, <1>t, TailFacts DEF TypeInv
<1>e. Shrunk(events', events)
  BY <1>0, <1>t, TailFacts DEF TypeInv
<1>1. e.op = "FileLoaded" /\ e.id \in Nat /\ e.text \in SomeText /\ opening' = opening \ {e.id} /\ e.id \in LiveIds
  <2>1. /\ e.op = "FileLoaded" /\ e.id \in Nat /\ e.text \in SomeText /\ opening' = opening \ {e.id}
        /\ Indices(e.id) = {} => e.id \in opening
    BY <1>0, <1>et, <1>e DEF OnFileLoaded, Event
  <2>. QED BY <2>1 DEF Indices, LiveIds, OpenIds
<1>2. Fresh(e.id, e.text) \in Buffer
  BY <1>1 DEF Fresh, Buffer
<1>3. buffers' \in Seq(Buffer) /\ DOMAIN buffers' = {1} /\ buffers'[1] = Fresh(e.id, e.text) /\ Len(buffers') = 1
  <2>1. CASE Indices(e.id) # {}
    <3>1. buffers # <<>> /\ buffers' = [i \in DOMAIN buffers |->
             IF i \in Indices(e.id) THEN Fresh(e.id, e.text) ELSE buffers[i]]
      BY <2>1, <1>et DEF OnFileLoaded, Indices
    <3>2. DOMAIN buffers = {1} /\ Indices(e.id) = {1} /\ Len(buffers) = 1
      BY <2>1, <3>1, <1>t, TheBuffer, LenProperties DEF Indices, TypeInv
    <3>3. buffers' = [i \in {1} |-> Fresh(e.id, e.text)]
      BY <3>1, <3>2
    <3>4. buffers' = <<Fresh(e.id, e.text)>>
      BY <3>3
    <3>. QED BY <1>2, <3>4
  <2>2. CASE Indices(e.id) = {}
    <3>1. e.id \in opening /\ buffers = <<>>
      BY <2>2, <1>1, <1>t DEF Indices, LiveIds, OpenIds, OneBuffer
    <3>2. buffers' = <<Fresh(e.id, e.text)>>
      BY <2>2, <3>1, <1>et DEF OnFileLoaded
    <3>. QED BY <1>2, <3>2
  <2>. QED BY <2>1, <2>2
<1>4. buffers'[1].id = e.id /\ buffers'[1].version = 0 /\ buffers'[1].saved = 0 /\ buffers'[1].text = e.text
  BY <1>3 DEF Fresh
<1>5. opening' = {} /\ LiveIds = {e.id}
  <2>1. CASE buffers = <<>>
    BY <2>1, <1>1, <1>t DEF LiveIds, OpenIds, OneBuffer
  <2>2. CASE buffers # <<>>
    BY <2>2, <1>1, <1>t, TheBuffer DEF LiveIds, OpenIds, OneBuffer
  <2>. QED BY <2>1, <2>2
<1>o. OpenIds' = {e.id} /\ LiveIds' = LiveIds /\ OpenIds \subseteq LiveIds
  BY <1>3, <1>4, <1>5 DEF OpenIds, LiveIds
<1>6. \A m \in OnTheWay' : ~IsSave(m, e.id)
  <2>. SUFFICES ASSUME NEW m \in OnTheWay', IsSave(m, e.id) PROVE FALSE
    OBVIOUS
  <2>1. IsAhead(e, m) /\ m \in OnTheWay
    <3>1. queue' = queue
      BY <1>0
    <3>2. IsAhead(e, m)
      BY <1>e, <3>1, FirstIsAhead DEF IsSave
    <3>. QED BY <3>2 DEF IsAhead, OnTheWay
  <2>2. CASE Indices(e.id) = {}
    <3>1. e.id \in opening
      BY <2>2, <1>et DEF OnFileLoaded
    <3>. QED BY <2>1, <3>1, <1>f DEF SaveInv, WritesAreOld, OnTheWay, IsSave, FieldsTyped
  <2>3. CASE Indices(e.id) # {}
    <3>1. Indices(e.id) = {1} /\ buffers[1].id = e.id /\ 1 \in DOMAIN buffers
      BY <2>3, <1>t, TheBuffer DEF Indices
    <3>2. buffers[1].saved = buffers[1].version /\ buffers[1].saved \in Nat
      BY <3>1, <1>0, <1>et, <1>f DEF OnFileLoaded, DirtyAt, IsDirty, FieldsTyped
    <3>3. m.version \in Nat /\ m.version <= buffers[1].version
      BY <2>1, <3>1, <1>f, SavesAreBetween DEF SaveInv
    <3>4. buffers[1].saved < m.version
      BY <2>1, <3>1, <1>1 DEF SaveInv, SavesBehindReads, IsRead
    <3>. QED BY <3>2, <3>3, <3>4
  <2>. QED BY <2>2, <2>3
<1>9. /\ \A k \in DOMAIN events' : events'[k].op = "FileSaved" => events'[k].id # e.id
      /\ \A k \in DOMAIN queue : queue[k].op = "WriteFile" => queue[k].id # e.id
  BY <1>0, <1>6 DEF IsSave, OnTheWay
<1>7. e.id <= nextId
  BY <1>1, <1>e DEF SaveInv, IdsInv, Shrunk
<1>8. e.text = disk \/ touched \/ \E j \in DOMAIN events : 1 < j /\ events[j].op = "Changed"
  BY <1>1, <1>e DEF SaveInv, NewsFollows, ChangeFollows, Shrunk
<1>21. IdsInv'
  BY <1>0, <1>1, <1>3, <1>4, <1>5, <1>7, <1>9, <1>8, <1>o, <1>e, <1>t, <1>f DEF SaveInv,
     IdsInv, Shrunk, FieldsTyped, TypeInv
<1>22. OneBuffer'
  BY <1>0, <1>1, <1>3, <1>4, <1>5, <1>7, <1>9, <1>8, <1>o DEF SaveInv, OneBuffer
<1>23. SavesAheadOfReads' /\ SavesBehindReads'
  <2>1. \A a, b : IsAhead(a, b)' => a \in OnTheWay' /\ b \in OnTheWay'
    BY DEF IsAhead, OnTheWay
  <2>. QED BY <1>3, <1>4, <1>6, <2>1 DEF SavesAheadOfReads, SavesBehindReads
<1>24. ReadAskedOnce'
  BY <1>0, <1>1, <1>3, <1>4, <1>5, <1>7, <1>9, <1>8, <1>o DEF SaveInv, ReadAskedOnce
<1>25. ReadAnsweredOnce'
  BY <1>0, <1>1, <1>3, <1>4, <1>5, <1>7, <1>9, <1>8, <1>o, <1>e DEF SaveInv,
     ReadAnsweredOnce, Shrunk
<1>26. ReadAskedOrAnswered'
  BY <1>0, <1>1, <1>3, <1>4, <1>5, <1>7, <1>9, <1>8, <1>o, <1>e DEF SaveInv,
     ReadAskedOrAnswered, Shrunk
<1>27. WritesAreOld'
  BY <1>0, <1>1, <1>3, <1>4, <1>5, <1>7, <1>9, <1>8, <1>o, <1>e DEF SaveInv, WritesAreOld,
     Shrunk
<1>28. NewsFollows'
  <2>1. ASSUME NEW k \in DOMAIN events', ChangeFollows(k + 1) PROVE ChangeFollows(k)'
    <3>1. CASE touched
      BY <3>1, <1>0 DEF ChangeFollows
    <3>2. CASE \E j \in DOMAIN events : k + 1 < j /\ events[j].op = "Changed"
      <4>1. PICK j \in DOMAIN events : k + 1 < j /\ events[j].op = "Changed"
        BY <3>2
      <4>2. j - 1 \in DOMAIN events' /\ events'[j - 1] = events[j] /\ k < j - 1
        BY <4>1, <1>e DEF Shrunk
      <4>. QED BY <4>1, <4>2 DEF ChangeFollows
    <3>. QED BY <2>1, <3>1, <3>2 DEF ChangeFollows
  <2>2. \A k \in DOMAIN events' : k + 1 \in DOMAIN events /\ events'[k] = events[k + 1]
    BY <1>e DEF Shrunk
  <2>. SUFFICES ASSUME NEW k \in DOMAIN events'
                PROVE  (/\ events[k].op = "FileSaved" /\ events[k].id \in LiveIds => ChangeFollows(k)
                        /\ events[k].op = "FileLoaded" => events[k].text = disk \/ ChangeFollows(k))'
    BY DEF NewsFollows
  <2>. QED BY <2>1, <2>2, <1>0, <1>o DEF SaveInv, NewsFollows
<1>32. MarkedBefore'
  BY <1>0, <1>1, <1>3, <1>4, <1>5, <1>7, <1>9, <1>8, <1>o, <1>f DEF SaveInv, MarkedBefore,
     FieldsTyped
<1>33. SavedBetween'
  BY <1>0, <1>1, <1>3, <1>4, <1>5, <1>7, <1>9, <1>8, <1>o, <1>e, <1>f DEF SaveInv,
     SavedBetween, Shrunk, FieldsTyped, Between
<1>34. SavingBetween'
  BY <1>0, <1>1, <1>3, <1>4, <1>5, <1>7, <1>9, <1>8, <1>o, <1>f DEF SaveInv, SavingBetween,
     FieldsTyped, Between
<1>35. SavedInOrder'
  BY <1>0, <1>1, <1>3, <1>4, <1>5, <1>7, <1>9, <1>8, <1>o, <1>e DEF SaveInv, SavedInOrder,
     Shrunk
<1>36. SavedThenSaving'
  BY <1>0, <1>1, <1>3, <1>4, <1>5, <1>7, <1>9, <1>8, <1>o, <1>e DEF SaveInv,
     SavedThenSaving, Shrunk
<1>37. SavingInOrder'
  BY <1>0, <1>1, <1>3, <1>4, <1>5, <1>7, <1>9, <1>8, <1>o DEF SaveInv, SavingInOrder
<1>39. SavedAreCurrent'
  BY <1>0, <1>1, <1>3, <1>4, <1>5, <1>7, <1>9, <1>8, <1>o, <1>e DEF SaveInv,
     SavedAreCurrent, Shrunk, NoticeOnTheWay, IsDirty
<1>. QED BY <1>21, <1>22, <1>23, <1>24, <1>25, <1>26, <1>27, <1>28, <1>32, <1>33, <1>34,
     <1>35, <1>36, <1>37, <1>39 DEF SaveInv

\* A save marks the version that it wrote (on_fs_event, FileSaved; mark_saved).
LEMMA OnFileSavedSave ==
  ASSUME SaveInv, TypeInv', OnFileSaved
  PROVE  SaveInv'
<1>. USE DEF recovery, outside
<1>t. TypeInv /\ OneBuffer BY DEF SaveInv
<1>f. FieldsTyped
  BY <1>t, FieldTypes
<1>. DEFINE e == events[1]
<1>0. events # <<>> /\ events' = Tail(events) /\ UNCHANGED <<disk, draft, touched, nextId, opening, told>>
  BY DEF OnFileSaved
<1>et. events' \in Seq(Event) /\ Head(events) \in Event /\ Head(events) = events[1]
  BY <1>0, <1>t, TailFacts DEF TypeInv
<1>e. Shrunk(events', events)
  BY <1>0, <1>t, TailFacts DEF TypeInv
<1>1. e.op = "FileSaved" /\ e.version \in Nat
  BY <1>0, <1>et DEF OnFileSaved, Event
<1>2. CASE UNCHANGED <<buffers, queue>>
  <2>o. OpenIds' = OpenIds /\ LiveIds' = LiveIds
    BY <1>0, <1>2 DEF OpenIds, LiveIds
  <2>21. IdsInv'
    BY <1>0, <1>1, <1>2, <2>o, <1>e, <1>t, <1>f DEF SaveInv, IdsInv, Shrunk, FieldsTyped,
       TypeInv
  <2>22. OneBuffer'
    BY <1>0, <1>1, <1>2, <2>o DEF SaveInv, OneBuffer
  <2>23. SavesAheadOfReads' /\ SavesBehindReads'
    <3>1. \A a, b : IsAhead(a, b)' => IsAhead(a, b)
      BY <1>2, <1>e, FewerAhead
    <3>. QED BY <1>2, <3>1, OrderKept DEF SaveInv
  <2>24. ReadAskedOnce'
    BY <1>0, <1>1, <1>2, <2>o DEF SaveInv, ReadAskedOnce
  <2>25. ReadAnsweredOnce'
    BY <1>0, <1>1, <1>2, <2>o, <1>e DEF SaveInv, ReadAnsweredOnce, Shrunk
  <2>26. ReadAskedOrAnswered'
    BY <1>0, <1>1, <1>2, <2>o, <1>e DEF SaveInv, ReadAskedOrAnswered, Shrunk
  <2>27. WritesAreOld'
    BY <1>0, <1>1, <1>2, <2>o, <1>e DEF SaveInv, WritesAreOld, Shrunk
  <2>28. NewsFollows'
    <3>1. ASSUME NEW k \in DOMAIN events', ChangeFollows(k + 1) PROVE ChangeFollows(k)'
      <4>1. CASE touched
        BY <4>1, <1>0 DEF ChangeFollows
      <4>2. CASE \E j \in DOMAIN events : k + 1 < j /\ events[j].op = "Changed"
        <5>1. PICK j \in DOMAIN events : k + 1 < j /\ events[j].op = "Changed"
          BY <4>2
        <5>2. j - 1 \in DOMAIN events' /\ events'[j - 1] = events[j] /\ k < j - 1
          BY <5>1, <1>e DEF Shrunk
        <5>. QED BY <5>1, <5>2 DEF ChangeFollows
      <4>. QED BY <3>1, <4>1, <4>2 DEF ChangeFollows
    <3>2. \A k \in DOMAIN events' : k + 1 \in DOMAIN events /\ events'[k] = events[k + 1]
      BY <1>e DEF Shrunk
    <3>. SUFFICES ASSUME NEW k \in DOMAIN events'
                  PROVE  (/\ events[k].op = "FileSaved" /\ events[k].id \in LiveIds => ChangeFollows(k)
                          /\ events[k].op = "FileLoaded" => events[k].text = disk \/ ChangeFollows(k))'
      BY DEF NewsFollows
    <3>. QED BY <3>1, <3>2, <1>0, <2>o DEF SaveInv, NewsFollows
  <2>32. MarkedBefore'
    BY <1>0, <1>1, <1>2, <2>o, <1>f DEF SaveInv, MarkedBefore, FieldsTyped
  <2>33. SavedBetween'
    <3>1. \A k \in DOMAIN events' : k + 1 \in DOMAIN events /\ events'[k] = events[k + 1]
      BY <1>e DEF Shrunk
    <3>. QED BY <3>1, <1>2 DEF SaveInv, SavedBetween
  <2>34. SavingBetween'
    BY <1>0, <1>1, <1>2, <2>o, <1>f DEF SaveInv, SavingBetween, FieldsTyped, Between
  <2>35. SavedInOrder'
    BY <1>0, <1>1, <1>2, <2>o, <1>e DEF SaveInv, SavedInOrder, Shrunk
  <2>36. SavedThenSaving'
    <3>1. \A j \in DOMAIN events' : j + 1 \in DOMAIN events /\ events'[j] = events[j + 1]
      BY <1>e DEF Shrunk
    <3>. QED BY <3>1, <1>2, <2>o DEF SaveInv, SavedThenSaving
  <2>37. SavingInOrder'
    BY <1>0, <1>1, <1>2, <2>o DEF SaveInv, SavingInOrder
  <2>39. SavedAreCurrent'
    BY <1>0, <1>1, <1>2, <2>o, <1>e DEF SaveInv, SavedAreCurrent, Shrunk, NoticeOnTheWay,
       IsDirty
  <2>. QED BY <2>21, <2>22, <2>23, <2>24, <2>25, <2>26, <2>27, <2>28, <2>32, <2>33, <2>34,
       <2>35, <2>36, <2>37, <2>39 DEF SaveInv
<1>3. CASE /\ Indices(e.id) # {}
           /\ buffers' = [i \in DOMAIN buffers |-> IF i \in Indices(e.id) THEN MarkSaved(buffers[i], e.version) ELSE buffers[i]]
           /\ \/ queue' = queue
              \/ queue' = Append(queue, [op |-> "RemoveDraft"])
  <2>1. DOMAIN buffers = {1} /\ Indices(e.id) = {1} /\ Len(buffers) = 1 /\ buffers[1] \in Buffer /\ e.id = buffers[1].id
    BY <1>3, <1>t, TheBuffer, LenProperties DEF Indices, TypeInv
  <2>2. MarkSaved(buffers[1], e.version) \in Buffer
    BY <1>1, <2>1 DEF MarkSaved, Buffer
  <2>3. buffers' \in Seq(Buffer) /\ DOMAIN buffers' = {1} /\ Len(buffers') = 1 /\ buffers'[1] = MarkSaved(buffers[1], e.version)
    <3>1. buffers' = [i \in {1} |-> MarkSaved(buffers[1], e.version)]
      BY <1>3, <2>1
    <3>2. buffers' = <<MarkSaved(buffers[1], e.version)>>
      BY <3>1
    <3>. QED BY <2>2, <3>2
  <2>4. buffers'[1].id = buffers[1].id /\ buffers'[1].version = buffers[1].version /\ buffers'[1].saved = e.version
        /\ buffers'[1].text = buffers[1].text
    BY <2>1, <2>3 DEF MarkSaved, Buffer
  <2>5. buffers # <<>>
    BY <1>3 DEF Indices
  <2>o. OpenIds' = OpenIds /\ LiveIds' = LiveIds /\ OpenIds = {e.id} /\ e.id \in LiveIds
    BY <1>0, <2>1, <2>3, <2>4 DEF OpenIds, LiveIds
  <2>6. e.version <= buffers[1].version /\ buffers[1].saved <= e.version
    BY <1>1, <1>e, <2>1 DEF SaveInv, SavedBetween, Between, Shrunk
  <2>7. touched \/ \E j \in DOMAIN events : 1 < j /\ events[j].op = "Changed"
    BY <1>1, <1>e, <2>o DEF SaveInv, NewsFollows, ChangeFollows, Shrunk
  <2>qt. queue' \in Seq(Request)
    <3>1. [op |-> "RemoveDraft"] \in Request
      BY DEF Request
    <3>. QED BY <3>1, <1>3, <1>t, AppendFacts DEF TypeInv
  <2>q. /\ \A k \in DOMAIN queue' : (k \in DOMAIN queue /\ queue'[k] = queue[k])
                                     \/ (k = Len(queue) + 1 /\ queue'[k].op = "RemoveDraft")
        /\ \A k \in DOMAIN queue : k \in Nat /\ k < Len(queue) + 1 /\ k \in DOMAIN queue' /\ queue'[k] = queue[k]
    <3>1. CASE queue' = queue
      <4>1. \A k \in DOMAIN queue : k \in Nat /\ k < Len(queue) + 1
        BY <1>t DEF TypeInv
      <4>. QED BY <3>1, <4>1
    <3>2. CASE queue' = Append(queue, [op |-> "RemoveDraft"])
      <4>. DEFINE r == [op |-> "RemoveDraft"]
      <4>1. r \in Request /\ r.op = "RemoveDraft"
        BY DEF Request
      <4>. HIDE DEF r
      <4>2. Grown(queue', queue, r)
        BY <3>2, <4>1, <1>t, AppendFacts DEF TypeInv, r
      <4>. QED BY <4>1, <4>2 DEF Grown
    <3>. QED BY <1>3, <3>1, <3>2
  <2>21. IdsInv'
    BY <1>0, <1>1, <2>1, <2>3, <2>4, <2>6, <2>7, <2>o, <2>q, <1>e, <1>t, <1>f DEF SaveInv,
       IdsInv, Shrunk, FieldsTyped, TypeInv
  <2>22. OneBuffer'
    BY <1>0, <1>1, <2>1, <2>3, <2>4, <2>6, <2>7, <2>o DEF SaveInv, OneBuffer
  <2>23. SavesAheadOfReads' /\ SavesBehindReads'
    <3>. DEFINE r == [op |-> "RemoveDraft"]
    <3>1. ~IsSave(r, buffers[1].id) /\ ~IsRead(r, buffers[1].id)
      BY DEF IsSave, IsRead
    <3>2. queue' = queue \/ Grown(queue', queue, r)
      <4>1. r \in Request
        BY DEF Request
      <4>. QED BY <4>1, <1>3, <1>t, AppendFacts DEF TypeInv
    <3>. HIDE DEF r
    <3>3. \A a, b : IsAhead(a, b)' => IsAhead(a, b) \/ b = r
      BY <1>e, <3>2, AheadAsked
    <3>4. \A a, b : IsAhead(a, b)' => /\ b = r \/ IsAhead(e, b)
                                      /\ a = r \/ IsAhead(e, a)
      <4>1. \A a, b : IsAhead(a, b)' => a \in OnTheWay' /\ b \in OnTheWay'
        BY DEF IsAhead, OnTheWay
      <4>. QED BY <4>1, <1>e, <3>2, FirstIsAhead
    <3>5. IsSave(e, buffers[1].id)
      BY <1>1, <2>1 DEF IsSave
    <3>6. SavesAheadOfReads'
      <4>. SUFFICES ASSUME NEW a, NEW b, IsAhead(a, b)', IsSave(a, buffers[1].id), IsRead(b, buffers[1].id)
                    PROVE  a.version = e.version
        BY <2>3, <2>4 DEF SavesAheadOfReads, IsSave, IsRead
      <4>. QED BY <2>1, <3>1, <3>3, <3>4, <3>5 DEF SaveInv, SavesAheadOfReads
    <3>7. SavesBehindReads'
      <4>. SUFFICES ASSUME NEW a, NEW b, IsAhead(a, b)', IsRead(a, buffers[1].id), IsSave(b, buffers[1].id)
                    PROVE  e.version < b.version
        BY <2>3, <2>4 DEF SavesBehindReads, IsSave, IsRead
      <4>1. IsAhead(a, b) /\ IsAhead(e, a)
        BY <3>1, <3>3, <3>4
      <4>2. e.version = buffers[1].saved
        BY <2>1, <3>5, <4>1 DEF SaveInv, SavesAheadOfReads
      <4>3. buffers[1].saved < b.version
        BY <2>1, <4>1 DEF SaveInv, SavesBehindReads
      <4>. QED BY <4>2, <4>3
    <3>. QED BY <3>6, <3>7
  <2>24. ReadAskedOnce'
    BY <1>0, <1>1, <2>1, <2>3, <2>4, <2>6, <2>7, <2>o, <2>q DEF SaveInv, ReadAskedOnce
  <2>25. ReadAnsweredOnce'
    BY <1>0, <1>1, <2>1, <2>3, <2>4, <2>6, <2>7, <2>o, <1>e DEF SaveInv, ReadAnsweredOnce,
       Shrunk
  <2>26. ReadAskedOrAnswered'
    BY <1>0, <1>1, <2>1, <2>3, <2>4, <2>6, <2>7, <2>o, <2>q, <1>e DEF SaveInv,
       ReadAskedOrAnswered, Shrunk
  <2>27. WritesAreOld'
    BY <1>0, <1>1, <2>1, <2>3, <2>4, <2>6, <2>7, <2>o, <2>q, <1>e DEF SaveInv,
       WritesAreOld, Shrunk
  <2>28. NewsFollows'
    <3>1. ASSUME NEW k \in DOMAIN events', ChangeFollows(k + 1) PROVE ChangeFollows(k)'
      <4>1. CASE touched
        BY <4>1, <1>0 DEF ChangeFollows
      <4>2. CASE \E j \in DOMAIN events : k + 1 < j /\ events[j].op = "Changed"
        <5>1. PICK j \in DOMAIN events : k + 1 < j /\ events[j].op = "Changed"
          BY <4>2
        <5>2. j - 1 \in DOMAIN events' /\ events'[j - 1] = events[j] /\ k < j - 1
          BY <5>1, <1>e DEF Shrunk
        <5>. QED BY <5>1, <5>2 DEF ChangeFollows
      <4>. QED BY <3>1, <4>1, <4>2 DEF ChangeFollows
    <3>2. \A k \in DOMAIN events' : k + 1 \in DOMAIN events /\ events'[k] = events[k + 1]
      BY <1>e DEF Shrunk
    <3>. SUFFICES ASSUME NEW k \in DOMAIN events'
                  PROVE  (/\ events[k].op = "FileSaved" /\ events[k].id \in LiveIds => ChangeFollows(k)
                          /\ events[k].op = "FileLoaded" => events[k].text = disk \/ ChangeFollows(k))'
      BY DEF NewsFollows
    <3>. QED BY <3>1, <3>2, <1>0, <2>o DEF SaveInv, NewsFollows
  <2>32. MarkedBefore'
    BY <1>0, <1>1, <2>1, <2>3, <2>4, <2>6, <2>7, <2>o, <1>f DEF SaveInv, MarkedBefore,
       FieldsTyped
  <2>33. SavedBetween'
    <3>1. \A k \in DOMAIN events' : k + 1 \in DOMAIN events /\ 1 < k + 1 /\ events'[k] = events[k + 1]
      BY <1>e DEF Shrunk
    <3>2. 1 \in DOMAIN events /\ e.id \in OpenIds
      BY <1>e, <2>o DEF Shrunk
    <3>. QED BY <3>1, <3>2, <1>1, <2>1, <2>3, <2>4 DEF SaveInv, SavedBetween, SavedInOrder,
         Between
  <2>34. SavingBetween'
    <3>1. \A k \in DOMAIN queue' : queue'[k].op = "WriteFile" => k \in DOMAIN queue /\ queue'[k] = queue[k]
      BY <2>q
    <3>2. 1 \in DOMAIN events /\ e.id \in OpenIds
      BY <1>e, <2>o DEF Shrunk
    <3>. QED BY <3>1, <3>2, <1>1, <2>1, <2>3, <2>4 DEF SaveInv, SavingBetween,
         SavedThenSaving, Between
  <2>35. SavedInOrder'
    BY <1>0, <1>1, <2>1, <2>3, <2>4, <2>6, <2>7, <2>o, <1>e DEF SaveInv, SavedInOrder,
       Shrunk
  <2>36. SavedThenSaving'
    <3>1. \A j \in DOMAIN events' : j + 1 \in DOMAIN events /\ events'[j] = events[j + 1]
      BY <1>e DEF Shrunk
    <3>2. \A k \in DOMAIN queue' : queue'[k].op = "WriteFile" => k \in DOMAIN queue /\ queue'[k] = queue[k]
      BY <2>q
    <3>. QED BY <3>1, <3>2, <2>o DEF SaveInv, SavedThenSaving
  <2>37. SavingInOrder'
    BY <1>0, <1>1, <2>1, <2>3, <2>4, <2>6, <2>7, <2>o, <2>q DEF SaveInv, SavingInOrder
  <2>39. SavedAreCurrent'
    BY <1>0, <1>1, <2>1, <2>3, <2>4, <2>6, <2>7, <2>o, <2>q, <1>e DEF SaveInv,
       SavedAreCurrent, Shrunk, NoticeOnTheWay, IsDirty
  <2>. QED BY <2>21, <2>22, <2>23, <2>24, <2>25, <2>26, <2>27, <2>28, <2>32, <2>33, <2>34,
       <2>35, <2>36, <2>37, <2>39 DEF SaveInv
<1>. QED BY <1>2, <1>3, <1>et DEF OnFileSaved

\* After a crash nothing is under way, and what was restored shows the file.
LEMMA CrashSave ==
  ASSUME TypeInv, TypeInv', Crash
  PROVE  SaveInv'
<1>. USE DEF recovery, outside
<1>f. FieldsTyped
  BY FieldTypes
<1>1. queue' = <<>> /\ events' = <<>> /\ opening' = {} /\ touched' = FALSE /\ told' = FALSE /\ UNCHANGED <<disk, draft>>
  BY DEF Crash
<1>2. DOMAIN queue' = {} /\ DOMAIN events' = {}
  BY <1>1
<1>e. <<>> \in Seq(Request) /\ <<>> \in Seq(Event) /\ <<>> \in Seq(Buffer)
  OBVIOUS
<1>3. CASE buffers' = <<>> /\ nextId' = 0
  <2>1. DOMAIN buffers' = {} /\ Len(buffers') = 0
    BY <1>3
  <2>21. IdsInv'
    BY <1>1, <1>2, <1>3, <2>1, <1>f DEF IdsInv, FieldsTyped, TypeInv
  <2>22. OneBuffer'
    BY <1>1, <1>2, <1>3, <2>1 DEF OneBuffer
  <2>23. SavesAheadOfReads' /\ SavesBehindReads'
    BY <2>1 DEF SavesAheadOfReads, SavesBehindReads
  <2>24. ReadAskedOnce'
    BY <1>1, <1>2, <1>3, <2>1 DEF ReadAskedOnce
  <2>25. ReadAnsweredOnce'
    BY <1>1, <1>2, <1>3, <2>1 DEF ReadAnsweredOnce
  <2>26. ReadAskedOrAnswered'
    BY <1>1, <1>2, <1>3, <2>1 DEF ReadAskedOrAnswered
  <2>27. WritesAreOld'
    BY <1>1, <1>2, <1>3, <2>1 DEF WritesAreOld, LiveIds, OpenIds
  <2>28. NewsFollows'
    BY <1>1, <1>2, <1>3, <2>1 DEF NewsFollows, ChangeFollows, LiveIds, OpenIds
  <2>32. MarkedBefore'
    BY <1>1, <1>2, <1>3, <2>1, <1>f DEF MarkedBefore, FieldsTyped
  <2>33. SavedBetween'
    BY <1>1, <1>2, <1>3, <2>1, <1>f DEF SavedBetween, FieldsTyped, Between
  <2>34. SavingBetween'
    BY <1>1, <1>2, <1>3, <2>1, <1>f DEF SavingBetween, FieldsTyped, Between
  <2>35. SavedInOrder'
    BY <1>1, <1>2, <1>3, <2>1 DEF SavedInOrder, LiveIds, OpenIds
  <2>36. SavedThenSaving'
    BY <1>1, <1>2, <1>3, <2>1 DEF SavedThenSaving, LiveIds, OpenIds
  <2>37. SavingInOrder'
    BY <1>1, <1>2, <1>3, <2>1 DEF SavingInOrder, LiveIds, OpenIds
  <2>39. SavedAreCurrent'
    BY <1>1, <1>2, <1>3, <2>1 DEF SavedAreCurrent, NoticeOnTheWay, IsDirty
  <2>. QED BY <2>21, <2>22, <2>23, <2>24, <2>25, <2>26, <2>27, <2>28, <2>32, <2>33, <2>34,
       <2>35, <2>36, <2>37, <2>39 DEF SaveInv
<1>4. CASE buffers' = <<Fresh(1, disk)>> /\ nextId' = 1
  <2>1. Fresh(1, disk) \in Buffer
    BY DEF Fresh, Buffer, TypeInv
  <2>2. /\ buffers' \in Seq(Buffer) /\ DOMAIN buffers' = {1} /\ Len(buffers') = 1
        /\ buffers'[1].id = 1 /\ buffers'[1].text = disk /\ buffers'[1].version = 0 /\ buffers'[1].saved = 0
    BY <1>4, <2>1 DEF Fresh
  <2>21. IdsInv'
    BY <1>1, <1>2, <1>4, <2>2, <1>f DEF IdsInv, FieldsTyped, TypeInv
  <2>22. OneBuffer'
    BY <1>1, <1>2, <1>4, <2>2 DEF OneBuffer
  <2>23. SavesAheadOfReads' /\ SavesBehindReads'
    <3>1. \A a, b : ~IsAhead(a, b)'
      BY <1>2 DEF IsAhead
    <3>. QED BY <3>1 DEF SavesAheadOfReads, SavesBehindReads
  <2>24. ReadAskedOnce'
    BY <1>1, <1>2, <1>4, <2>2 DEF ReadAskedOnce
  <2>25. ReadAnsweredOnce'
    BY <1>1, <1>2, <1>4, <2>2 DEF ReadAnsweredOnce
  <2>26. ReadAskedOrAnswered'
    BY <1>1, <1>2, <1>4, <2>2 DEF ReadAskedOrAnswered
  <2>27. WritesAreOld'
    BY <1>1, <1>2, <1>4, <2>2 DEF WritesAreOld, LiveIds, OpenIds
  <2>28. NewsFollows'
    BY <1>1, <1>2, <1>4, <2>2 DEF NewsFollows, ChangeFollows, LiveIds, OpenIds
  <2>32. MarkedBefore'
    BY <1>1, <1>2, <1>4, <2>2, <1>f DEF MarkedBefore, FieldsTyped
  <2>33. SavedBetween'
    BY <1>1, <1>2, <1>4, <2>2, <1>f DEF SavedBetween, FieldsTyped, Between
  <2>34. SavingBetween'
    BY <1>1, <1>2, <1>4, <2>2, <1>f DEF SavingBetween, FieldsTyped, Between
  <2>35. SavedInOrder'
    BY <1>1, <1>2, <1>4, <2>2 DEF SavedInOrder, LiveIds, OpenIds
  <2>36. SavedThenSaving'
    BY <1>1, <1>2, <1>4, <2>2 DEF SavedThenSaving, LiveIds, OpenIds
  <2>37. SavingInOrder'
    BY <1>1, <1>2, <1>4, <2>2 DEF SavingInOrder, LiveIds, OpenIds
  <2>39. SavedAreCurrent'
    BY <1>1, <1>2, <1>4, <2>2 DEF SavedAreCurrent, NoticeOnTheWay, IsDirty
  <2>. QED BY <2>21, <2>22, <2>23, <2>24, <2>25, <2>26, <2>27, <2>28, <2>32, <2>33, <2>34,
       <2>35, <2>36, <2>37, <2>39 DEF SaveInv
<1>. QED BY <1>3, <1>4 DEF Crash

\* Every step keeps the invariant, as long as no re-read has done harm.
LEMMA NextSave ==
  ASSUME SaveInv, TypeInv', [Next]_vars, harm' = {}
  PROVE  SaveInv'
<1>t. TypeInv /\ OneBuffer BY DEF SaveInv
<1>s. ASSUME UNCHANGED saveVars, UNCHANGED draft PROVE SaveInv'
  BY <1>s, StutterSave
<1>1. CASE Human
  <2>1. CASE OpenFile BY <2>1, OpenFileSave
  <2>2. ASSUME NEW i \in DOMAIN buffers, NEW t \in Text, TypeText(i, t) PROVE SaveInv'
    BY <2>2, EditSave DEF TypeText, outside, SomeText
  <2>3. ASSUME NEW i \in DOMAIN buffers, SaveActiveBuffer(i) PROVE SaveInv'
    BY <2>3, SaveActiveBufferSave
  <2>4. ASSUME NEW i \in DOMAIN buffers, CloseTab(i) PROVE SaveInv'
    BY <2>4, CloseTabSave
  <2>5. CASE OtherCommand
    BY <2>5, <1>s DEF OtherCommand, saveVars, outside
  <2>6. ASSUME NEW dispatched \in BOOLEAN, AcceptDraft(dispatched) PROVE SaveInv'
    <3>1. CASE buffers = <<>>
      BY <2>6, <3>1, <1>s DEF AcceptDraft, saveVars, outside
    <3>2. CASE buffers # <<>>
      <4>1. 1 \in DOMAIN buffers
        BY <3>2, <1>t, TheBuffer
      <4>2. draft \in SomeText /\ told \in BOOLEAN
        BY <1>t DEF TypeInv
      <4>. QED BY <2>6, <3>2, <4>1, <4>2, EditSave DEF AcceptDraft, outside
    <3>. QED BY <3>1, <3>2
  <2>7. CASE DiscardDraft BY <2>7, DiscardDraftSave
  <2>8. CASE IgnoreDraft
    BY <2>8, <1>s DEF IgnoreDraft, saveVars, outside
  <2>. QED BY <1>1, <2>1, <2>2, <2>3, <2>4, <2>5, <2>6, <2>7, <2>8 DEF Human
<1>2. CASE Absorb
  BY <1>2, OnFileLoadedSave, OnFileSavedSave, OnFileFailedSave, OnChangedSave DEF Absorb
<1>3. CASE UNCHANGED vars
  BY <1>3, <1>s DEF vars, saveVars
<1>4. CASE Crash
  BY <1>t, <1>4, CrashSave
<1>. QED
  BY <1>1, <1>2, <1>3, <1>4, QueueDueDraftsSave, ServeRequestSave, RefuseRequestSave,
     ReportChangeSave, WrittenByOtherSave DEF Next

-----------------------------------------------------------------------------
(***************************************************************************)
(* Unsaved work and its draft, for any number of edits, saves, reloads,    *)
(* drafts and crashes: FileSync's promise of recovery.  It rests on the    *)
(* invariant above.                                                        *)
(***************************************************************************)
DraftTypes == draftVersion \subseteq Nat /\ deadline \in BOOLEAN

\* A draft's id was handed out, and belongs to no buffer, no read and no save.
DraftIdsApart ==
  /\ draftWrites \subseteq Nat
  /\ \A id \in draftWrites : id <= nextId /\ id \notin LiveIds
  /\ \A k \in DOMAIN queue : queue[k].op \in {"ReadFile", "WriteFile"} => queue[k].id \notin draftWrites

\* A draft in the queue is waited for, and every draft is there once: asked for, or
\* answered.
DraftsAwaited ==
  \A k \in DOMAIN queue : queue[k].op = "WriteDraft" => queue[k].id \in draftWrites
DraftAskedOnce ==
  \A j, k \in DOMAIN queue :
    queue[j].op = "WriteDraft" /\ queue[k].op = "WriteDraft" /\ queue[j].id = queue[k].id => j = k
DraftAskedOrAnswered ==
  \A j \in DOMAIN queue : \A k \in DOMAIN events :
    queue[j].op = "WriteDraft" /\ events[k].op # "Changed" => queue[j].id # events[k].id
DraftAnsweredOnce ==
  \A j, k \in DOMAIN events :
    events[j].op # "Changed" /\ events[k].op # "Changed" /\ events[j].id = events[k].id
      /\ events[k].id \in draftWrites => j = k

\* While the recovery overlay is up nothing is unsaved and nothing is being written.
NothingWrittenWhileOffered ==
  offered =>
    /\ \A i \in DOMAIN buffers : ~IsDirty(buffers[i])
    /\ \A k \in DOMAIN queue : queue[k].op = "ReadFile"
    /\ \A k \in DOMAIN events : events[k].op # "FileSaved"

\* The debounce has seen no version that the buffer has yet to reach.
SeenVersions ==
  \A v \in draftVersion : \E i \in DOMAIN buffers : v <= buffers[i].version

\* The last thing done to the draft, or asked of the worker, is to hold this text; or
\* the disk refused it, and the human is about to hear of that.
DraftOps == {"RemoveDraft", "WriteDraft"}
Drafted(t) ==
  /\ draft = t
  /\ \A k \in DOMAIN queue : queue[k].op # "RemoveDraft" /\ (queue[k].op = "WriteDraft" => queue[k].text = t)
Drafting(t) ==
  \E k \in DOMAIN queue :
    /\ queue[k].op = "WriteDraft" /\ queue[k].text = t
    /\ \A j \in DOMAIN queue : k < j => queue[j].op \notin DraftOps
Refused == \E k \in DOMAIN events : events[k].op = "FileFailed" /\ events[k].id \in draftWrites
LastDraftIs(t) == Drafted(t) \/ Drafting(t) \/ Refused

DraftsAreLast ==
  \A i \in DOMAIN buffers :
    IsDirty(buffers[i]) => deadline \/ told \/ draftVersion = {} \/ LastDraftIs(buffers[i].text)

MirrorInv ==
  /\ DraftTypes /\ DraftIdsApart
  /\ DraftsAwaited /\ DraftAskedOnce /\ DraftAskedOrAnswered /\ DraftAnsweredOnce
  /\ NothingWrittenWhileOffered /\ SeenVersions /\ DraftsAreLast

-----------------------------------------------------------------------------
\* What the debounce knows after a command, keystroke or reload (sync_drafts_at), by
\* the one buffer that may be open.
Debounced ==
  /\ DraftTypes'
  /\ \A i \in DOMAIN buffers' :
       /\ IsDirty(buffers'[i]) => draftVersion' = {buffers'[i].version}
       /\ IsDirty(buffers'[i]) /\ deadline => deadline'
       /\ IsDirty(buffers'[i]) /\ {buffers'[i].version} # draftVersion => deadline'
  /\ (\A i \in DOMAIN buffers' : ~IsDirty(buffers'[i])) => draftVersion' = {}

\* The debounce follows the buffer (sync_drafts_at).
LEMMA SyncFacts ==
  ASSUME TypeInv', OneBuffer', DraftTypes, SyncDrafts(buffers', draftVersion)
  PROVE  Debounced
<1>1. CASE DOMAIN buffers' = {}
  <2>1. DirtyAt(buffers') = {}
    BY <1>1 DEF DirtyAt
  <2>. QED BY <1>1, <2>1 DEF SyncDrafts, Debounced, DraftTypes
<1>2. CASE buffers' # <<>> /\ DOMAIN buffers' = {1} /\ buffers'[1] \in Buffer
  <2>1. CASE IsDirty(buffers'[1])
    <3>1. DirtyAt(buffers') = {1}
      BY <1>2, <2>1 DEF DirtyAt
    <3>2. (CHOOSE i \in DirtyAt(buffers') : \A j \in DirtyAt(buffers') : j <= i) = 1
      BY <3>1
    <3>3. LastDirty(buffers') = buffers'[1] /\ buffers'[1].version \in Nat
      BY <1>2, <3>2 DEF LastDirty, Buffer
    <3>. QED BY <1>2, <2>1, <3>1, <3>3 DEF SyncDrafts, Debounced, DraftTypes
  <2>2. CASE ~IsDirty(buffers'[1])
    <3>1. DirtyAt(buffers') = {}
      BY <1>2, <2>2 DEF DirtyAt
    <3>. QED BY <1>2, <2>2, <3>1 DEF SyncDrafts, Debounced, DraftTypes
  <2>. QED BY <2>1, <2>2
<1>. QED
  <2>1. buffers' \in Seq(Buffer) /\ Len(buffers') <= 1
    BY DEF TypeInv, OneBuffer
  <2>2. Len(buffers') \in Nat /\ DOMAIN buffers' = 1 .. Len(buffers')
    BY <2>1, LenProperties
  <2>. QED BY <2>1, <2>2, <1>1, <1>2

\* A request that is about no draft leaves the last of them the last.
LEMMA LastDraftKept ==
  ASSUME NEW t, NEW r, LastDraftIs(t), UNCHANGED <<draft, events, draftWrites>>,
         queue' = queue \/ (Grown(queue', queue, r) /\ r.op \notin DraftOps)
  PROVE  LastDraftIs(t)'
<1>1. ASSUME Drafted(t) PROVE Drafted(t)'
  BY <1>1 DEF Drafted, Grown, DraftOps
<1>2. ASSUME Drafting(t) PROVE Drafting(t)'
  <2>1. PICK k \in DOMAIN queue : /\ queue[k].op = "WriteDraft" /\ queue[k].text = t
                                  /\ \A j \in DOMAIN queue : k < j => queue[j].op \notin DraftOps
    BY <1>2 DEF Drafting
  <2>2. k \in DOMAIN queue' /\ queue'[k] = queue[k]
    BY DEF Grown
  <2>3. \A j \in DOMAIN queue' : k < j => queue'[j].op \notin DraftOps
    BY <2>1 DEF Grown
  <2>. QED BY <2>1, <2>2, <2>3 DEF Drafting
<1>3. ASSUME Refused PROVE Refused'
  BY <1>3 DEF Refused
<1>. QED BY <1>1, <1>2, <1>3 DEF LastDraftIs

draftVars == <<draft, buffers, nextId, opening, queue, events, recovery, told>>

\* No buffer, no draft and no request at first.
LEMMA InitMirror == Init => MirrorInv
<1>. SUFFICES ASSUME Init PROVE MirrorInv
  OBVIOUS
<1>1. DOMAIN buffers = {} /\ DOMAIN queue = {} /\ DOMAIN events = {}
  BY DEF Init
<1>. QED BY <1>1 DEF Init, MirrorInv, DraftTypes, DraftIdsApart, DraftsAwaited, DraftAskedOnce,
     DraftAskedOrAnswered, DraftAnsweredOnce, NothingWrittenWhileOffered, SeenVersions,
     DraftsAreLast

\* A step that leaves the buffers, the draft, the requests and the events alone.
LEMMA StutterMirror ==
  ASSUME MirrorInv, UNCHANGED draftVars
  PROVE  MirrorInv'
BY DEF draftVars, recovery, MirrorInv, DraftTypes, DraftIdsApart, DraftsAwaited, DraftAskedOnce,
     DraftAskedOrAnswered, DraftAnsweredOnce, NothingWrittenWhileOffered, SeenVersions,
     DraftsAreLast, LastDraftIs, Drafted, Drafting, Refused, LiveIds, OpenIds

\* A first read is asked for, of a new id (open_file).
LEMMA OpenFileMirror ==
  ASSUME SaveInv, MirrorInv, OpenFile
  PROVE  MirrorInv'
<1>. USE DEF recovery, outside
<1>t. TypeInv /\ OneBuffer
  BY DEF SaveInv
<1>f. FieldsTyped
  BY <1>t, FieldTypes
<1>. DEFINE r == [op |-> "ReadFile", id |-> nextId + 1]
<1>1. /\ UNCHANGED <<draft, buffers, events, recovery, told>> /\ buffers = <<>> /\ DOMAIN buffers = {}
      /\ nextId' = nextId + 1 /\ opening' = {nextId + 1} /\ queue' = Append(queue, r) /\ ~offered
  BY DEF OpenFile
<1>2. r \in Request /\ r.op = "ReadFile" /\ nextId \in Nat
  BY <1>t DEF TypeInv, Request
<1>i. r.id = nextId + 1
  OBVIOUS
<1>. HIDE DEF r
<1>q. Grown(queue', queue, r)
  BY <1>t, <1>1, <1>2, AppendFacts DEF TypeInv
<1>20. DraftTypes'
  BY <1>1, <1>2 DEF MirrorInv, DraftTypes
<1>21. DraftIdsApart'
  <2>1. \A id \in draftWrites : id \in Nat /\ id <= nextId
    BY DEF MirrorInv, DraftIdsApart
  <2>2. nextId + 1 \notin draftWrites /\ \A id \in draftWrites : id <= nextId + 1
    BY <1>2, <2>1
  <2>3. LiveIds' = {nextId + 1}
    BY <1>1 DEF LiveIds, OpenIds
  <2>4. r.id = nextId + 1
    BY <1>i
  <2>5. \A k \in DOMAIN queue' : (k \in DOMAIN queue /\ queue'[k] = queue[k]) \/ queue'[k] = r
    BY <1>q DEF Grown
  <2>6. \A k \in DOMAIN queue' : queue'[k].op \in {"ReadFile", "WriteFile"} => queue'[k].id \notin draftWrites
    BY <2>2, <2>4, <2>5 DEF MirrorInv, DraftIdsApart
  <2>. QED BY <1>1, <2>1, <2>2, <2>3, <2>6 DEF DraftIdsApart
<1>22. DraftsAwaited'
  BY <1>1, <1>2, <1>q DEF MirrorInv, DraftsAwaited, Grown
<1>23. DraftAskedOnce'
  BY <1>1, <1>2, <1>q DEF MirrorInv, DraftAskedOnce, Grown
<1>24. DraftAskedOrAnswered'
  BY <1>1, <1>2, <1>q DEF MirrorInv, DraftAskedOrAnswered, Grown
<1>25. DraftAnsweredOnce'
  BY <1>1, <1>2 DEF MirrorInv, DraftAnsweredOnce
<1>26. NothingWrittenWhileOffered'
  BY <1>1, <1>2, <1>q DEF MirrorInv, NothingWrittenWhileOffered, Grown
<1>27. SeenVersions'
  BY <1>1, <1>2 DEF MirrorInv, SeenVersions
<1>28. DraftsAreLast'
  BY <1>1, <1>2 DEF MirrorInv, DraftsAreLast
<1>. QED BY <1>20, <1>21, <1>22, <1>23, <1>24, <1>25, <1>26, <1>27, <1>28
   DEF MirrorInv

\* An edit restarts the debounce: its version is one the debounce has not seen
\* (type_char).
LEMMA TypeTextMirror ==
  ASSUME SaveInv, SaveInv', MirrorInv, NEW i \in DOMAIN buffers, NEW t \in Text, TypeText(i, t)
  PROVE  MirrorInv'
<1>. USE DEF recovery, outside
<1>t. TypeInv /\ OneBuffer
  BY DEF SaveInv
<1>f. FieldsTyped
  BY <1>t, FieldTypes
<1>b. buffers # <<>> /\ DOMAIN buffers = {1} /\ buffers[1] \in Buffer
  BY <1>t, TheBuffer
<1>1. /\ UNCHANGED <<draft, nextId, opening, queue, events, draftWrites, known, offered>>
      /\ ~offered /\ i = 1
  BY <1>b DEF TypeText
<1>2. /\ buffers' = [buffers EXCEPT ![1].text = t, ![1].version = @ + 1]
      /\ DOMAIN buffers' = {1} /\ buffers'[1].id = buffers[1].id
      /\ buffers'[1].version = buffers[1].version + 1
      /\ buffers'[1].saved = buffers[1].saved /\ buffers[1].saved \in Nat /\ buffers[1].version \in Nat
      /\ buffers[1].saved <= buffers[1].version
  BY <1>1, <1>b DEF TypeText, Buffer, SaveInv, MarkedBefore
<1>d. Debounced
  BY SyncFacts DEF TypeText, SaveInv, MirrorInv
<1>3. IsDirty(buffers'[1])
  BY <1>2 DEF IsDirty
<1>4. deadline' /\ draftVersion' = {buffers'[1].version}
  <2>1. buffers'[1].version \notin draftVersion
    BY <1>2, <1>b DEF MirrorInv, DraftTypes, SeenVersions
  <2>. QED BY <2>1, <1>2, <1>3, <1>d DEF Debounced
<1>o. LiveIds' = LiveIds
  BY <1>1, <1>2, <1>b DEF LiveIds, OpenIds
<1>20. DraftTypes'
  BY <1>1, <1>d DEF MirrorInv, DraftTypes, Debounced
<1>21. DraftIdsApart'
  BY <1>1, <1>o DEF MirrorInv, DraftIdsApart
<1>22. DraftsAwaited'
  BY <1>1 DEF MirrorInv, DraftsAwaited
<1>23. DraftAskedOnce'
  BY <1>1 DEF MirrorInv, DraftAskedOnce
<1>24. DraftAskedOrAnswered'
  BY <1>1 DEF MirrorInv, DraftAskedOrAnswered
<1>25. DraftAnsweredOnce'
  BY <1>1 DEF MirrorInv, DraftAnsweredOnce
<1>26. NothingWrittenWhileOffered'
  BY <1>1 DEF MirrorInv, NothingWrittenWhileOffered
<1>27. SeenVersions'
  BY <1>1, <1>2, <1>4 DEF MirrorInv, SeenVersions
<1>28. DraftsAreLast'
  BY <1>1, <1>4 DEF MirrorInv, DraftsAreLast
<1>. QED BY <1>20, <1>21, <1>22, <1>23, <1>24, <1>25, <1>26, <1>27, <1>28
   DEF MirrorInv

\* A save carries the version the buffer has (save_active_buffer).
LEMMA SaveActiveBufferMirror ==
  ASSUME SaveInv, SaveInv', MirrorInv, NEW i \in DOMAIN buffers, SaveActiveBuffer(i)
  PROVE  MirrorInv'
<1>. USE DEF recovery, outside
<1>t. TypeInv /\ OneBuffer
  BY DEF SaveInv
<1>f. FieldsTyped
  BY <1>t, FieldTypes
<1>b. buffers # <<>> /\ DOMAIN buffers = {1} /\ buffers[1] \in Buffer
  BY <1>t, TheBuffer
<1>. DEFINE r == [op |-> "WriteFile", id |-> buffers[i].id,
                  version |-> buffers[i].version, text |-> buffers[i].text]
<1>1. /\ UNCHANGED <<draft, buffers, nextId, opening, events, draftWrites, known, offered, told>>
      /\ ~offered
      /\ queue' = Append(queue, r) /\ IsDirty(buffers[1]) /\ i = 1 /\ UNCHANGED LiveIds
  BY <1>b DEF SaveActiveBuffer, LiveIds, OpenIds
<1>2. /\ r \in Request /\ r.op = "WriteFile" /\ r.id = buffers[1].id
      /\ r.version = buffers[1].version /\ r.id \in LiveIds
  BY <1>1, <1>b DEF Buffer, Request, LiveIds, OpenIds
<1>. HIDE DEF r
<1>q. Grown(queue', queue, r)
  BY <1>t, <1>1, <1>2, AppendFacts DEF TypeInv
<1>d. Debounced
  BY SyncFacts DEF SaveActiveBuffer, SaveInv, MirrorInv
<1>3. draftVersion' = {buffers[1].version} /\ (deadline => deadline') /\ buffers[1].version \in Nat
  BY <1>1, <1>b, <1>d DEF Debounced, Buffer
<1>4. deadline' \/ draftVersion # {}
  BY <1>1, <1>b, <1>d DEF Debounced
<1>20. DraftTypes'
  BY <1>1, <1>2, <1>d DEF MirrorInv, DraftTypes, Debounced
<1>21. DraftIdsApart'
  BY <1>1, <1>2, <1>q DEF MirrorInv, DraftIdsApart, Grown
<1>22. DraftsAwaited'
  BY <1>1, <1>2, <1>q DEF MirrorInv, DraftsAwaited, Grown
<1>23. DraftAskedOnce'
  BY <1>1, <1>2, <1>q DEF MirrorInv, DraftAskedOnce, Grown
<1>24. DraftAskedOrAnswered'
  BY <1>1, <1>2, <1>q DEF MirrorInv, DraftAskedOrAnswered, Grown
<1>25. DraftAnsweredOnce'
  BY <1>1, <1>2 DEF MirrorInv, DraftAnsweredOnce
<1>26. NothingWrittenWhileOffered'
  BY <1>1, <1>2, <1>q DEF MirrorInv, NothingWrittenWhileOffered, Grown
<1>27. SeenVersions'
  BY <1>1, <1>2, <1>3, <1>b DEF MirrorInv, SeenVersions
<1>28. DraftsAreLast'
  <2>. SUFFICES ASSUME NEW n \in DOMAIN buffers', IsDirty(buffers[n])', ~deadline', ~told'
                PROVE  LastDraftIs(buffers[n].text)'
    BY DEF DraftsAreLast
  <2>. QED BY <1>1, <1>2, <1>3, <1>4, <1>b, <1>q, LastDraftKept DEF MirrorInv, DraftsAreLast, DraftOps
<1>. QED BY <1>20, <1>21, <1>22, <1>23, <1>24, <1>25, <1>26, <1>27, <1>28
   DEF MirrorInv

\* With its buffer closed the file has no unsaved work (close_tab, discard_buffer).
LEMMA CloseTabMirror ==
  ASSUME SaveInv, SaveInv', MirrorInv, NEW i \in DOMAIN buffers, CloseTab(i)
  PROVE  MirrorInv'
<1>. USE DEF recovery, outside
<1>t. TypeInv /\ OneBuffer
  BY DEF SaveInv
<1>f. FieldsTyped
  BY <1>t, FieldTypes
<1>b. buffers # <<>> /\ DOMAIN buffers = {1} /\ buffers[1] \in Buffer
  BY <1>t, TheBuffer
<1>1. /\ UNCHANGED <<draft, nextId, opening, queue, events, draftWrites, known, offered, told>>
      /\ ~offered /\ i = 1
  BY <1>b DEF CloseTab
<1>2. buffers' = <<>> /\ DOMAIN buffers' = {} /\ LiveIds' \subseteq LiveIds
  <2>1. Len(buffers) = 1 /\ buffers \in Seq(Buffer)
    BY <1>b, <1>t, LenProperties DEF TypeInv
  <2>2. buffers' = <<>>
    BY <2>1, <1>1, <1>b DEF CloseTab, RemoveAt
  <2>. QED BY <2>2, <1>1 DEF LiveIds, OpenIds
<1>d. Debounced
  BY SyncFacts DEF CloseTab, SaveInv, MirrorInv
<1>20. DraftTypes'
  BY <1>1, <1>2, <1>d DEF MirrorInv, DraftTypes, Debounced
<1>21. DraftIdsApart'
  BY <1>1, <1>2 DEF MirrorInv, DraftIdsApart
<1>22. DraftsAwaited'
  BY <1>1, <1>2 DEF MirrorInv, DraftsAwaited
<1>23. DraftAskedOnce'
  BY <1>1, <1>2 DEF MirrorInv, DraftAskedOnce
<1>24. DraftAskedOrAnswered'
  BY <1>1, <1>2 DEF MirrorInv, DraftAskedOrAnswered
<1>25. DraftAnsweredOnce'
  BY <1>1, <1>2 DEF MirrorInv, DraftAnsweredOnce
<1>26. NothingWrittenWhileOffered'
  BY <1>1, <1>2 DEF MirrorInv, NothingWrittenWhileOffered
<1>27. SeenVersions'
  BY <1>1, <1>2, <1>d DEF MirrorInv, SeenVersions, Debounced
<1>28. DraftsAreLast'
  BY <1>1, <1>2 DEF MirrorInv, DraftsAreLast
<1>. QED BY <1>20, <1>21, <1>22, <1>23, <1>24, <1>25, <1>26, <1>27, <1>28
   DEF MirrorInv

\* Any other command only looks at the drafts (dispatch).
LEMMA OtherCommandMirror ==
  ASSUME SaveInv, SaveInv', MirrorInv, OtherCommand
  PROVE  MirrorInv'
<1>. USE DEF recovery, outside
<1>1. /\ UNCHANGED <<draft, buffers, nextId, opening, queue, events, draftWrites, known, offered, told>>
      /\ ~offered /\ UNCHANGED LiveIds
  BY DEF OtherCommand, LiveIds, OpenIds
<1>d. Debounced
  BY SyncFacts DEF OtherCommand, SaveInv, MirrorInv
<1>20. DraftTypes'
  BY <1>1, <1>d DEF MirrorInv, DraftTypes, Debounced
<1>21. DraftIdsApart'
  BY <1>1 DEF MirrorInv, DraftIdsApart
<1>22. DraftsAwaited'
  BY <1>1 DEF MirrorInv, DraftsAwaited
<1>23. DraftAskedOnce'
  BY <1>1 DEF MirrorInv, DraftAskedOnce
<1>24. DraftAskedOrAnswered'
  BY <1>1 DEF MirrorInv, DraftAskedOrAnswered
<1>25. DraftAnsweredOnce'
  BY <1>1 DEF MirrorInv, DraftAnsweredOnce
<1>26. NothingWrittenWhileOffered'
  BY <1>1 DEF MirrorInv, NothingWrittenWhileOffered
<1>27. SeenVersions'
  <2>1. \A i \in DOMAIN buffers : buffers[i].version \in Nat
    BY FieldTypes DEF SaveInv, FieldsTyped
  <2>. QED BY <1>1, <1>d, <2>1 DEF Debounced, SeenVersions
<1>28. DraftsAreLast'
  <2>1. \A i \in DOMAIN buffers : IsDirty(buffers[i]) => deadline' \/ (deadline = FALSE /\ draftVersion # {})
    BY <1>1, <1>d DEF Debounced, MirrorInv, DraftTypes
  <2>2. \A x : LastDraftIs(x) => LastDraftIs(x)'
    BY <1>1 DEF LastDraftIs, Drafted, Drafting, Refused
  <2>. QED BY <1>1, <2>1, <2>2 DEF MirrorInv, DraftsAreLast
<1>. QED BY <1>20, <1>21, <1>22, <1>23, <1>24, <1>25, <1>26, <1>27, <1>28
   DEF MirrorInv

\* A due draft holds the text of the buffer and is the last request (queue_due_drafts).
LEMMA QueueDueDraftsMirror ==
  ASSUME SaveInv, MirrorInv, QueueDueDrafts
  PROVE  MirrorInv'
<1>. USE DEF recovery, outside
<1>t. TypeInv /\ OneBuffer
  BY DEF SaveInv
<1>f. FieldsTyped
  BY <1>t, FieldTypes
<1>0. /\ UNCHANGED <<draft, buffers, opening, events, draftVersion, known, offered, told>>
      /\ deadline' = FALSE /\ UNCHANGED LiveIds
  BY DEF QueueDueDrafts, LiveIds, OpenIds
<1>1. CASE DirtyAt(buffers) = {}
  <2>1. UNCHANGED <<queue, nextId, draftWrites>> /\ \A i \in DOMAIN buffers : ~IsDirty(buffers[i])
    BY <1>1 DEF QueueDueDrafts, DirtyAt
  <2>20. DraftTypes'
    BY <1>0, <2>1 DEF MirrorInv, DraftTypes
  <2>21. DraftIdsApart'
    BY <1>0, <2>1 DEF MirrorInv, DraftIdsApart
  <2>22. DraftsAwaited'
    BY <1>0, <2>1 DEF MirrorInv, DraftsAwaited
  <2>23. DraftAskedOnce'
    BY <1>0, <2>1 DEF MirrorInv, DraftAskedOnce
  <2>24. DraftAskedOrAnswered'
    BY <1>0, <2>1 DEF MirrorInv, DraftAskedOrAnswered
  <2>25. DraftAnsweredOnce'
    BY <1>0, <2>1 DEF MirrorInv, DraftAnsweredOnce
  <2>26. NothingWrittenWhileOffered'
    BY <1>0, <2>1 DEF MirrorInv, NothingWrittenWhileOffered
  <2>27. SeenVersions'
    BY <1>0, <2>1 DEF MirrorInv, SeenVersions
  <2>28. DraftsAreLast'
    BY <1>0, <2>1 DEF MirrorInv, DraftsAreLast
  <2>. QED BY <2>20, <2>21, <2>22, <2>23, <2>24, <2>25, <2>26, <2>27, <2>28
     DEF MirrorInv
<1>2. CASE DirtyAt(buffers) # {}
  <2>. DEFINE r == [op |-> "WriteDraft", id |-> nextId + 1,
                    version |-> buffers[1].version, text |-> buffers[1].text]
  <2>0. buffers # <<>>
    BY <1>2 DEF DirtyAt
  <2>1. /\ DOMAIN buffers = {1} /\ buffers[1] \in Buffer /\ LastDirty(buffers) = buffers[1]
        /\ IsDirty(buffers[1])
    BY <1>t, <1>2, <2>0, TheBuffer
  <2>2. /\ nextId' = nextId + 1 /\ nextId \in Nat /\ draftWrites' = draftWrites \cup {nextId + 1}
        /\ queue' = Append(queue, r) /\ ~offered
    BY <1>2, <2>1, <1>t DEF QueueDueDrafts, TypeInv, MirrorInv, NothingWrittenWhileOffered
  <2>3. r \in Request /\ r.op = "WriteDraft" /\ r.id = nextId + 1 /\ r.text = buffers[1].text
    BY <2>1, <2>2 DEF Buffer, Request
  <2>. HIDE DEF r
  <2>q. Grown(queue', queue, r)
    BY <1>t, <2>2, <2>3, AppendFacts DEF TypeInv
  <2>4. /\ \A k \in DOMAIN queue : queue[k].op # "RemoveDraft" => queue[k].id # nextId + 1
        /\ \A k \in DOMAIN events : events[k].op # "Changed" => events[k].id # nextId + 1
        /\ \A id \in LiveIds : id # nextId + 1
    BY <1>t, <1>f, <2>2 DEF SaveInv, IdsInv, LiveIds, OpenIds, FieldsTyped, TypeInv
  <2>20. DraftTypes'
    BY <1>0, <2>2, <2>3 DEF MirrorInv, DraftTypes
  <2>21. DraftIdsApart'
    <3>1. \A id \in draftWrites' : id \in Nat /\ id <= nextId' /\ id \notin LiveIds
      <4>1. \A id \in draftWrites : id \in Nat /\ id <= nextId /\ id \notin LiveIds
        BY DEF MirrorInv, DraftIdsApart
      <4>2. TAKE id \in draftWrites'
      <4>3. CASE id \in draftWrites
        BY <2>2, <4>1, <4>3
      <4>4. CASE id = nextId + 1
        BY <2>2, <2>4, <4>4
      <4>. QED BY <2>2, <4>3, <4>4
    <3>2. LiveIds' = LiveIds
      BY <1>0 DEF LiveIds, OpenIds
    <3>3. \A k \in DOMAIN queue' : (k \in DOMAIN queue /\ queue'[k] = queue[k]) \/ queue'[k] = r
      BY <2>q DEF Grown
    <3>4. ASSUME NEW k \in DOMAIN queue, queue[k].op \in {"ReadFile", "WriteFile"}
          PROVE  queue[k].id \notin draftWrites'
      <4>1. queue[k].id # nextId + 1
        BY <2>4, <3>4
      <4>. QED BY <2>2, <3>4, <4>1 DEF MirrorInv, DraftIdsApart
    <3>5. \A k \in DOMAIN queue' : queue'[k].op \in {"ReadFile", "WriteFile"} => queue'[k].id \notin draftWrites'
      BY <2>3, <3>3, <3>4
    <3>. QED BY <3>1, <3>2, <3>5 DEF DraftIdsApart
  <2>22. DraftsAwaited'
    BY <1>0, <2>2, <2>3, <2>q DEF MirrorInv, DraftsAwaited, Grown
  <2>23. DraftAskedOnce'
    BY <1>0, <2>2, <2>3, <2>4, <2>q DEF MirrorInv, DraftAskedOnce, Grown
  <2>24. DraftAskedOrAnswered'
    BY <1>0, <2>2, <2>3, <2>4, <2>q DEF MirrorInv, DraftAskedOrAnswered, Grown
  <2>25. DraftAnsweredOnce'
    BY <1>0, <2>2, <2>3, <2>4 DEF MirrorInv, DraftAnsweredOnce
  <2>26. NothingWrittenWhileOffered'
    BY <1>0, <2>2, <2>3 DEF MirrorInv, NothingWrittenWhileOffered, Grown
  <2>27. SeenVersions'
    BY <1>0, <2>2, <2>3 DEF MirrorInv, SeenVersions
  <2>28. DraftsAreLast'
    BY <1>0, <2>2, <2>3, <2>1, <2>q DEF MirrorInv, DraftsAreLast, Grown, LastDraftIs, Drafting
  <2>. QED BY <2>20, <2>21, <2>22, <2>23, <2>24, <2>25, <2>26, <2>27, <2>28
     DEF MirrorInv
<1>. QED BY <1>1, <1>2

\* The overlay goes, and with it the draft (discard_recovery_drafts): nothing was unsaved.
LEMMA DiscardDraftMirror ==
  ASSUME SaveInv, MirrorInv, DiscardDraft
  PROVE  MirrorInv'
<1>. USE DEF recovery, outside
<1>t. TypeInv /\ OneBuffer
  BY DEF SaveInv
<1>f. FieldsTyped
  BY <1>t, FieldTypes
<1>. DEFINE r == [op |-> "RemoveDraft"]
<1>1. /\ UNCHANGED <<draft, buffers, nextId, opening, events, draftVersion, deadline, draftWrites, told>>
      /\ offered /\ ~offered'
      /\ queue' = Append(queue, r) /\ UNCHANGED LiveIds
  BY DEF DiscardDraft, LiveIds, OpenIds
<1>2. r \in Request /\ r.op = "RemoveDraft"
  BY DEF Request
<1>. HIDE DEF r
<1>q. Grown(queue', queue, r)
  BY <1>t, <1>1, <1>2, AppendFacts DEF TypeInv
<1>20. DraftTypes'
  BY <1>1, <1>2 DEF MirrorInv, DraftTypes
<1>21. DraftIdsApart'
  BY <1>1, <1>2, <1>q DEF MirrorInv, DraftIdsApart, Grown
<1>22. DraftsAwaited'
  BY <1>1, <1>2, <1>q DEF MirrorInv, DraftsAwaited, Grown
<1>23. DraftAskedOnce'
  BY <1>1, <1>2, <1>q DEF MirrorInv, DraftAskedOnce, Grown
<1>24. DraftAskedOrAnswered'
  BY <1>1, <1>2, <1>q DEF MirrorInv, DraftAskedOrAnswered, Grown
<1>25. DraftAnsweredOnce'
  BY <1>1, <1>2 DEF MirrorInv, DraftAnsweredOnce
<1>26. NothingWrittenWhileOffered'
  BY <1>1, <1>2, <1>q DEF MirrorInv, NothingWrittenWhileOffered, Grown
<1>27. SeenVersions'
  BY <1>1, <1>2 DEF MirrorInv, SeenVersions
<1>28. DraftsAreLast'
  BY <1>1, <1>2 DEF MirrorInv, DraftsAreLast, NothingWrittenWhileOffered
<1>. QED BY <1>20, <1>21, <1>22, <1>23, <1>24, <1>25, <1>26, <1>27, <1>28
   DEF MirrorInv

\* Esc leaves the draft, and nothing was unsaved.
LEMMA IgnoreDraftMirror ==
  ASSUME SaveInv, MirrorInv, IgnoreDraft
  PROVE  MirrorInv'
<1>. USE DEF recovery, outside
<1>1. /\ UNCHANGED <<draft, buffers, nextId, opening, queue, events, draftVersion, deadline, draftWrites, told>>
      /\ offered /\ ~offered' /\ UNCHANGED LiveIds
  BY DEF IgnoreDraft, LiveIds, OpenIds
<1>20. DraftTypes'
  BY <1>1 DEF MirrorInv, DraftTypes
<1>21. DraftIdsApart'
  BY <1>1 DEF MirrorInv, DraftIdsApart
<1>22. DraftsAwaited'
  BY <1>1 DEF MirrorInv, DraftsAwaited
<1>23. DraftAskedOnce'
  BY <1>1 DEF MirrorInv, DraftAskedOnce
<1>24. DraftAskedOrAnswered'
  BY <1>1 DEF MirrorInv, DraftAskedOrAnswered
<1>25. DraftAnsweredOnce'
  BY <1>1 DEF MirrorInv, DraftAnsweredOnce
<1>26. NothingWrittenWhileOffered'
  BY <1>1 DEF MirrorInv, NothingWrittenWhileOffered
<1>27. SeenVersions'
  BY <1>1 DEF MirrorInv, SeenVersions
<1>28. DraftsAreLast'
  BY <1>1 DEF MirrorInv, DraftsAreLast, NothingWrittenWhileOffered
<1>. QED BY <1>20, <1>21, <1>22, <1>23, <1>24, <1>25, <1>26, <1>27, <1>28
   DEF MirrorInv

\* A restored draft is the text of the buffer, and stays on the disk until the next edit
\* or save (apply_recovery_drafts).
LEMMA AcceptDraftMirror ==
  ASSUME SaveInv, SaveInv', MirrorInv, NEW dispatched \in BOOLEAN, AcceptDraft(dispatched)
  PROVE  MirrorInv'
<1>. USE DEF recovery, outside
<1>t. TypeInv /\ OneBuffer
  BY DEF SaveInv
<1>f. FieldsTyped
  BY <1>t, FieldTypes
<1>1. /\ UNCHANGED <<draft, nextId, opening, queue, events, draftWrites, known, told>>
      /\ offered /\ ~offered'
  BY DEF AcceptDraft
<1>2. /\ \A k \in DOMAIN queue : queue[k].op = "ReadFile"
      /\ \A k \in DOMAIN events : events[k].op # "FileSaved"
  BY <1>1 DEF MirrorInv, NothingWrittenWhileOffered
<1>3. \/ UNCHANGED <<draftVersion, deadline>>
      \/ Debounced
  BY SyncFacts DEF AcceptDraft, SaveInv, MirrorInv
<1>4. CASE buffers = <<>>
  <2>1. buffers' = <<>> /\ DOMAIN buffers = {} /\ DOMAIN buffers' = {} /\ UNCHANGED LiveIds
    BY <1>1, <1>4 DEF AcceptDraft, LiveIds, OpenIds
  <2>20. DraftTypes'
    BY <1>1, <2>1, <1>3 DEF MirrorInv, DraftTypes, Debounced
  <2>21. DraftIdsApart'
    BY <1>1, <2>1 DEF MirrorInv, DraftIdsApart
  <2>22. DraftsAwaited'
    BY <1>1, <2>1 DEF MirrorInv, DraftsAwaited
  <2>23. DraftAskedOnce'
    BY <1>1, <2>1 DEF MirrorInv, DraftAskedOnce
  <2>24. DraftAskedOrAnswered'
    BY <1>1, <2>1 DEF MirrorInv, DraftAskedOrAnswered
  <2>25. DraftAnsweredOnce'
    BY <1>1, <2>1 DEF MirrorInv, DraftAnsweredOnce
  <2>26. NothingWrittenWhileOffered'
    BY <1>1, <2>1 DEF MirrorInv, NothingWrittenWhileOffered
  <2>27. SeenVersions'
    BY <1>1, <2>1, <1>3 DEF MirrorInv, SeenVersions, Debounced
  <2>28. DraftsAreLast'
    BY <1>1, <2>1 DEF MirrorInv, DraftsAreLast
  <2>. QED BY <2>20, <2>21, <2>22, <2>23, <2>24, <2>25, <2>26, <2>27, <2>28
     DEF MirrorInv
<1>5. CASE buffers # <<>>
  <2>0. DOMAIN buffers = {1} /\ buffers[1] \in Buffer
    BY <1>5, <1>t, TheBuffer
  <2>1. /\ buffers' = [buffers EXCEPT ![1].text = draft, ![1].version = @ + 1]
        /\ DOMAIN buffers' = {1} /\ buffers'[1].id = buffers[1].id
        /\ buffers'[1].version = buffers[1].version + 1
        /\ buffers'[1].saved = buffers[1].saved /\ buffers[1].saved \in Nat
        /\ buffers[1].version \in Nat
        /\ buffers'[1].text = draft /\ buffers[1].saved <= buffers[1].version
    BY <1>5, <2>0 DEF AcceptDraft, Buffer, SaveInv, MarkedBefore
  <2>2. UNCHANGED LiveIds
    BY <1>1, <2>0, <2>1 DEF LiveIds, OpenIds
  <2>3. IsDirty(buffers'[1])
    BY <2>1 DEF IsDirty
  <2>20. DraftTypes'
    BY <1>1, <1>3 DEF MirrorInv, DraftTypes, Debounced
  <2>21. DraftIdsApart'
    BY <1>1, <2>2 DEF MirrorInv, DraftIdsApart
  <2>22. DraftsAwaited'
    BY <1>1 DEF MirrorInv, DraftsAwaited
  <2>23. DraftAskedOnce'
    BY <1>1 DEF MirrorInv, DraftAskedOnce
  <2>24. DraftAskedOrAnswered'
    BY <1>1 DEF MirrorInv, DraftAskedOrAnswered
  <2>25. DraftAnsweredOnce'
    BY <1>1 DEF MirrorInv, DraftAnsweredOnce
  <2>26. NothingWrittenWhileOffered'
    BY <1>1 DEF MirrorInv, NothingWrittenWhileOffered
  <2>27. SeenVersions'
    BY <1>1, <1>3, <2>0, <2>1, <2>3 DEF MirrorInv, SeenVersions, DraftTypes, Debounced
  <2>28. DraftsAreLast'
    BY <1>1, <1>2, <2>1 DEF MirrorInv, DraftsAreLast, LastDraftIs, Drafted
  <2>. QED BY <2>20, <2>21, <2>22, <2>23, <2>24, <2>25, <2>26, <2>27, <2>28
     DEF MirrorInv
<1>. QED BY <1>4, <1>5

\* The worker serves the requests in order, so the last draft asked for is the one that
\* stays (worker.rs, serve).
LEMMA ServeRequestMirror ==
  ASSUME SaveInv, MirrorInv, ServeRequest
  PROVE  MirrorInv'
<1>. USE DEF recovery, outside
<1>t. TypeInv /\ OneBuffer
  BY DEF SaveInv
<1>f. FieldsTyped
  BY <1>t, FieldTypes
<1>. DEFINE r == queue[1]
<1>0. /\ queue # <<>> /\ queue' = Tail(queue)
      /\ UNCHANGED <<buffers, nextId, opening, recovery, told, LiveIds>>
  BY DEF ServeRequest, LiveIds, OpenIds
<1>r. Head(queue) \in Request /\ Head(queue) = queue[1]
  BY <1>0, <1>t, TailFacts DEF TypeInv
<1>q. Shrunk(queue', queue) /\ 1 \in DOMAIN queue
  BY <1>0, <1>t, TailFacts DEF TypeInv, Shrunk
<1>k. r.op \in {"ReadFile", "WriteFile", "WriteDraft", "RemoveDraft"}
  BY <1>r DEF Request
<1>1. CASE r.op = "ReadFile"
  <2>. DEFINE e == [op |-> "FileLoaded", id |-> r.id, text |-> disk]
  <2>1. UNCHANGED draft /\ events' = Append(events, e)
    BY <1>r, <1>1 DEF ServeRequest
  <2>2. e \in Event /\ e.op = "FileLoaded" /\ e.id = r.id
    BY <1>t, <1>r, <1>1 DEF Event, Request, TypeInv
  <2>. HIDE DEF e
  <2>e. Grown(events', events, e)
    BY <1>t, <2>1, <2>2, AppendFacts DEF TypeInv
  <2>3. r.id \notin draftWrites
    BY <1>1, <1>q DEF MirrorInv, DraftIdsApart
  <2>20. DraftTypes'
    BY <1>0, <1>1, <2>1, <2>2 DEF MirrorInv, DraftTypes
  <2>21. DraftIdsApart'
    BY <1>0, <1>1, <2>1, <2>2, <1>q DEF MirrorInv, DraftIdsApart, Shrunk
  <2>22. DraftsAwaited'
    BY <1>0, <1>1, <2>1, <2>2, <1>q DEF MirrorInv, DraftsAwaited, Shrunk
  <2>23. DraftAskedOnce'
    BY <1>0, <1>1, <2>1, <2>2, <1>q DEF MirrorInv, DraftAskedOnce, Shrunk
  <2>24. DraftAskedOrAnswered'
    <3>. SUFFICES ASSUME NEW j \in DOMAIN queue', NEW k \in DOMAIN events',
                         (queue[j].op = "WriteDraft" /\ events[k].op # "Changed")'
                  PROVE  (queue[j].id # events[k].id)'
      BY DEF DraftAskedOrAnswered
    <3>1. j + 1 \in DOMAIN queue /\ queue'[j] = queue[j + 1] /\ j + 1 # 1
      BY <1>q DEF Shrunk
    <3>2. CASE k \in DOMAIN events /\ events'[k] = events[k]
      BY <3>1, <3>2 DEF MirrorInv, DraftAskedOrAnswered
    <3>3. CASE k = Len(events) + 1 /\ events'[k] = e
      BY <3>1, <3>3, <2>2, <2>3 DEF MirrorInv, DraftsAwaited
    <3>. QED BY <3>2, <3>3, <2>e DEF Grown
  <2>25. DraftAnsweredOnce'
    <3>1. e.id \notin draftWrites
      BY <2>2, <2>3
    <3>2. \A k \in DOMAIN events' : events'[k].op # "Changed" /\ events'[k].id \in draftWrites
              => k \in DOMAIN events /\ events'[k] = events[k]
      BY <3>1, <2>e DEF Grown
    <3>. QED BY <3>2, <1>0 DEF MirrorInv, DraftAnsweredOnce
  <2>26. NothingWrittenWhileOffered'
    BY <1>0, <1>1, <2>1, <2>2, <1>q, <2>e DEF MirrorInv, NothingWrittenWhileOffered, Shrunk,
       Grown
  <2>27. SeenVersions'
    BY <1>0, <1>1, <2>1, <2>2 DEF MirrorInv, SeenVersions
  <2>28. DraftsAreLast'
    <3>1. ASSUME NEW t, LastDraftIs(t) PROVE LastDraftIs(t)'
      <4>1. ASSUME Drafted(t) PROVE Drafted(t)'
        BY <4>1, <1>q, <1>0, <1>1, <2>1, <2>2, <2>e DEF Drafted, Shrunk
      <4>2. ASSUME Drafting(t) PROVE Drafting(t)'
        <5>1. PICK k \in DOMAIN queue : /\ queue[k].op = "WriteDraft" /\ queue[k].text = t
                                        /\ \A j \in DOMAIN queue : k < j => queue[j].op \notin DraftOps
          BY <4>2 DEF Drafting
        <5>2. k # 1 /\ k - 1 \in DOMAIN queue' /\ queue'[k - 1] = queue[k] /\ k \in Nat
          BY <5>1, <1>q, <1>1, <2>1, <2>2, <2>e DEF Shrunk
        <5>3. \A j \in DOMAIN queue' : k - 1 < j => queue'[j].op \notin DraftOps
          BY <5>1, <5>2, <1>q DEF Shrunk
        <5>. QED BY <5>1, <5>2, <5>3 DEF Drafting
      <4>3. ASSUME Refused PROVE Refused'
        BY <4>3, <1>0, <1>1, <2>1, <2>2, <2>e DEF Refused, Grown
      <4>. QED BY <3>1, <4>1, <4>2, <4>3 DEF LastDraftIs
    <3>. QED BY <3>1, <1>0 DEF MirrorInv, DraftsAreLast
  <2>. QED BY <2>20, <2>21, <2>22, <2>23, <2>24, <2>25, <2>26, <2>27, <2>28
     DEF MirrorInv
<1>2. CASE r.op = "WriteFile"
  <2>. DEFINE e == [op |-> "FileSaved", id |-> r.id, version |-> r.version]
  <2>1. UNCHANGED draft /\ events' = Append(events, e)
    BY <1>r, <1>2 DEF ServeRequest
  <2>2. e \in Event /\ e.op = "FileSaved" /\ e.id = r.id /\ e.version = r.version
    BY <1>t, <1>r, <1>2 DEF Event, Request, TypeInv
  <2>. HIDE DEF e
  <2>e. Grown(events', events, e)
    BY <1>t, <2>1, <2>2, AppendFacts DEF TypeInv
  <2>3. r.id \notin draftWrites /\ ~offered
    BY <1>2, <1>q DEF MirrorInv, DraftIdsApart, NothingWrittenWhileOffered
  <2>20. DraftTypes'
    BY <1>0, <1>2, <2>1, <2>2 DEF MirrorInv, DraftTypes
  <2>21. DraftIdsApart'
    BY <1>0, <1>2, <2>1, <2>2, <1>q DEF MirrorInv, DraftIdsApart, Shrunk
  <2>22. DraftsAwaited'
    BY <1>0, <1>2, <2>1, <2>2, <1>q DEF MirrorInv, DraftsAwaited, Shrunk
  <2>23. DraftAskedOnce'
    BY <1>0, <1>2, <2>1, <2>2, <1>q DEF MirrorInv, DraftAskedOnce, Shrunk
  <2>24. DraftAskedOrAnswered'
    BY <1>0, <1>2, <2>1, <2>2, <1>q, <2>e, <2>3 DEF MirrorInv, DraftAskedOrAnswered, Shrunk,
       Grown, DraftsAwaited
  <2>25. DraftAnsweredOnce'
    BY <1>0, <1>2, <2>1, <2>2, <1>q, <2>e, <2>3 DEF MirrorInv, DraftAnsweredOnce, Shrunk, Grown
  <2>26. NothingWrittenWhileOffered'
    BY <1>0, <1>2, <2>1, <2>2, <1>q, <2>e, <2>3 DEF MirrorInv, NothingWrittenWhileOffered,
       Shrunk, Grown
  <2>27. SeenVersions'
    BY <1>0, <1>2, <2>1, <2>2 DEF MirrorInv, SeenVersions
  <2>28. DraftsAreLast'
    <3>1. ASSUME NEW t, LastDraftIs(t) PROVE LastDraftIs(t)'
      <4>1. ASSUME Drafted(t) PROVE Drafted(t)'
        BY <4>1, <1>q, <1>0, <1>2, <2>1, <2>2, <2>e DEF Drafted, Shrunk
      <4>2. ASSUME Drafting(t) PROVE Drafting(t)'
        <5>1. PICK k \in DOMAIN queue : /\ queue[k].op = "WriteDraft" /\ queue[k].text = t
                                        /\ \A j \in DOMAIN queue : k < j => queue[j].op \notin DraftOps
          BY <4>2 DEF Drafting
        <5>2. k # 1 /\ k - 1 \in DOMAIN queue' /\ queue'[k - 1] = queue[k] /\ k \in Nat
          BY <5>1, <1>q, <1>2, <2>1, <2>2, <2>e DEF Shrunk
        <5>3. \A j \in DOMAIN queue' : k - 1 < j => queue'[j].op \notin DraftOps
          BY <5>1, <5>2, <1>q DEF Shrunk
        <5>. QED BY <5>1, <5>2, <5>3 DEF Drafting
      <4>3. ASSUME Refused PROVE Refused'
        BY <4>3, <1>0, <1>2, <2>1, <2>2, <2>e DEF Refused, Grown
      <4>. QED BY <3>1, <4>1, <4>2, <4>3 DEF LastDraftIs
    <3>. QED BY <3>1, <1>0 DEF MirrorInv, DraftsAreLast
  <2>. QED BY <2>20, <2>21, <2>22, <2>23, <2>24, <2>25, <2>26, <2>27, <2>28
     DEF MirrorInv
<1>3. CASE r.op = "WriteDraft"
  <2>. DEFINE e == [op |-> "FileSaved", id |-> r.id, version |-> r.version]
  <2>1. draft' = r.text /\ events' = Append(events, e)
    BY <1>r, <1>3 DEF ServeRequest
  <2>2. e \in Event /\ e.op = "FileSaved" /\ e.id = r.id /\ e.version = r.version
    BY <1>t, <1>r, <1>3 DEF Event, Request, TypeInv
  <2>. HIDE DEF e
  <2>e. Grown(events', events, e)
    BY <1>t, <2>1, <2>2, AppendFacts DEF TypeInv
  <2>3. r.id \in draftWrites /\ r.id \notin LiveIds /\ ~offered
    BY <1>3, <1>q DEF MirrorInv, DraftIdsApart, DraftsAwaited, NothingWrittenWhileOffered
  <2>20. DraftTypes'
    BY <1>0, <1>3, <2>1, <2>2 DEF MirrorInv, DraftTypes
  <2>21. DraftIdsApart'
    BY <1>0, <1>3, <2>1, <2>2, <1>q DEF MirrorInv, DraftIdsApart, Shrunk
  <2>22. DraftsAwaited'
    BY <1>0, <1>3, <2>1, <2>2, <1>q DEF MirrorInv, DraftsAwaited, Shrunk
  <2>23. DraftAskedOnce'
    BY <1>0, <1>3, <2>1, <2>2, <1>q DEF MirrorInv, DraftAskedOnce, Shrunk
  <2>24. DraftAskedOrAnswered'
    BY <1>0, <1>3, <2>1, <2>2, <1>q, <2>e DEF MirrorInv, DraftAskedOrAnswered, Shrunk, Grown,
       DraftAskedOnce
  <2>25. DraftAnsweredOnce'
    BY <1>0, <1>3, <2>1, <2>2, <1>q, <2>e DEF MirrorInv, DraftAnsweredOnce, Shrunk, Grown,
       DraftAskedOrAnswered
  <2>26. NothingWrittenWhileOffered'
    BY <1>0, <1>3, <2>1, <2>2, <1>q, <2>e, <2>3 DEF MirrorInv, NothingWrittenWhileOffered,
       Shrunk, Grown
  <2>27. SeenVersions'
    BY <1>0, <1>3, <2>1, <2>2 DEF MirrorInv, SeenVersions
  <2>28. DraftsAreLast'
    <3>1. ASSUME NEW t, LastDraftIs(t) PROVE LastDraftIs(t)'
      <4>1. ASSUME Drafted(t) PROVE Drafted(t)'
        BY <4>1, <1>q, <1>3, <2>1 DEF Drafted, Shrunk
      <4>2. ASSUME Drafting(t) PROVE Drafted(t)' \/ Drafting(t)'
        <5>1. PICK k \in DOMAIN queue : /\ queue[k].op = "WriteDraft" /\ queue[k].text = t
                                        /\ \A j \in DOMAIN queue : k < j => queue[j].op \notin DraftOps
          BY <4>2 DEF Drafting
        <5>2. CASE k = 1
          <6>1. \A j \in DOMAIN queue' : queue'[j].op \notin DraftOps
            BY <5>1, <5>2, <1>q DEF Shrunk
          <6>. QED BY <5>1, <5>2, <6>1, <2>1 DEF Drafted, DraftOps
        <5>3. CASE k # 1
          <6>1. k - 1 \in DOMAIN queue' /\ queue'[k - 1] = queue[k] /\ k \in Nat
            BY <5>3, <1>q DEF Shrunk
          <6>2. \A j \in DOMAIN queue' : k - 1 < j => queue'[j].op \notin DraftOps
            BY <5>1, <6>1, <1>q DEF Shrunk
          <6>. QED BY <5>1, <6>1, <6>2 DEF Drafting
        <5>. QED BY <5>2, <5>3
      <4>3. ASSUME Refused PROVE Refused'
        BY <4>3, <1>0, <2>1, <2>2, <2>e DEF Refused, Grown
      <4>. QED BY <3>1, <4>1, <4>2, <4>3 DEF LastDraftIs
    <3>. QED BY <3>1, <1>0 DEF MirrorInv, DraftsAreLast
  <2>. QED BY <2>20, <2>21, <2>22, <2>23, <2>24, <2>25, <2>26, <2>27, <2>28
     DEF MirrorInv
<1>4. CASE r.op = "RemoveDraft"
  <2>1. draft' = NoText /\ events' = events
    BY <1>r, <1>4 DEF ServeRequest
  <2>20. DraftTypes'
    BY <1>0, <1>4, <2>1 DEF MirrorInv, DraftTypes
  <2>21. DraftIdsApart'
    BY <1>0, <1>4, <2>1, <1>q DEF MirrorInv, DraftIdsApart, Shrunk
  <2>22. DraftsAwaited'
    BY <1>0, <1>4, <2>1, <1>q DEF MirrorInv, DraftsAwaited, Shrunk
  <2>23. DraftAskedOnce'
    BY <1>0, <1>4, <2>1, <1>q DEF MirrorInv, DraftAskedOnce, Shrunk
  <2>24. DraftAskedOrAnswered'
    BY <1>0, <1>4, <2>1, <1>q DEF MirrorInv, DraftAskedOrAnswered, Shrunk
  <2>25. DraftAnsweredOnce'
    BY <1>0, <1>4, <2>1 DEF MirrorInv, DraftAnsweredOnce
  <2>26. NothingWrittenWhileOffered'
    BY <1>0, <1>4, <2>1, <1>q DEF MirrorInv, NothingWrittenWhileOffered, Shrunk
  <2>27. SeenVersions'
    BY <1>0, <1>4, <2>1 DEF MirrorInv, SeenVersions
  <2>28. DraftsAreLast'
    <3>1. ASSUME NEW t, LastDraftIs(t) PROVE LastDraftIs(t)'
      <4>1. ~Drafted(t)
        BY <1>4, <1>q DEF Drafted
      <4>2. ASSUME Drafting(t) PROVE Drafting(t)'
        <5>1. PICK k \in DOMAIN queue : /\ queue[k].op = "WriteDraft" /\ queue[k].text = t
                                        /\ \A j \in DOMAIN queue : k < j => queue[j].op \notin DraftOps
          BY <4>2 DEF Drafting
        <5>2. k # 1 /\ k - 1 \in DOMAIN queue' /\ queue'[k - 1] = queue[k] /\ k \in Nat
          BY <5>1, <1>q, <1>4 DEF Shrunk
        <5>3. \A j \in DOMAIN queue' : k - 1 < j => queue'[j].op \notin DraftOps
          BY <5>1, <5>2, <1>q DEF Shrunk
        <5>. QED BY <5>1, <5>2, <5>3 DEF Drafting
      <4>3. ASSUME Refused PROVE Refused'
        BY <4>3, <1>0, <2>1 DEF Refused
      <4>. QED BY <3>1, <4>1, <4>2, <4>3 DEF LastDraftIs
    <3>. QED BY <3>1, <1>0 DEF MirrorInv, DraftsAreLast
  <2>. QED BY <2>20, <2>21, <2>22, <2>23, <2>24, <2>25, <2>26, <2>27, <2>28
     DEF MirrorInv
<1>. QED BY <1>1, <1>2, <1>3, <1>4, <1>k

\* A draft the disk refuses is answered as failed (worker.rs, serve).
LEMMA RefuseRequestMirror ==
  ASSUME SaveInv, MirrorInv, RefuseRequest
  PROVE  MirrorInv'
<1>. USE DEF recovery, outside
<1>t. TypeInv /\ OneBuffer
  BY DEF SaveInv
<1>f. FieldsTyped
  BY <1>t, FieldTypes
<1>. DEFINE r == queue[1]
<1>. DEFINE e == [op |-> "FileFailed", id |-> r.id]
<1>0. /\ queue # <<>> /\ queue' = Tail(queue)
      /\ UNCHANGED <<draft, buffers, nextId, opening, recovery, told, LiveIds>>
  BY DEF RefuseRequest, LiveIds, OpenIds
<1>r. Head(queue) \in Request /\ Head(queue) = queue[1]
  BY <1>0, <1>t, TailFacts DEF TypeInv
<1>q. Shrunk(queue', queue) /\ 1 \in DOMAIN queue
  BY <1>0, <1>t, TailFacts DEF TypeInv, Shrunk
<1>1. r.op \in {"ReadFile", "WriteFile", "WriteDraft"} /\ events' = Append(events, e)
  BY <1>r DEF RefuseRequest, Request
<1>2. e \in Event /\ e.op = "FileFailed" /\ e.id = r.id
  BY <1>r, <1>1 DEF Event, Request
<1>. HIDE DEF e
<1>e. Grown(events', events, e)
  BY <1>t, <1>1, <1>2, AppendFacts DEF TypeInv
<1>3. /\ r.op # "WriteDraft" => r.id \notin draftWrites
      /\ r.op = "WriteDraft" => r.id \in draftWrites
  BY <1>1, <1>q DEF SaveInv, MirrorInv, DraftIdsApart, DraftsAwaited
<1>20. DraftTypes'
  BY <1>0, <1>1, <1>2 DEF MirrorInv, DraftTypes
<1>21. DraftIdsApart'
  BY <1>0, <1>1, <1>2, <1>q DEF MirrorInv, DraftIdsApart, Shrunk
<1>22. DraftsAwaited'
  BY <1>0, <1>1, <1>2, <1>q DEF MirrorInv, DraftsAwaited, Shrunk
<1>23. DraftAskedOnce'
  BY <1>0, <1>1, <1>2, <1>q DEF MirrorInv, DraftAskedOnce, Shrunk
<1>24. DraftAskedOrAnswered'
  BY <1>0, <1>1, <1>2, <1>q, <1>e, <1>3 DEF MirrorInv, DraftAskedOrAnswered, Shrunk, Grown,
     DraftsAwaited, DraftAskedOnce
<1>25. DraftAnsweredOnce'
  BY <1>0, <1>1, <1>2, <1>q, <1>e, <1>3 DEF MirrorInv, DraftAnsweredOnce, Shrunk, Grown,
     DraftAskedOrAnswered
<1>26. NothingWrittenWhileOffered'
  BY <1>0, <1>1, <1>2, <1>q, <1>e DEF MirrorInv, NothingWrittenWhileOffered, Shrunk, Grown
<1>27. SeenVersions'
  BY <1>0, <1>1, <1>2 DEF MirrorInv, SeenVersions
<1>28. DraftsAreLast'
  <2>2. CASE r.op = "WriteDraft"
    <3>1. Refused'
      BY <2>2, <1>0, <1>2, <1>3, <1>e DEF Refused, Grown
    <3>. QED BY <3>1 DEF DraftsAreLast, LastDraftIs
  <2>3. CASE r.op # "WriteDraft"
    <3>1. ASSUME NEW t, LastDraftIs(t) PROVE LastDraftIs(t)'
      <4>1. ASSUME Drafted(t) PROVE Drafted(t)'
        BY <4>1, <1>q, <1>0, <1>1, <1>2, <1>e, <2>3 DEF Drafted, Shrunk
      <4>2. ASSUME Drafting(t) PROVE Drafting(t)'
        <5>1. PICK k \in DOMAIN queue : /\ queue[k].op = "WriteDraft" /\ queue[k].text = t
                                        /\ \A j \in DOMAIN queue : k < j => queue[j].op \notin DraftOps
          BY <4>2 DEF Drafting
        <5>2. k # 1 /\ k - 1 \in DOMAIN queue' /\ queue'[k - 1] = queue[k] /\ k \in Nat
          BY <5>1, <1>q, <1>1, <1>2, <1>e, <2>3 DEF Shrunk
        <5>3. \A j \in DOMAIN queue' : k - 1 < j => queue'[j].op \notin DraftOps
          BY <5>1, <5>2, <1>q DEF Shrunk
        <5>. QED BY <5>1, <5>2, <5>3 DEF Drafting
      <4>3. ASSUME Refused PROVE Refused'
        BY <4>3, <1>0, <1>1, <1>2, <1>e, <2>3 DEF Refused, Grown
      <4>. QED BY <3>1, <4>1, <4>2, <4>3 DEF LastDraftIs
    <3>. QED BY <3>1, <1>0 DEF MirrorInv, DraftsAreLast
  <2>. QED BY <2>2, <2>3
<1>. QED BY <1>20, <1>21, <1>22, <1>23, <1>24, <1>25, <1>26, <1>27, <1>28
   DEF MirrorInv

\* A change reported answers no request (Coalescer).
LEMMA ReportChangeMirror ==
  ASSUME SaveInv, MirrorInv, ReportChange
  PROVE  MirrorInv'
<1>. USE DEF recovery, outside
<1>t. TypeInv /\ OneBuffer
  BY DEF SaveInv
<1>f. FieldsTyped
  BY <1>t, FieldTypes
<1>. DEFINE e == [op |-> "Changed"]
<1>1. /\ UNCHANGED <<draft, buffers, nextId, opening, queue, recovery, told, LiveIds>>
      /\ events' = Append(events, e)
  BY DEF ReportChange, LiveIds, OpenIds
<1>2. e \in Event /\ e.op = "Changed"
  BY DEF Event
<1>. HIDE DEF e
<1>e. Grown(events', events, e)
  BY <1>t, <1>1, <1>2, AppendFacts DEF TypeInv
<1>20. DraftTypes'
  BY <1>1, <1>2 DEF MirrorInv, DraftTypes
<1>21. DraftIdsApart'
  BY <1>1, <1>2 DEF MirrorInv, DraftIdsApart
<1>22. DraftsAwaited'
  BY <1>1, <1>2 DEF MirrorInv, DraftsAwaited
<1>23. DraftAskedOnce'
  BY <1>1, <1>2 DEF MirrorInv, DraftAskedOnce
<1>24. DraftAskedOrAnswered'
  BY <1>1, <1>2, <1>e DEF MirrorInv, DraftAskedOrAnswered, Grown
<1>25. DraftAnsweredOnce'
  BY <1>1, <1>2, <1>e DEF MirrorInv, DraftAnsweredOnce, Grown
<1>26. NothingWrittenWhileOffered'
  BY <1>1, <1>2, <1>e DEF MirrorInv, NothingWrittenWhileOffered, Grown
<1>27. SeenVersions'
  BY <1>1, <1>2 DEF MirrorInv, SeenVersions
<1>28. DraftsAreLast'
  BY <1>1, <1>2, <1>e DEF MirrorInv, DraftsAreLast, LastDraftIs, Drafted, Drafting, Refused,
     Grown
<1>. QED BY <1>20, <1>21, <1>22, <1>23, <1>24, <1>25, <1>26, <1>27, <1>28
   DEF MirrorInv

\* What was read replaces a buffer, which is then saved (on_fs_event, FileLoaded).
LEMMA OnFileLoadedMirror ==
  ASSUME SaveInv, SaveInv', MirrorInv, OnFileLoaded, harm' = {}
  PROVE  MirrorInv'
<1>. USE DEF recovery, outside
<1>t. TypeInv /\ OneBuffer
  BY DEF SaveInv
<1>f. FieldsTyped
  BY <1>t, FieldTypes
<1>. DEFINE e == events[1]
<1>0. /\ events # <<>> /\ events' = Tail(events)
      /\ UNCHANGED <<draft, nextId, queue, draftWrites, known, offered, told>>
  BY DEF OnFileLoaded
<1>r. Head(events) \in Event /\ Head(events) = events[1]
  BY <1>0, <1>t, TailFacts DEF TypeInv
<1>e. Shrunk(events', events) /\ 1 \in DOMAIN events
  BY <1>0, <1>t, TailFacts DEF TypeInv, Shrunk
<1>1. e.op = "FileLoaded" /\ opening' = opening \ {e.id} /\ e.id \in LiveIds
  <2>1. /\ e.op = "FileLoaded" /\ opening' = opening \ {e.id}
        /\ Indices(e.id) = {} => e.id \in opening
    BY <1>r DEF OnFileLoaded
  <2>. QED BY <2>1 DEF Indices, LiveIds, OpenIds
<1>2. \A i \in DOMAIN buffers' : buffers'[i] = Fresh(e.id, e.text)
  <2>1. CASE Indices(e.id) # {}
    <3>1. buffers # <<>> /\ buffers' = [i \in DOMAIN buffers |->
             IF i \in Indices(e.id) THEN Fresh(e.id, e.text) ELSE buffers[i]]
      BY <2>1, <1>r DEF OnFileLoaded, Indices
    <3>2. DOMAIN buffers = {1} /\ Indices(e.id) = {1}
      BY <2>1, <3>1, <1>t, TheBuffer DEF Indices
    <3>. QED BY <3>1, <3>2
  <2>2. CASE Indices(e.id) = {}
    <3>1. buffers = <<>>
      BY <2>2, <1>1, <1>t DEF Indices, LiveIds, OpenIds, OneBuffer
    <3>2. buffers' = <<Fresh(e.id, e.text)>>
      BY <2>2, <3>1, <1>r DEF OnFileLoaded
    <3>. QED BY <3>2
  <2>. QED BY <2>1, <2>2
<1>3. \A i \in DOMAIN buffers' : ~IsDirty(buffers'[i]) /\ buffers'[i].id = e.id
  BY <1>2 DEF Fresh, IsDirty
<1>d. Debounced
  BY SyncFacts DEF OnFileLoaded, SaveInv, MirrorInv
<1>4. draftVersion' = {}
  BY <1>3, <1>d DEF Debounced
<1>o. LiveIds' \subseteq LiveIds
  BY <1>1, <1>3 DEF LiveIds, OpenIds
<1>20. DraftTypes'
  BY <1>0, <1>d DEF MirrorInv, DraftTypes, Debounced
<1>21. DraftIdsApart'
  BY <1>0, <1>o DEF MirrorInv, DraftIdsApart
<1>22. DraftsAwaited'
  BY <1>0 DEF MirrorInv, DraftsAwaited
<1>23. DraftAskedOnce'
  BY <1>0 DEF MirrorInv, DraftAskedOnce
<1>24. DraftAskedOrAnswered'
  BY <1>0, <1>e DEF MirrorInv, DraftAskedOrAnswered, Shrunk
<1>25. DraftAnsweredOnce'
  BY <1>0, <1>e DEF MirrorInv, DraftAnsweredOnce, Shrunk
<1>26. NothingWrittenWhileOffered'
  BY <1>0, <1>3, <1>e DEF MirrorInv, NothingWrittenWhileOffered, Shrunk
<1>27. SeenVersions'
  BY <1>0, <1>4 DEF MirrorInv, SeenVersions
<1>28. DraftsAreLast'
  BY <1>3 DEF DraftsAreLast
<1>. QED BY <1>20, <1>21, <1>22, <1>23, <1>24, <1>25, <1>26, <1>27, <1>28
   DEF MirrorInv

\* A failure is told (on_fs_event, FileFailed).
LEMMA OnFileFailedMirror ==
  ASSUME SaveInv, MirrorInv, OnFileFailed
  PROVE  MirrorInv'
<1>. USE DEF recovery, outside
<1>t. TypeInv /\ OneBuffer
  BY DEF SaveInv
<1>f. FieldsTyped
  BY <1>t, FieldTypes
<1>. DEFINE e == events[1]
<1>0. /\ events # <<>> /\ events' = Tail(events)
      /\ UNCHANGED <<draft, buffers, nextId, queue, draftVersion, deadline, known, offered>>
  BY DEF OnFileFailed
<1>r. Head(events) \in Event /\ Head(events) = events[1]
  BY <1>0, <1>t, TailFacts DEF TypeInv
<1>e. Shrunk(events', events) /\ 1 \in DOMAIN events
  BY <1>0, <1>t, TailFacts DEF TypeInv, Shrunk
<1>1. /\ e.op = "FileFailed" /\ told' = TRUE
      /\ draftWrites' = draftWrites \ {e.id} /\ opening' = opening \ {e.id}
      /\ LiveIds' \subseteq LiveIds
  BY <1>0, <1>r DEF OnFileFailed, LiveIds, OpenIds
<1>20. DraftTypes'
  BY <1>0, <1>1 DEF MirrorInv, DraftTypes
<1>21. DraftIdsApart'
  BY <1>0, <1>1 DEF MirrorInv, DraftIdsApart
<1>22. DraftsAwaited'
  BY <1>0, <1>1, <1>e DEF MirrorInv, DraftsAwaited, DraftAskedOrAnswered
<1>23. DraftAskedOnce'
  BY <1>0, <1>1 DEF MirrorInv, DraftAskedOnce
<1>24. DraftAskedOrAnswered'
  BY <1>0, <1>1, <1>e DEF MirrorInv, DraftAskedOrAnswered, Shrunk
<1>25. DraftAnsweredOnce'
  BY <1>0, <1>1, <1>e DEF MirrorInv, DraftAnsweredOnce, Shrunk
<1>26. NothingWrittenWhileOffered'
  BY <1>0, <1>1, <1>e DEF MirrorInv, NothingWrittenWhileOffered, Shrunk
<1>27. SeenVersions'
  BY <1>0, <1>1 DEF MirrorInv, SeenVersions
<1>28. DraftsAreLast'
  BY <1>0, <1>1 DEF MirrorInv, DraftsAreLast
<1>. QED BY <1>20, <1>21, <1>22, <1>23, <1>24, <1>25, <1>26, <1>27, <1>28
   DEF MirrorInv

\* A change reported asks for a read at most (reload_changed_buffers).
LEMMA OnChangedMirror ==
  ASSUME SaveInv, MirrorInv, OnChanged
  PROVE  MirrorInv'
<1>. USE DEF recovery, outside
<1>t. TypeInv /\ OneBuffer
  BY DEF SaveInv
<1>f. FieldsTyped
  BY <1>t, FieldTypes
<1>. DEFINE e == events[1]
<1>0. /\ events # <<>> /\ events' = Tail(events)
      /\ UNCHANGED <<draft, buffers, nextId, opening, recovery, told, LiveIds>>
  BY DEF OnChanged, LiveIds, OpenIds
<1>r. Head(events) \in Event /\ Head(events) = events[1]
  BY <1>0, <1>t, TailFacts DEF TypeInv
<1>e. Shrunk(events', events) /\ 1 \in DOMAIN events
  BY <1>0, <1>t, TailFacts DEF TypeInv, Shrunk
<1>1. e.op = "Changed"
  BY <1>r DEF OnChanged
<1>. DEFINE r == [op |-> "ReadFile", id |-> Head(buffers).id]
<1>2. (queue' = queue \/ (Grown(queue', queue, r) /\ r.id \in LiveIds)) /\ r.op = "ReadFile"
  <2>1. CASE buffers = <<>> \/ IsDirty(Head(buffers))
    BY <2>1 DEF OnChanged
  <2>2. CASE ~(buffers = <<>> \/ IsDirty(Head(buffers)))
    <3>1. Head(buffers) \in Buffer
      BY <2>2, <1>t, TheBuffer DEF TypeInv
    <3>2. r \in Request /\ queue' = Append(queue, r)
      BY <3>1, <2>2 DEF Buffer, Request, OnChanged
    <3>3. Head(buffers).id \in LiveIds
      BY <2>2, <1>t, TheBuffer DEF TypeInv, LiveIds, OpenIds
    <3>. QED BY <3>2, <3>3, <1>t, AppendFacts DEF TypeInv
  <2>. QED BY <2>1, <2>2
<1>. HIDE DEF r
<1>20. DraftTypes'
  BY <1>0 DEF MirrorInv, DraftTypes
<1>21. DraftIdsApart'
  <2>2. \A k \in DOMAIN queue' : queue'[k].op \in {"ReadFile", "WriteFile"} => queue'[k].id \notin draftWrites
    <3>1. CASE queue' = queue
      BY <3>1 DEF MirrorInv, DraftIdsApart
    <3>2. CASE Grown(queue', queue, r) /\ r.id \in LiveIds
      <4>1. \A k \in DOMAIN queue' : (k \in DOMAIN queue /\ queue'[k] = queue[k]) \/ queue'[k] = r
        BY <3>2 DEF Grown
      <4>. QED BY <3>2, <4>1 DEF MirrorInv, DraftIdsApart
    <3>. QED BY <1>2, <3>1, <3>2
  <2>. QED BY <1>0, <2>2 DEF MirrorInv, DraftIdsApart, recovery
<1>22. DraftsAwaited'
  BY <1>0, <1>2 DEF MirrorInv, DraftsAwaited, Grown
<1>23. DraftAskedOnce'
  BY <1>0, <1>2 DEF MirrorInv, DraftAskedOnce, Grown
<1>24. DraftAskedOrAnswered'
  BY <1>0, <1>2, <1>e, <1>1 DEF MirrorInv, DraftAskedOrAnswered, Grown, Shrunk
<1>25. DraftAnsweredOnce'
  BY <1>0, <1>e, <1>1 DEF MirrorInv, DraftAnsweredOnce, Shrunk
<1>26. NothingWrittenWhileOffered'
  BY <1>0, <1>2, <1>e, <1>1 DEF MirrorInv, NothingWrittenWhileOffered, Grown, Shrunk
<1>27. SeenVersions'
  BY <1>0 DEF MirrorInv, SeenVersions
<1>28. DraftsAreLast'
  <2>1. ASSUME NEW t, LastDraftIs(t) PROVE LastDraftIs(t)'
    <3>1. ASSUME Drafted(t) PROVE Drafted(t)'
      BY <3>1, <1>0, <1>2 DEF Drafted, Grown
    <3>2. ASSUME Drafting(t) PROVE Drafting(t)'
      <4>1. PICK k \in DOMAIN queue : /\ queue[k].op = "WriteDraft" /\ queue[k].text = t
                                      /\ \A j \in DOMAIN queue : k < j => queue[j].op \notin DraftOps
        BY <3>2 DEF Drafting
      <4>2. k \in DOMAIN queue' /\ queue'[k] = queue[k]
        BY <1>2 DEF Grown
      <4>3. \A j \in DOMAIN queue' : k < j => queue'[j].op \notin DraftOps
        BY <4>1, <1>2 DEF Grown, DraftOps
      <4>. QED BY <4>1, <4>2, <4>3 DEF Drafting
    <3>3. ASSUME Refused PROVE Refused'
      BY <3>3, <1>0, <1>1, <1>e DEF Refused, Shrunk
    <3>. QED BY <2>1, <3>1, <3>2, <3>3 DEF LastDraftIs
  <2>. QED BY <2>1, <1>0 DEF MirrorInv, DraftsAreLast
<1>. QED BY <1>20, <1>21, <1>22, <1>23, <1>24, <1>25, <1>26, <1>27, <1>28
   DEF MirrorInv

\* A save that comes back has the draft removed, also of a buffer that changed since: the
\* debounce has then seen nothing (on_fs_event, FileSaved).
LEMMA OnFileSavedMirror ==
  ASSUME SaveInv, MirrorInv, OnFileSaved
  PROVE  MirrorInv'
<1>. USE DEF recovery, outside
<1>t. TypeInv /\ OneBuffer
  BY DEF SaveInv
<1>f. FieldsTyped
  BY <1>t, FieldTypes
<1>. DEFINE e == events[1]
<1>0. /\ events # <<>> /\ events' = Tail(events)
      /\ UNCHANGED <<draft, nextId, opening, deadline, offered, told>>
  BY DEF OnFileSaved
<1>r. Head(events) \in Event /\ Head(events) = events[1]
  BY <1>0, <1>t, TailFacts DEF TypeInv
<1>e. Shrunk(events', events) /\ 1 \in DOMAIN events
  BY <1>0, <1>t, TailFacts DEF TypeInv, Shrunk
<1>1. e.op = "FileSaved" /\ ~offered
  BY <1>r, <1>e DEF OnFileSaved, MirrorInv, NothingWrittenWhileOffered
<1>2. CASE /\ e.id \in draftWrites /\ draftWrites' = draftWrites \ {e.id}
           /\ UNCHANGED <<buffers, queue, draftVersion>>
  <2>1. UNCHANGED LiveIds
    BY <1>0, <1>2 DEF LiveIds, OpenIds
  <2>20. DraftTypes'
    BY <1>0, <1>2 DEF MirrorInv, DraftTypes
  <2>21. DraftIdsApart'
    BY <1>0, <1>2, <2>1 DEF MirrorInv, DraftIdsApart
  <2>22. DraftsAwaited'
    BY <1>0, <1>2, <1>1, <1>e DEF MirrorInv, DraftsAwaited, DraftAskedOrAnswered
  <2>23. DraftAskedOnce'
    BY <1>0, <1>2 DEF MirrorInv, DraftAskedOnce
  <2>24. DraftAskedOrAnswered'
    BY <1>0, <1>2, <1>e, <1>1 DEF MirrorInv, DraftAskedOrAnswered, Shrunk
  <2>25. DraftAnsweredOnce'
    BY <1>0, <1>2, <1>e, <1>1 DEF MirrorInv, DraftAnsweredOnce, Shrunk
  <2>26. NothingWrittenWhileOffered'
    BY <1>0, <1>2, <1>e, <1>1 DEF MirrorInv, NothingWrittenWhileOffered, Shrunk
  <2>27. SeenVersions'
    BY <1>0, <1>2 DEF MirrorInv, SeenVersions
  <2>28. DraftsAreLast'
    <3>1. ASSUME NEW t, LastDraftIs(t) PROVE LastDraftIs(t)'
      <4>1. ASSUME Refused PROVE Refused'
        <5>1. PICK k \in DOMAIN events : events[k].op = "FileFailed" /\ events[k].id \in draftWrites
          BY <4>1 DEF Refused
        <5>2. k # 1 /\ events[k].id \in draftWrites'
          BY <5>1, <1>1, <1>e, <1>2 DEF MirrorInv, DraftAnsweredOnce
        <5>. QED BY <5>1, <5>2, <1>e DEF Refused, Shrunk
      <4>. QED BY <3>1, <4>1, <1>0, <1>2 DEF LastDraftIs, Drafted, Drafting
    <3>. QED BY <3>1, <1>0, <1>2 DEF MirrorInv, DraftsAreLast
  <2>. QED BY <2>20, <2>21, <2>22, <2>23, <2>24, <2>25, <2>26, <2>27, <2>28
     DEF MirrorInv
<1>3. CASE e.id \notin draftWrites /\ UNCHANGED <<buffers, queue, draftVersion, draftWrites>>
  <2>1. UNCHANGED LiveIds
    BY <1>0, <1>3 DEF LiveIds, OpenIds
  <2>20. DraftTypes'
    BY <1>0, <1>3 DEF MirrorInv, DraftTypes
  <2>21. DraftIdsApart'
    BY <1>0, <1>3, <2>1 DEF MirrorInv, DraftIdsApart
  <2>22. DraftsAwaited'
    BY <1>0, <1>3 DEF MirrorInv, DraftsAwaited
  <2>23. DraftAskedOnce'
    BY <1>0, <1>3 DEF MirrorInv, DraftAskedOnce
  <2>24. DraftAskedOrAnswered'
    BY <1>0, <1>3, <1>e, <1>1 DEF MirrorInv, DraftAskedOrAnswered, Shrunk
  <2>25. DraftAnsweredOnce'
    BY <1>0, <1>3, <1>e, <1>1 DEF MirrorInv, DraftAnsweredOnce, Shrunk
  <2>26. NothingWrittenWhileOffered'
    BY <1>0, <1>3, <1>e, <1>1 DEF MirrorInv, NothingWrittenWhileOffered, Shrunk
  <2>27. SeenVersions'
    BY <1>0, <1>3 DEF MirrorInv, SeenVersions
  <2>28. DraftsAreLast'
    <3>1. ASSUME NEW t, LastDraftIs(t) PROVE LastDraftIs(t)'
      <4>1. ASSUME Refused PROVE Refused'
        <5>1. PICK k \in DOMAIN events : events[k].op = "FileFailed" /\ events[k].id \in draftWrites
          BY <4>1 DEF Refused
        <5>2. k # 1 /\ events[k].id \in draftWrites'
          BY <5>1, <1>1, <1>e, <1>3 DEF MirrorInv, DraftAnsweredOnce
        <5>. QED BY <5>1, <5>2, <1>e DEF Refused, Shrunk
      <4>. QED BY <3>1, <4>1, <1>0, <1>3 DEF LastDraftIs, Drafted, Drafting
    <3>. QED BY <3>1, <1>0, <1>3 DEF MirrorInv, DraftsAreLast
  <2>. QED BY <2>20, <2>21, <2>22, <2>23, <2>24, <2>25, <2>26, <2>27, <2>28
     DEF MirrorInv
<1>4. CASE /\ e.id \notin draftWrites /\ Indices(e.id) # {} /\ draftVersion' = {} /\ UNCHANGED draftWrites
           /\ buffers' = [i \in DOMAIN buffers |->
                IF i \in Indices(e.id) THEN MarkSaved(buffers[i], e.version) ELSE buffers[i]]
           /\ queue' = IF known THEN Append(queue, [op |-> "RemoveDraft"]) ELSE queue
  <2>. DEFINE r == [op |-> "RemoveDraft"]
  <2>1. (queue' = queue \/ Grown(queue', queue, r)) /\ r.op = "RemoveDraft"
    <3>1. r \in Request
      BY DEF Request
    <3>. QED BY <3>1, <1>4, <1>t, AppendFacts DEF TypeInv
  <2>. HIDE DEF r
  <2>2. DOMAIN buffers = {1} /\ buffers[1] \in Buffer /\ Indices(e.id) = {1} /\ buffers[1].id = e.id
    <3>1. buffers # <<>>
      BY <1>4 DEF Indices
    <3>. QED BY <3>1, <1>4, <1>t, TheBuffer DEF Indices
  <2>3. /\ DOMAIN buffers' = {1} /\ buffers'[1].id = e.id /\ buffers'[1].version = buffers[1].version
        /\ buffers'[1].saved = e.version
    BY <1>4, <2>2 DEF MarkSaved, Buffer
  <2>4. UNCHANGED LiveIds
    BY <1>0, <2>2, <2>3 DEF LiveIds, OpenIds
  <2>20. DraftTypes'
    BY <1>0, <1>4 DEF MirrorInv, DraftTypes
  <2>21. DraftIdsApart'
    BY <1>0, <1>4, <2>1, <2>4 DEF MirrorInv, DraftIdsApart, Grown
  <2>22. DraftsAwaited'
    BY <1>0, <1>4, <2>1 DEF MirrorInv, DraftsAwaited, Grown
  <2>23. DraftAskedOnce'
    BY <1>0, <1>4, <2>1 DEF MirrorInv, DraftAskedOnce, Grown
  <2>24. DraftAskedOrAnswered'
    BY <1>0, <1>4, <2>1, <1>e, <1>1 DEF MirrorInv, DraftAskedOrAnswered, Grown, Shrunk
  <2>25. DraftAnsweredOnce'
    BY <1>0, <1>4, <1>e, <1>1 DEF MirrorInv, DraftAnsweredOnce, Shrunk
  <2>26. NothingWrittenWhileOffered'
    BY <1>0, <1>1 DEF MirrorInv, NothingWrittenWhileOffered, Grown, Shrunk
  <2>27. SeenVersions'
    BY <1>4 DEF MirrorInv, SeenVersions
  <2>28. DraftsAreLast'
    BY <1>4 DEF DraftsAreLast
  <2>. QED BY <2>20, <2>21, <2>22, <2>23, <2>24, <2>25, <2>26, <2>27, <2>28
     DEF MirrorInv
<1>. QED BY <1>2, <1>3, <1>4, <1>r DEF OnFileSaved

\* After a crash nothing is unsaved: the draft is offered (restore_drafts).
LEMMA CrashMirror ==
  ASSUME Crash
  PROVE  MirrorInv'
<1>. USE DEF recovery, outside
<1>1. /\ queue' = <<>> /\ events' = <<>> /\ draftVersion' = {} /\ deadline' = FALSE /\ draftWrites' = {}
      /\ DOMAIN queue' = {} /\ DOMAIN events' = {}
  BY DEF Crash
<1>2. buffers' = <<>> \/ buffers' = <<Fresh(1, disk)>>
  BY DEF Crash
<1>3. \A i \in DOMAIN buffers' : ~IsDirty(buffers'[i])
  BY <1>2 DEF Fresh, IsDirty
<1>. QED BY <1>1, <1>3 DEF MirrorInv, DraftTypes, DraftIdsApart, DraftsAwaited, DraftAskedOnce,
     DraftAskedOrAnswered, DraftAnsweredOnce, NothingWrittenWhileOffered, SeenVersions,
     DraftsAreLast

\* Every step keeps the drafts, as long as no re-read has done harm.
LEMMA NextMirror ==
  ASSUME SaveInv, SaveInv', MirrorInv, [Next]_vars, harm' = {}
  PROVE  MirrorInv'
<1>s. ASSUME UNCHANGED draftVars PROVE MirrorInv'
  BY <1>s, StutterMirror
<1>1. CASE Human
  BY <1>1, OpenFileMirror, TypeTextMirror, SaveActiveBufferMirror, CloseTabMirror, OtherCommandMirror,
     AcceptDraftMirror, DiscardDraftMirror, IgnoreDraftMirror DEF Human
<1>2. CASE Absorb
  BY <1>2, OnFileLoadedMirror, OnFileSavedMirror, OnFileFailedMirror, OnChangedMirror DEF Absorb
<1>3. ASSUME NEW t \in Text, WrittenByOther(t) PROVE MirrorInv'
  BY <1>3, <1>s DEF WrittenByOther, draftVars
<1>4. CASE UNCHANGED vars
  BY <1>4, <1>s DEF vars, draftVars, recovery
<1>. QED
  BY <1>1, <1>2, <1>3, <1>4, QueueDueDraftsMirror, ServeRequestMirror, RefuseRequestMirror,
     ReportChangeMirror, CrashMirror DEF Next

\* A draft asked for or refused is one that is waited for.
LEMMA MirrorHolds ==
  ASSUME MirrorInv
  PROVE  UnsavedWorkIsMirrored
<1>. SUFFICES ASSUME NEW i \in DOMAIN buffers, IsDirty(buffers[i]), ~deadline, ~told, draftVersion # {}
              PROVE  draftWrites # {} \/ draft = buffers[i].text
  BY DEF UnsavedWorkIsMirrored
<1>1. LastDraftIs(buffers[i].text)
  BY DEF MirrorInv, DraftsAreLast
<1>2. CASE Drafted(buffers[i].text)
  BY <1>2 DEF Drafted
<1>3. CASE Drafting(buffers[i].text)
  BY <1>3 DEF Drafting, MirrorInv, DraftsAwaited
<1>4. CASE Refused
  BY <1>4 DEF Refused
<1>. QED BY <1>1, <1>2, <1>3, <1>4 DEF LastDraftIs

-----------------------------------------------------------------------------
\* The types always, and the rest until a re-read does harm.
SafeInv == TypeInv /\ (harm = {} => SaveInv /\ MirrorInv)

\* Harm is only undone by a crash, after which everything is as at first.
LEMMA NextSafe ==
  ASSUME SafeInv, [Next]_vars
  PROVE  SafeInv'
<1>1. TypeInv /\ TypeInv'
  BY NextTypes DEF SafeInv
<1>. SUFFICES ASSUME harm' = {} PROVE SaveInv' /\ MirrorInv'
  BY <1>1 DEF SafeInv
<1>2. CASE Crash
  BY <1>1, <1>2, CrashSave, CrashMirror
<1>3. CASE ~Crash
  <2>1. harm = {}
    <3>1. CASE OnFileLoaded
      <4>1. harm \subseteq harm'
        BY <3>1 DEF OnFileLoaded
      <4>. QED BY <4>1
    <3>2. CASE ~OnFileLoaded
      BY <1>3, <3>2 DEF Next, Human, Absorb, vars, OpenFile, TypeText, SaveActiveBuffer, CloseTab, OtherCommand,
         AcceptDraft, DiscardDraft, IgnoreDraft, QueueDueDrafts, ServeRequest, RefuseRequest, ReportChange,
         WrittenByOther, OnFileSaved, OnFileFailed, OnChanged
    <3>. QED BY <3>1, <3>2
  <2>2. SaveInv /\ MirrorInv
    BY <2>1 DEF SafeInv
  <2>3. SaveInv'
    BY <1>1, <2>2, NextSave
  <2>. QED BY <2>2, <2>3, NextMirror
<1>. QED BY <1>2, <1>3

\* It holds at first.
LEMMA InitSafe == Init => SafeInv
BY InitSave, InitMirror DEF SafeInv, SaveInv

\* A buffer that reads saved shows its file, or the news is on its way, for any
\* number of edits, saves, reads, closes, foreign writes and crashes (mark_saved,
\* reload_changed_buffers), until a re-read replaces unsaved work or brings a closed
\* file back.
THEOREM SavedBuffersAreCurrent == Spec => []SavedMeansCurrent
<1>1. SafeInv => SavedMeansCurrent
  BY DEF SafeInv, SaveInv, SavedAreCurrent, SavedMeansCurrent
<1>2. SafeInv /\ [Next]_vars => SafeInv'
  BY NextSafe
<1>. QED BY InitSafe, <1>1, <1>2, PTL DEF Spec

\* ADR-0014 section 5, "a dirty buffer is mirrored, debounced, to a draft file": once
\* the debounce is over and the draft written, it holds the unsaved text, whatever was
\* typed, saved, closed, refused or lost in a crash before (sync_drafts_at,
\* queue_due_drafts), unless a re-read did harm, or the report of a save took the draft
\* away and no command has followed it.
THEOREM UnsavedWorkHasItsDraft == Spec => []UnsavedWorkIsMirrored
<1>1. SafeInv => UnsavedWorkIsMirrored
  <2>. SUFFICES ASSUME SafeInv, harm = {} PROVE UnsavedWorkIsMirrored
    BY DEF UnsavedWorkIsMirrored
  <2>. QED BY MirrorHolds DEF SafeInv
<1>2. SafeInv /\ [Next]_vars => SafeInv'
  BY NextSafe
<1>. QED BY InitSafe, <1>1, <1>2, PTL DEF Spec

-----------------------------------------------------------------------------
(***************************************************************************)
(* What a re-read can replace.                                             *)
(***************************************************************************)

\* A read waits, or is answered, in what is on its way.
LEMMA RereadingIs ==
  ASSUME TypeInv, NEW id
  PROVE  Rereading(id) <=> \E m \in OnTheWay : IsRead(m, id)
<1>1. \A k \in DOMAIN queue : queue[k] \in Request /\ queue[k].op # "FileLoaded"
  BY DEF TypeInv, Request
<1>2. \A k \in DOMAIN events : events[k] \in Event /\ events[k].op # "ReadFile"
  BY DEF TypeInv, Event
<1>. QED BY <1>1, <1>2 DEF Rereading, OnTheWay, IsRead

\* Every step but the three that may ask for a read.
NoReadAsked ==
  \/ \E i \in DOMAIN buffers : (\E t \in Text : TypeText(i, t)) \/ SaveActiveBuffer(i) \/ CloseTab(i)
  \/ OtherCommand \/ (\E dispatched \in BOOLEAN : AcceptDraft(dispatched)) \/ DiscardDraft \/ IgnoreDraft
  \/ QueueDueDrafts \/ ServeRequest \/ RefuseRequest \/ ReportChange \/ (\E t \in Text : WrittenByOther(t))
  \/ OnFileLoaded \/ OnFileSaved \/ OnFileFailed
  \/ UNCHANGED vars

\* Unless a read is asked for, a buffer being re-read was being re-read before.
LEMMA NoNewRead ==
  ASSUME TypeInv, TypeInv', NoReadAsked, NEW id, Rereading(id)'
  PROVE  Rereading(id)
<1>. USE DEF recovery, outside
<1>t. /\ buffers \in Seq(Buffer) /\ queue \in Seq(Request) /\ events \in Seq(Event) /\ nextId \in Nat
  BY DEF TypeInv
<1>1. CASE ServeRequest \/ RefuseRequest
  <2>. DEFINE r == Head(queue)
  <2>1. queue # <<>> /\ queue' = Tail(queue) /\ r \in Request /\ r = queue[1] /\ 1 \in DOMAIN queue
    BY <1>1, <1>t DEF ServeRequest, RefuseRequest
  <2>2. \A k \in DOMAIN queue' : k + 1 \in DOMAIN queue /\ queue'[k] = queue[k + 1]
    BY <2>1, <1>t, TailFacts DEF Shrunk
  <2>3. \/ events' = events
        \/ \E e \in Event : /\ events' = Append(events, e)
                            /\ e.op = "FileLoaded" => r.op = "ReadFile" /\ r.id = e.id
    <3>1. CASE RefuseRequest
      <4>1. [op |-> "FileFailed", id |-> r.id] \in Event
        BY <2>1, <3>1 DEF RefuseRequest, Request, Event
      <4>. QED BY <3>1, <4>1 DEF RefuseRequest
    <3>2. CASE ServeRequest /\ r.op = "ReadFile"
      <4>1. [op |-> "FileLoaded", id |-> r.id, text |-> disk] \in Event
        BY <2>1, <3>2 DEF TypeInv, Request, Event
      <4>. QED BY <3>2, <4>1 DEF ServeRequest
    <3>3. CASE ServeRequest /\ r.op \in {"WriteFile", "WriteDraft"}
      <4>1. [op |-> "FileSaved", id |-> r.id, version |-> r.version] \in Event
        BY <2>1, <3>3 DEF Request, Event
      <4>. QED BY <3>3, <4>1 DEF ServeRequest
    <3>4. CASE ServeRequest /\ r.op = "RemoveDraft"
      BY <3>4 DEF ServeRequest
    <3>. QED BY <1>1, <2>1, <3>1, <3>2, <3>3, <3>4 DEF Request
  <2>4. CASE events' = events
    BY <2>2, <2>4 DEF Rereading
  <2>5. CASE events' # events
    <3>1. PICK e \in Event : /\ events' = Append(events, e)
                             /\ e.op = "FileLoaded" => r.op = "ReadFile" /\ r.id = e.id
      BY <2>3, <2>5
    <3>2. \A k \in DOMAIN events' : (k \in DOMAIN events /\ events'[k] = events[k]) \/ events'[k] = e
      BY <3>1, <1>t, AppendFacts DEF Grown
    <3>. HIDE DEF r
    <3>. QED BY <2>1, <2>2, <3>1, <3>2 DEF Rereading
  <2>. QED BY <2>4, <2>5
<1>2. CASE OnFileLoaded \/ OnFileSaved \/ OnFileFailed
  <2>1. events # <<>> /\ events' = Tail(events)
    BY <1>2 DEF OnFileLoaded, OnFileSaved, OnFileFailed
  <2>2. \A k \in DOMAIN events' : k + 1 \in DOMAIN events /\ events'[k] = events[k + 1]
    BY <2>1, <1>t, TailFacts DEF Shrunk
  <2>3. queue' = queue \/ queue' = Append(queue, [op |-> "RemoveDraft"])
    BY <1>2 DEF OnFileLoaded, OnFileSaved, OnFileFailed
  <2>4. [op |-> "RemoveDraft"] \in Request
    BY DEF Request
  <2>5. \A k \in DOMAIN queue' : (k \in DOMAIN queue /\ queue'[k] = queue[k]) \/ queue'[k].op = "RemoveDraft"
    BY <2>3, <2>4, <1>t, AppendFacts DEF Grown
  <2>. QED BY <2>2, <2>5 DEF Rereading
<1>3. CASE ~(ServeRequest \/ RefuseRequest \/ OnFileLoaded \/ OnFileSaved \/ OnFileFailed)
  <2>1. \/ queue' = queue
        \/ \E r \in Request : queue' = Append(queue, r) /\ r.op # "ReadFile"
    <3>1. ASSUME NEW i \in DOMAIN buffers, SaveActiveBuffer(i)
          PROVE  \E r \in Request : queue' = Append(queue, r) /\ r.op # "ReadFile"
      <4>1. [op |-> "WriteFile", id |-> buffers[i].id, version |-> buffers[i].version, text |-> buffers[i].text] \in Request
        <5>1. buffers[i] \in Buffer
          BY <1>t
        <5>2. /\ buffers[i].id \in Nat /\ buffers[i].version \in Nat /\ buffers[i].text \in SomeText
          BY <5>1 DEF Buffer
        <5>. QED BY <5>2 DEF Request
      <4>. QED BY <3>1, <4>1 DEF SaveActiveBuffer
    <3>2. CASE DiscardDraft
      <4>1. [op |-> "RemoveDraft"] \in Request
        BY DEF Request
      <4>. QED BY <3>2, <4>1 DEF DiscardDraft
    <3>3. CASE QueueDueDrafts /\ queue' # queue
      <4>. DEFINE b == LastDirty(buffers)
                  r == [op |-> "WriteDraft", id |-> nextId + 1, version |-> b.version, text |-> b.text]
      <4>1. queue' = Append(queue, r)
        BY <3>3 DEF QueueDueDrafts
      <4>2. Len(queue') = Len(queue) + 1 /\ Len(queue) + 1 \in DOMAIN queue' /\ queue'[Len(queue) + 1] = r
        BY <4>1, <1>t
      <4>3. r \in Request
        BY <4>2 DEF TypeInv
      <4>. QED BY <4>1, <4>3
    <3>. QED BY <1>3, <3>1, <3>2, <3>3 DEF NoReadAsked, TypeText, CloseTab, OtherCommand,
         AcceptDraft, IgnoreDraft, ReportChange, WrittenByOther, vars
  <2>2. \A k \in DOMAIN queue' : (k \in DOMAIN queue /\ queue'[k] = queue[k]) \/ queue'[k].op # "ReadFile"
    BY <2>1, <1>t, AppendFacts DEF Grown
  <2>3. events' = events \/ events' = Append(events, [op |-> "Changed"])
    BY <1>3 DEF NoReadAsked, TypeText, SaveActiveBuffer, CloseTab, OtherCommand, QueueDueDrafts,
         AcceptDraft, DiscardDraft, IgnoreDraft, ReportChange, WrittenByOther, vars
  <2>4. [op |-> "Changed"] \in Event
    BY DEF Event
  <2>5. \A k \in DOMAIN events' : (k \in DOMAIN events /\ events'[k] = events[k]) \/ events'[k].op = "Changed"
    BY <2>3, <2>4, <1>t, AppendFacts DEF Grown
  <2>. QED BY <2>2, <2>5 DEF Rereading
<1>. QED BY <1>1, <1>2, <1>3

\* Only an edit exposes work to a re-read: reads are asked for of saved buffers only, and
\* what was saved ahead of a read is what is marked saved already.
LEMMA OnlyEditsExpose ==
  ASSUME SaveInv, TypeInv', [Next]_vars, ~Edit
  PROVE  Exposed' \subseteq Exposed
<1>. USE DEF recovery, outside
<1>t. TypeInv /\ OneBuffer
  BY DEF SaveInv
<1>. SUFFICES ASSUME NEW i \in DOMAIN buffers', NEW id, id = buffers'[i].id, IsDirty(buffers'[i]), Rereading(id)'
              PROVE  id \in Exposed
  <2>1. ASSUME NEW id \in Exposed' PROVE id \in Exposed
    <3>1. Exposed' = {buffers'[i].id : i \in {i \in DirtyAt(buffers)' : Rereading(buffers[i].id)'}}
      BY DEF Exposed
    <3>2. PICK i \in DirtyAt(buffers)' : Rereading(buffers[i].id)' /\ id = buffers'[i].id
      BY <2>1, <3>1
    <3>3. i \in DOMAIN buffers' /\ IsDirty(buffers'[i])
      BY <3>2 DEF DirtyAt
    <3>4. Rereading(id)'
      BY <3>2 DEF Rereading
    <3>. QED BY <3>2, <3>3, <3>4
  <2>. QED BY <2>1
<1>0. ASSUME NEW j \in DOMAIN buffers, buffers[j].id = id, IsDirty(buffers[j]), Rereading(id)
      PROVE  id \in Exposed
  BY <1>0 DEF Exposed, DirtyAt
<1>1. CASE OpenFile
  BY <1>1 DEF OpenFile
<1>2. CASE Crash
  BY <1>2 DEF Crash, Fresh, IsDirty
<1>3. CASE OnChanged
  <2>1. buffers' = buffers /\ events # <<>> /\ events' = Tail(events) /\ buffers # <<>> /\ buffers \in Seq(Buffer)
    BY <1>3, <1>t DEF OnChanged, TypeInv
  <2>2. DOMAIN buffers = {1} /\ Head(buffers) = buffers[1]
    BY <1>t, <2>1, TheBuffer
  <2>3. queue' = queue
    BY <1>3, <2>1, <2>2 DEF OnChanged
  <2>4. \A k \in DOMAIN events' : k + 1 \in DOMAIN events /\ events'[k] = events[k + 1]
    BY <2>1, <1>t, TailFacts DEF TypeInv, Shrunk
  <2>5. Rereading(id)
    <3>1. CASE \E k \in DOMAIN queue' : queue'[k].op = "ReadFile" /\ queue'[k].id = id
      BY <2>3, <3>1 DEF Rereading
    <3>2. CASE \E k \in DOMAIN events' : events'[k].op = "FileLoaded" /\ events'[k].id = id
      BY <2>4, <3>2 DEF Rereading
    <3>. QED BY <3>1, <3>2 DEF Rereading
  <2>. QED BY <1>0, <2>1, <2>5
<1>4. CASE OnFileSaved
  <2>. DEFINE e == events[1]
  <2>1. /\ events # <<>> /\ events' = Tail(events) /\ Head(events) = e /\ e.op = "FileSaved" /\ 1 \in DOMAIN events
        /\ Shrunk(events', events)
    BY <1>4, <1>t, TailFacts DEF OnFileSaved, TypeInv, Shrunk
  <2>2. Rereading(id)
    BY <1>4, <1>t, NoNewRead DEF NoReadAsked
  <2>3. CASE buffers' = buffers
    BY <1>0, <2>2, <2>3
  <2>4. CASE /\ Indices(e.id) # {} /\ queue' = IF known THEN Append(queue, [op |-> "RemoveDraft"]) ELSE queue
             /\ buffers' = [n \in DOMAIN buffers |->
                  IF n \in Indices(e.id) THEN MarkSaved(buffers[n], e.version) ELSE buffers[n]]
    <3>1. DOMAIN buffers = {1} /\ buffers[1] \in Buffer /\ Indices(e.id) = {1} /\ buffers[1].id = e.id
      <4>1. buffers # <<>>
        BY <2>4 DEF Indices
      <4>. QED BY <4>1, <2>4, <1>t, TheBuffer DEF Indices
    <3>2. i = 1 /\ buffers'[1].id = e.id /\ buffers'[1].version = buffers[1].version /\ buffers'[1].saved = e.version
      BY <2>4, <3>1 DEF MarkSaved, Buffer
    <3>3. PICK m \in OnTheWay' : IsRead(m, e.id)
      <4>1. id = e.id
        BY <3>2
      <4>2. \/ \E k \in DOMAIN queue' : queue'[k].op = "ReadFile" /\ queue'[k].id = id
            \/ \E k \in DOMAIN events' : events'[k].op = "FileLoaded" /\ events'[k].id = id
        BY DEF Rereading
      <4>. QED BY <4>1, <4>2 DEF OnTheWay, IsRead
    <3>4. IsAhead(e, m)
      <4>. DEFINE r == [op |-> "RemoveDraft"]
      <4>1. r \in Request /\ ~IsRead(r, e.id)
        BY DEF Request, IsRead
      <4>2. queue' = queue \/ Grown(queue', queue, r)
        BY <2>4, <4>1, <1>t, AppendFacts DEF TypeInv
      <4>. HIDE DEF r
      <4>3. IsAhead(e, m) \/ m = r
        BY <2>1, <4>2, FirstIsAhead
      <4>. QED BY <3>3, <4>1, <4>3
    <3>5. e.version = buffers[1].saved
      BY <2>1, <3>1, <3>3, <3>4 DEF SaveInv, SavesAheadOfReads, IsSave
    <3>. QED BY <1>0, <2>2, <3>1, <3>2, <3>5 DEF IsDirty
  <2>. QED BY <1>4, <2>1, <2>3, <2>4 DEF OnFileSaved
<1>5. CASE OnFileLoaded
  <2>. DEFINE e == Head(events)
  <2>1. Rereading(id)
    BY <1>5, <1>t, NoNewRead DEF NoReadAsked
  <2>2. \A x, y : ~IsDirty(Fresh(x, y))
    BY DEF Fresh, IsDirty
  <2>3. i \in DOMAIN buffers /\ buffers'[i] = buffers[i]
    <3>1. CASE Indices(e.id) # {}
      BY <1>5, <2>2, <3>1 DEF OnFileLoaded
    <3>2. CASE Indices(e.id) = {}
      <4>. DEFINE b == Fresh(e.id, e.text)
      <4>1. buffers' = Append(buffers, b) /\ ~IsDirty(b)
        BY <1>5, <2>2, <3>2 DEF OnFileLoaded
      <4>. HIDE DEF b
      <4>2. buffers \in Seq(Buffer)
        BY <1>t DEF TypeInv
      <4>. QED BY <4>1, <4>2
    <3>. QED BY <3>1, <3>2
  <2>. QED BY <1>0, <2>1, <2>3
<1>6. ASSUME NEW n \in DOMAIN buffers, CloseTab(n) PROVE id \in Exposed
  <2>1. buffers' = RemoveAt(buffers, n) /\ UNCHANGED <<queue, events>> /\ buffers \in Seq(Buffer)
    BY <1>6, <1>t DEF CloseTab, TypeInv
  <2>2. \E j \in DOMAIN buffers : buffers'[i] = buffers[j]
    <3>1. i + 1 \in DOMAIN buffers /\ buffers'[i] = IF i < n THEN buffers[i] ELSE buffers[i + 1]
      BY <2>1, <1>6, Removed
    <3>2. i \in Nat \ {0}
      <4>1. buffers' \in Seq(Buffer)
        BY DEF TypeInv
      <4>. QED BY <4>1
    <3>3. i \in DOMAIN buffers
      BY <2>1, <3>1, <3>2
    <3>. QED BY <3>1, <3>3
  <2>. QED BY <1>0, <2>1, <2>2 DEF Rereading
<1>7. CASE buffers' = buffers /\ NoReadAsked
  <2>1. Rereading(id)
    BY <1>7, <1>t, NoNewRead
  <2>. QED BY <1>0, <1>7, <2>1
<1>8. \/ \E n \in DOMAIN buffers : CloseTab(n)
      \/ OpenFile \/ OnChanged \/ Crash \/ OnFileLoaded \/ OnFileSaved
      \/ buffers' = buffers /\ NoReadAsked
  BY DEF NoReadAsked, Next, Human, Absorb, Edit, SaveActiveBuffer, OtherCommand, DiscardDraft, IgnoreDraft,
     QueueDueDrafts, ServeRequest, RefuseRequest, ReportChange, WrittenByOther, OnFileFailed, vars
<1>. QED BY <1>1, <1>2, <1>3, <1>4, <1>5, <1>6, <1>7, <1>8

\* "Unsaved work is never replaced by a reload" (reload_changed_buffers) as far as the
\* code keeps it: the only work a re-read replaces is of a buffer that was edited while
\* that re-read was under way, and only an edit puts a buffer in that place.
THEOREM ReloadsSpareUnsavedWork == Spec => OnlyLateEditsAreReplaced
<1>. DEFINE A == harm = {} =>
       /\ \A i \in DOMAIN buffers : Absorb /\ IsDirty(buffers[i]) =>
            buffers[i].id \in Exposed \/ (i \in DOMAIN buffers' /\ buffers'[i].text = buffers[i].text)
       /\ Exposed' \subseteq Exposed \/ Edit
<1>1. SafeInv /\ [Next]_vars => [A]_vars
  <2>. SUFFICES ASSUME SafeInv, [Next]_vars, harm = {} PROVE A
    OBVIOUS
  <2>t. SaveInv /\ TypeInv /\ TypeInv' /\ buffers \in Seq(Buffer) /\ events \in Seq(Event)
    BY NextTypes DEF SafeInv, TypeInv
  <2>1. ASSUME NEW i \in DOMAIN buffers, Absorb, IsDirty(buffers[i])
        PROVE  buffers[i].id \in Exposed \/ (i \in DOMAIN buffers' /\ buffers'[i].text = buffers[i].text)
    <3>1. CASE OnFileLoaded
      <4>1. CASE buffers[i].id = Head(events).id
        <5>1. 1 \in DOMAIN events /\ Head(events) = events[1] /\ Head(events).op = "FileLoaded"
          BY <2>t, <3>1 DEF OnFileLoaded
        <5>2. Rereading(buffers[i].id)
          BY <4>1, <5>1 DEF Rereading
        <5>. QED BY <2>1, <5>2 DEF Exposed, DirtyAt
      <4>2. CASE buffers[i].id # Head(events).id
        BY <2>t, <3>1, <4>2 DEF OnFileLoaded, Indices
      <4>. QED BY <4>1, <4>2
    <3>2. CASE OnFileSaved
      <4>1. \A b \in Buffer : \A v : MarkSaved(b, v).text = b.text
        BY DEF MarkSaved, Buffer
      <4>. QED BY <2>t, <3>2, <4>1 DEF OnFileSaved
    <3>3. CASE OnFileFailed \/ OnChanged
      BY <3>3 DEF OnFileFailed, OnChanged
    <3>. QED BY <2>1, <3>1, <3>2, <3>3 DEF Absorb
  <2>2. Exposed' \subseteq Exposed \/ Edit
    BY <2>t, OnlyEditsExpose
  <2>. QED BY <2>1, <2>2
<1>2. SafeInv /\ [Next]_vars => SafeInv'
  BY NextSafe
<1>. QED BY InitSafe, <1>1, <1>2, PTL DEF Spec, OnlyLateEditsAreReplaced

=============================================================================
