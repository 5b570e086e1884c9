------------------------------- MODULE LspSync -------------------------------
(* Language servers: the model's document synchronisation and request         *)
(* bookkeeping (app/src/model.rs, app/src/lsp_state.rs), the supervisor       *)
(* thread that owns a server process and its translator (lsp/src/session.rs,  *)
(* lsp/src/protocol.rs), and the server itself as the code talks to it.       *)
(*                                                                            *)
(* One recipe claims every document; the Started event of a first launch      *)
(* finds the status it sets and is left out. `ed` is the model: a handler is an       *)
(* operator from ed to ed whose requests collect in ed.out, and the main loop *)
(* forwards ed.out before it reads the next message, so a handler and the     *)
(* forwarding are one step. A session is one LspSession: the inbox of its     *)
(* supervisor, the translator, and the process it runs. The server reads a    *)
(* message as soon as it is written and answers whenever it likes.            *)
EXTENDS Integers, Sequences, FiniteSets, SequencesExt

CONSTANTS
  Docs,          \* the documents, all claimed by the one recipe
  Chars,         \* what texts are made of
  MaxLen,        \* bound on the length of a text
  Kinds,         \* the request kinds the instance uses
  Budgets,       \* how many of each operation a behaviour may take
  MaxSessions,   \* bound on the LspSessions of a behaviour
  MaxRestarts,   \* MAX_RESTARTS of the supervisor
  None           \* no text, no version, nothing held

LookKinds == {"definition", "hover", "completion", "references", "symbols"}
EditKinds == {"formatting", "rename"}

ASSUME LspBounds ==
  /\ Kinds \subseteq LookKinds \cup EditKinds
  /\ IsFiniteSet(Docs) /\ None \notin Seq(Chars)
  /\ MaxLen \in Nat /\ MaxSessions \in Nat \ {0} /\ MaxRestarts \in Nat

VARIABLES
  ed,        \* the model's half
  sessions,  \* [1..MaxSessions -> session]
  current,   \* the LspSession the main loop holds for the server id, 0 for none
  events,    \* the application channel: language events in arrival order
  budget     \* the operations left

vars == <<ed, sessions, current, events, budget>>

Texts == UNION {[1..n -> Chars] : n \in 0..MaxLen}

(* A change as changed_span reports it: len characters before, and `del`      *)
(* characters after the first `at` replaced by `ins`.                         *)
Change(t, a, k, w) == [len |-> Len(t), at |-> a, del |-> k, ins |-> w]
Replace(t, c) == SubSeq(t, 1, c.at) \o c.ins \o SubSeq(t, c.at + c.del + 1, Len(t))
ChangesOf(t) ==
  {c \in {Change(t, a, k, w) : a \in 0..MaxLen, k \in 0..MaxLen, w \in Texts} :
     c.at + c.del <= Len(t) /\ Len(Replace(t, c)) <= MaxLen}
IsIdentity(c) == c.del = 0 /\ c.ins = <<>>

(* offset_from_utf16 clamps a position that the text does not have.           *)
Least(a, b) == IF a < b THEN a ELSE b
BuildLspChanges(t, c) ==
  LET s == Least(c.at, Len(t)) e == Least(c.at + c.del, Len(t))
  IN Change(t, s, e - s, c.ins)

----------------------------------------------------------------------------
(* The model.                                                                 *)

InitEd ==
  [text    |-> [d \in Docs |-> None],   \* the buffers; None: not open
   pend    |-> [d \in Docs |-> <<>>],   \* Buffer::pending_changes
   reads   |-> {},                      \* opening: reads asked for
   restored |-> {},                     \* documents a session restore asked for
   started |-> FALSE,                   \* the recipe has become a session
   load    |-> "Idle",
   open    |-> [d \in Docs |-> 0],      \* open_docs: wire version, 0 for absent
   next    |-> 0,                       \* next_doc_version
   synced  |-> [d \in Docs |-> <<>>],   \* synced_docs
   active  |-> [k \in Kinds |-> 0],     \* active_<kind>
   nextId  |-> 0,
   diag    |-> [d \in Docs |-> None],   \* lsp.diagnostics
   edit    |-> None,                    \* pending_workspace_edit
   out     |-> <<>>]

Push(m, r) == [m EXCEPT !.out = Append(@, r)]

DidOpen(m, d) ==
  Push([m EXCEPT !.next = @ + 1, !.open[d] = m.next + 1, !.synced[d] = m.text[d]],
       [t |-> "open", doc |-> d, version |-> m.next + 1, text |-> m.text[d]])

(* One queued transaction: refused when its pre-image cannot be the shadow.   *)
DidChange(acc, c, d) ==
  LET m == acc.m IN
  CASE acc.lost -> acc
    [] ~acc.lost /\ c.len # Len(m.synced[d]) -> [acc EXCEPT !.lost = TRUE]
    [] ~acc.lost /\ c.len = Len(m.synced[d]) /\ IsIdentity(c) -> acc
    [] OTHER ->
       [acc EXCEPT !.m = Push([m EXCEPT !.next = @ + 1, !.open[d] = m.next + 1,
                                        !.synced[d] = Replace(@, c)],
                              [t |-> "change", doc |-> d, version |-> m.next + 1,
                               change |-> c])]

DidClose(m, d) == Push(m, [t |-> "close", doc |-> d])

SyncChanges(m, d, changes) ==
  LET acc == FoldLeft(LAMBDA a, c : DidChange(a, c, d), [m |-> m, lost |-> FALSE], changes)
  IN IF acc.lost \/ acc.m.synced[d] # m.text[d]
     THEN DidOpen(DidClose(acc.m, d), d)
     ELSE acc.m

(* sync_lsp_documents for one buffer: drain its outbox, drop its diagnostics  *)
(* if it changed, start the recipe that claims it, open it or send changes.   *)
SyncDoc(m, d) ==
  IF m.text[d] = None THEN m
  ELSE LET changes == m.pend[d]
           drained == [m EXCEPT !.pend[d] = <<>>,
                                !.diag[d] = IF changes = <<>> THEN @ ELSE None]
           routed == IF m.started THEN drained
                     ELSE Push([drained EXCEPT !.started = TRUE, !.load = "Starting"],
                               [t |-> "start"])
       IN IF m.open[d] = 0 THEN DidOpen(routed, d) ELSE SyncChanges(routed, d, changes)

SyncLspDocuments(m) == FoldLeft(SyncDoc, m, SetToSeq(Docs))

CloseLspDocument(m, d) ==
  LET shut == IF m.open[d] = 0 THEN m
              ELSE DidClose([m EXCEPT !.open[d] = 0, !.synced[d] = <<>>], d)
  IN [shut EXCEPT !.diag[d] = None]

(* Mutant: a restart keeps the documents listed as open.                      *)
ResetKeepingDocs(m) ==
  [m EXCEPT !.load = "Starting", !.active = [k \in Kinds |-> 0],
            !.diag = [d \in Docs |-> None]]

(* reset_for_restart, and what restart_language_servers drops with it.        *)
ResetForRestart(m) ==
  [m EXCEPT !.load = "Starting", !.open = [d \in Docs |-> 0],
            !.synced = [d \in Docs |-> <<>>], !.next = 0,
            !.active = [k \in Kinds |-> 0], !.diag = [d \in Docs |-> None]]

(* A transaction on each of some buffers, recorded in their outboxes.         *)
ApplyToBuffers(m, cs) ==
  [m EXCEPT
     !.text = [d \in Docs |-> IF d \in DOMAIN cs THEN Replace(@[d], cs[d]) ELSE @[d]],
     !.pend = [d \in Docs |-> IF d \in DOMAIN cs THEN Append(@[d], cs[d]) ELSE @[d]]]
ApplyToBuffer(m, d, c) == ApplyToBuffers(m, [x \in {d} |-> c])

(* finish_pending_workspace_edit: nothing until every target is there, and    *)
(* nothing at all unless every target is a buffer.                            *)
FinishWorkspaceEdit(m) ==
  IF m.edit = None THEN m
  ELSE IF m.edit.waiting # {} THEN m
  ELSE LET e == m.edit
           done == [m EXCEPT !.edit = None]
       IN IF \E d \in DOMAIN e.changes : m.text[d] = None THEN done
          ELSE SyncLspDocuments(
                 ApplyToBuffers(done, [d \in DOMAIN e.changes |->
                                         BuildLspChanges(m.text[d], e.changes[d])]))

(* apply_workspace_edit: one at a time, and only for the versions it names.   *)
ApplyWorkspaceEdit(m, e) ==
  LET missing == {d \in DOMAIN e.changes : m.text[d] = None} IN
  IF m.edit # None \/ \E d \in DOMAIN e.versions : m.open[d] # e.versions[d] THEN m
  ELSE FinishWorkspaceEdit(
         [m EXCEPT !.reads = @ \cup missing,
                   !.edit = [changes |-> e.changes, waiting |-> missing]])

(* apply_text_edits: against the text of now, whatever it was asked for.      *)
ApplyTextEdits(m, e) ==
  LET d == CHOOSE x \in DOMAIN e.changes : TRUE IN
  IF m.text[d] = None THEN m
  ELSE SyncLspDocuments(ApplyToBuffer(m, d, BuildLspChanges(m.text[d], e.changes[d])))

(* A request supersedes the one of its kind that is under way.                *)
AskServer(m, k, d) ==
  LET id == m.nextId + 1
      cancel == IF m.active[k] = 0 THEN m
                ELSE Push(m, [t |-> "cancel", id |-> m.active[k]])
  IN Push([cancel EXCEPT !.nextId = id, !.active[k] = id],
          [t |-> "ask", id |-> id, kind |-> k, doc |-> d])

(* on_lsp_event.                                                              *)
(* The items replace those of the path and are painted over its buffer.       *)
SyncLspDiagnostics(m, e) == [m EXCEPT !.diag[e.doc] = e]

(* Mutant: diagnostics of any version are taken.                              *)
OnDiagnosticsOfAnyVersion(m, e) == SyncLspDiagnostics(m, e)

OnDiagnostics(m, e) ==
  IF e.version # 0 /\ m.open[e.doc] # e.version THEN m ELSE SyncLspDiagnostics(m, e)

OnAnswer(m, e) ==
  IF m.active[e.kind] # e.id THEN m
  ELSE LET cleared == [m EXCEPT !.active[e.kind] = 0] IN
       CASE e.kind = "formatting" -> ApplyTextEdits(cleared, e)
         [] e.kind = "rename" -> ApplyWorkspaceEdit(cleared, e)
         [] OTHER -> cleared

OnFailed(m, e) ==
  IF e.id = 0 THEN [m EXCEPT !.load = "Unavailable"]
  ELSE IF ~ \E k \in Kinds : m.active[k] = e.id THEN m
  ELSE [m EXCEPT !.load = "Stale",
                 !.active = [k \in Kinds |-> IF m.active[k] = e.id THEN 0 ELSE m.active[k]]]

OnLspEvent(m, e) ==
  CASE e.t = "diagnostics" -> OnDiagnostics(m, e)
    [] e.t = "answer" -> OnAnswer(m, e)
    [] e.t = "failed" -> OnFailed(m, e)
    [] e.t = "load" -> [m EXCEPT !.load = e.load]

----------------------------------------------------------------------------
(* Sessions.                                                                  *)

NewTranslator == [ready |-> FALSE, queued |-> <<>>, pending |-> {}, cancelled |-> {},
                  progress |-> {}]

(* The process: whether it answered initialize, what it was told of each      *)
(* document, the requests it owes an answer, what it works on, and whether    *)
(* the last it said of its work is that work it never named has ended.        *)
NewProcess == [alive |-> TRUE, copy |-> [d \in Docs |-> None], seen |-> [d \in Docs |-> 0],
               hello |-> FALSE, owes |-> {}, misled |-> FALSE, working |-> {},
               untold |-> FALSE]

(* `lost`: the requests that went down with an earlier process of the session. *)
NewSession == [inbox |-> <<>>, gen |-> 0, stage |-> "running",
               tr |-> NewTranslator, proc |-> NewProcess, lost |-> {}]
AskedIn(queue) == {r.id : r \in {w \in ToSet(queue) : w.t = "ask"}}
(* A slot no session was made in yet.                                         *)
NoSession == [NewSession EXCEPT !.gen = -1, !.stage = "over"]

(* Work the main loop or a reader puts in a session's inbox; a supervisor     *)
(* that has returned no longer receives.                                      *)
SendTo(s, w) == IF s.stage = "over" THEN s ELSE [s EXCEPT !.inbox = Append(@, w)]

(* Whether the command of the recipe can be spawned at all.                   *)
Installed == budget["missing"] = 0

(* The main loop forwards one request: Start replaces the session bound to    *)
(* the server id, after telling it to shut down; what a server id without a   *)
(* session is sent is dropped.                                                *)
Forward(acc, r) ==
  IF r.t # "start"
  THEN IF acc.at = 0 THEN acc ELSE [acc EXCEPT !.sess[acc.at] = SendTo(@, r)]
  ELSE LET old == IF acc.at = 0 THEN acc.sess
                  ELSE [acc.sess EXCEPT ![acc.at] = SendTo(@, [t |-> "shutdown"])]
       IN IF acc.installed
          THEN [acc EXCEPT !.sess = [old EXCEPT ![acc.used + 1] = NewSession],
                           !.at = acc.used + 1, !.used = acc.used + 1]
          ELSE [acc EXCEPT !.sess = old, !.at = 0]

Used == Cardinality({i \in 1..MaxSessions : sessions[i] # NoSession})

Handled(m) ==
  LET acc == FoldLeft(Forward, [sess |-> sessions, at |-> current, used |-> Used,
                                installed |-> Installed], m.out)
      failed == ~Installed /\ \E k \in DOMAIN m.out : m.out[k].t = "start"
  IN /\ ed' = [m EXCEPT !.out = <<>>, !.load = IF failed THEN "Unavailable" ELSE @]
     /\ sessions' = acc.sess
     /\ current' = acc.at

(* What the server does with a notification. `misled`: a change for a         *)
(* document it does not hold, an open of one it holds, or an older version.   *)
ServerReads(p, r) ==
  CASE r.t = "open" ->
         [p EXCEPT !.copy[r.doc] = r.text, !.seen[r.doc] = r.version,
                   !.misled = @ \/ p.copy[r.doc] # None \/ r.version <= p.seen[r.doc]]
    [] r.t = "change" ->
         IF p.copy[r.doc] = None THEN [p EXCEPT !.misled = TRUE]
         ELSE [p EXCEPT !.copy[r.doc] = Replace(@, r.change), !.seen[r.doc] = r.version,
                        !.misled = @ \/ r.version <= p.seen[r.doc]
                                     \/ r.change.at + r.change.del > Len(p.copy[r.doc])]
    [] r.t = "close" -> [p EXCEPT !.copy[r.doc] = None, !.misled = @ \/ p.copy[r.doc] = None]
    [] r.t = "ask" -> [p EXCEPT !.owes = @ \cup {r}]
    [] OTHER -> p

(* Translator::outgoing: queue until ready, then encode.                      *)
Outgoing(s, r) ==
  IF ~s.tr.ready THEN [s EXCEPT !.tr.queued = Append(@, r)]
  ELSE CASE r.t = "ask" ->
              [s EXCEPT !.tr.pending = @ \cup {r.id}, !.proc = ServerReads(@, r)]
         [] r.t = "cancel" ->
              IF r.id \in s.tr.pending THEN [s EXCEPT !.tr.cancelled = @ \cup {r.id}] ELSE s
         [] OTHER -> [s EXCEPT !.proc = ServerReads(@, r)]

Emit(i, es) == events' = events \o [k \in DOMAIN es |-> [es[k] EXCEPT !.from = i]]
Load(l) == [t |-> "load", load |-> l, from |-> 0]
FailedEvent(id) == [t |-> "failed", id |-> id, from |-> 0]

(* Translator::incoming for a response: the handshake, or a request that is   *)
(* still pending; a cancelled one is swallowed.                               *)
Ready(s) == FoldLeft(Outgoing, [s EXCEPT !.tr.ready = TRUE, !.tr.queued = <<>>], s.tr.queued)

Settled(s, id) ==
  [s EXCEPT !.tr.pending = @ \ {id}, !.tr.cancelled = @ \ {id}]
AnswerEvents(s, b) ==
  IF b.id \notin s.tr.pending \/ b.id \in s.tr.cancelled THEN <<>>
  ELSE IF b.ok THEN <<b.event>> ELSE <<FailedEvent(b.id)>>

(* Work the translator keeps no account of: `$/progress` without a token, and  *)
(* JDT's language/status, which ends with Started or ServiceReady.            *)
Untracked == {"nameless", "status"}

(* progress_events, parse_jdt_language_status: only the last token to end      *)
(* means the server is done; without a token even the end is work.            *)
ProgressOf(s, b) ==
  IF b.end THEN s.tr.progress \ {b.token}
  ELSE s.tr.progress \cup ({b.token} \ Untracked)

ProgressEvents(s, b) ==
  IF ~b.end \/ b.token = "nameless" THEN <<Load("Indexing")>>
  ELSE IF b.token = "status" \/ ProgressOf(s, b) = {} THEN <<Load("Ready")>>
  ELSE <<>>

----------------------------------------------------------------------------
Spend(op) == budget[op] > 0 /\ budget' = [budget EXCEPT ![op] = @ - 1]

Init ==
  /\ ed = InitEd
  /\ sessions = [i \in 1..MaxSessions |-> NoSession]
  /\ current = 0
  /\ events = <<>>
  /\ budget \in Budgets

(* --- the main thread --- *)

(* A file opened from the explorer; the read is answered later.               *)
OpenFile(d) ==
  /\ ed.text[d] = None /\ d \notin ed.reads
  /\ Spend("open")
  /\ ed' = [ed EXCEPT !.reads = @ \cup {d}]
  /\ UNCHANGED <<sessions, current, events>>

(* Session restore opens the files of the last run before anything else.      *)
RestoreFile(d) ==
  /\ ed.text[d] = None /\ d \notin ed.reads /\ ~ed.started
  /\ Spend("restore")
  /\ ed' = [ed EXCEPT !.reads = @ \cup {d}, !.restored = @ \cup {d}]
  /\ UNCHANGED <<sessions, current, events>>

ReadDone(m, d) ==
  [m EXCEPT !.reads = @ \ {d},
            !.edit = IF m.edit = None THEN None
                     ELSE [m.edit EXCEPT !.waiting = @ \ {d}]]

(* FileLoaded for a new buffer, then for the edit that waits for it.          *)
FileLoaded(d) ==
  /\ d \in ed.reads /\ ed.text[d] = None
  /\ \E t \in Texts :
       Handled(FinishWorkspaceEdit(ReadDone(
         SyncLspDocuments([ed EXCEPT !.text[d] = t, !.pend[d] = <<>>]), d)))
  /\ UNCHANGED <<events, budget>>

(* Mutant: a failed read is only reported.                                    *)
FileFailedQuietly(d) ==
  /\ d \in ed.reads
  /\ ed' = [ed EXCEPT !.reads = @ \ {d}]
  /\ UNCHANGED <<sessions, current, events, budget>>

(* FileFailed or a file that is not text: the edit that waits is abandoned,   *)
(* but a restored read is settled before the edit is looked at.               *)
FileFailed(d) ==
  /\ d \in ed.reads
  /\ ed' = [ed EXCEPT !.reads = @ \ {d},
                      !.edit = IF @ = None \/ d \in ed.restored THEN @
                               ELSE IF d \in @.waiting THEN None ELSE @]
  /\ UNCHANGED <<sessions, current, events, budget>>

(* A watched file changed and its buffer was clean: replaced in place.        *)
Reload(d) ==
  /\ ed.text[d] # None
  /\ Spend("reload")
  /\ \E t \in Texts :
       Handled(SyncLspDocuments(
         [CloseLspDocument(ed, d) EXCEPT !.text[d] = t, !.pend[d] = <<>>]))
  /\ UNCHANGED events

(* Typing, undo, redo, an accepted proposal: a command, so documents sync.    *)
EditSynced(d) ==
  /\ ed.text[d] # None
  /\ Spend("edit")
  /\ \E c \in ChangesOf(ed.text[d]) : Handled(SyncLspDocuments(ApplyToBuffer(ed, d, c)))
  /\ UNCHANGED events

(* Replace-all and the chosen recovery drafts end in the prompt's own         *)
(* handler: the buffer changes and no document is synchronised.               *)
EditUnsynced(d) ==
  /\ ed.text[d] # None
  /\ Spend("replace")
  /\ \E c \in ChangesOf(ed.text[d]) : ed' = ApplyToBuffer(ed, d, c)
  /\ UNCHANGED <<sessions, current, events>>

CloseTab(d) ==
  /\ ed.text[d] # None
  /\ Spend("close")
  /\ Handled([CloseLspDocument(ed, d) EXCEPT !.text[d] = None, !.pend[d] = <<>>])
  /\ UNCHANGED events

(* A Code command: the request first, the synchronisation of dispatch after.  *)
Request(k, d) ==
  /\ ed.text[d] # None /\ ed.started
  /\ Spend("ask")
  /\ Handled(SyncLspDocuments(AskServer(ed, k, d)))
  /\ UNCHANGED events

RestartServers ==
  /\ ed.started /\ Used < MaxSessions
  /\ Spend("restart")
  /\ Handled(SyncLspDocuments(Push(ResetForRestart(ed), [t |-> "start"])))
  /\ UNCHANGED events

OnEvent ==
  /\ events # <<>>
  /\ events' = Tail(events)
  /\ Handled(OnLspEvent(ed, Head(events)))
  /\ UNCHANGED budget

(* --- a supervisor --- *)

Takes(i, kind) ==
  /\ sessions[i].stage = "running"
  /\ sessions[i].inbox # <<>>
  /\ Head(sessions[i].inbox).t \in kind

Rest(i) == [sessions[i] EXCEPT !.inbox = Tail(@)]
Becomes(i, s) == sessions' = [sessions EXCEPT ![i] = s] /\ UNCHANGED <<ed, current, budget>>

TakeRequest(i) ==
  /\ Takes(i, {"open", "change", "close", "ask", "cancel"})
  /\ \/ /\ Becomes(i, Outgoing(Rest(i), Head(sessions[i].inbox)))
        /\ UNCHANGED events
     \/ /\ ~sessions[i].proc.alive /\ sessions[i].tr.ready
        /\ Becomes(i, [Rest(i) EXCEPT !.stage = "backoff",
                                      !.lost = @ \cup AskedIn(<<Head(sessions[i].inbox)>>)])
        /\ Emit(i, <<FailedEvent(0), Load("Stale")>>)

TakeHandshake(i) ==
  /\ Takes(i, {"initialized"})
  /\ Head(sessions[i].inbox).gen = sessions[i].gen
  /\ IF Head(sessions[i].inbox).ok
     THEN Becomes(i, Ready(Rest(i))) /\ Emit(i, <<Load("Ready")>>)
     ELSE Becomes(i, [Rest(i) EXCEPT !.stage = "over", !.proc.alive = FALSE, !.inbox = <<>>])
          /\ Emit(i, <<FailedEvent(0)>>)

TakeAnswer(i) ==
  LET b == Head(sessions[i].inbox) IN
  /\ Takes(i, {"response"}) /\ b.gen = sessions[i].gen
  /\ Becomes(i, Settled(Rest(i), b.id))
  /\ Emit(i, AnswerEvents(sessions[i], b))

TakeDiagnostics(i) ==
  LET b == Head(sessions[i].inbox) IN
  /\ Takes(i, {"publish"}) /\ b.gen = sessions[i].gen
  /\ Becomes(i, Rest(i))
  /\ Emit(i, <<b.event>>)

TakeProgress(i) ==
  LET b == Head(sessions[i].inbox) IN
  /\ Takes(i, {"progress"}) /\ b.gen = sessions[i].gen
  /\ Becomes(i, [Rest(i) EXCEPT !.tr.progress = ProgressOf(sessions[i], b)])
  /\ Emit(i, ProgressEvents(sessions[i], b))

(* Bytes or the end of a process that was replaced.                           *)
TakeStale(i) ==
  /\ Takes(i, {"initialized", "response", "publish", "progress", "gone"})
  /\ Head(sessions[i].inbox).gen # sessions[i].gen
  /\ Becomes(i, Rest(i))
  /\ UNCHANGED events

TakeGone(i) ==
  /\ Takes(i, {"gone"}) /\ Head(sessions[i].inbox).gen = sessions[i].gen
  /\ Becomes(i, [Rest(i) EXCEPT !.stage = "backoff"])
  /\ Emit(i, <<Load("Stale")>>)

TakeShutdown(i) ==
  /\ Takes(i, {"shutdown"})
  /\ Becomes(i, [Rest(i) EXCEPT !.stage = "over", !.proc.alive = FALSE, !.inbox = <<>>])
  /\ UNCHANGED events

(* After the backoff: a new process with a translator that knows nothing, a   *)
(* launch that fails, or no attempt left.                                     *)
Relaunch(i) ==
  /\ sessions[i].stage = "backoff" /\ sessions[i].gen < MaxRestarts
  /\ \/ /\ Becomes(i, [sessions[i] EXCEPT !.gen = @ + 1, !.stage = "running",
                                          !.tr = NewTranslator, !.proc = NewProcess,
                                          !.lost = @ \cup sessions[i].tr.pending
                                                     \cup AskedIn(sessions[i].tr.queued)])
        /\ Emit(i, <<Load("Starting")>>)
     \/ /\ Becomes(i, [sessions[i] EXCEPT !.stage = "over", !.inbox = <<>>])
        /\ Emit(i, <<FailedEvent(0)>>)

GiveUp(i) ==
  /\ sessions[i].stage = "backoff" /\ sessions[i].gen = MaxRestarts
  /\ Becomes(i, [sessions[i] EXCEPT !.stage = "over", !.inbox = <<>>])
  /\ Emit(i, <<Load("Unavailable")>>)

(* --- the server process, external --- *)

Sends(i, b, p) ==
  /\ sessions[i].proc.alive /\ sessions[i].stage # "over"
  /\ sessions' = [sessions EXCEPT ![i].inbox = Append(@, b),
                                  ![i].proc = p]
  /\ UNCHANGED <<ed, current, events>>

Initializes(i) ==
  /\ ~sessions[i].proc.hello
  /\ \E ok \in BOOLEAN :
       /\ ok \/ budget["error"] > 0
       /\ budget' = IF ok THEN budget ELSE [budget EXCEPT !["error"] = @ - 1]
       /\ Sends(i, [t |-> "initialized", gen |-> sessions[i].gen, ok |-> ok],
                [sessions[i].proc EXCEPT !.hello = TRUE])

(* What the server makes of a request, from the documents as it holds them.   *)
AnswersTo(p, r) ==
  LET held == {d \in Docs : p.copy[d] # None}
      edit(ds, vs) == {[changes |-> f, versions |-> [d \in vs |-> p.seen[d]]] :
                         f \in {g \in [ds -> UNION {ChangesOf(t) : t \in Texts}] :
                                  \A d \in ds : /\ ~IsIdentity(g[d])
                                                /\ d \in held => g[d] \in ChangesOf(p.copy[d])
                                                /\ d \notin held => g[d].len = 0}}
  IN CASE r.kind = "formatting" -> IF r.doc \in held THEN edit({r.doc}, {}) ELSE {}
       [] r.kind = "rename" -> edit(Docs, held)
       [] OTHER -> {[changes |-> <<>>, versions |-> <<>>]}

Responds(i) ==
  \E r \in sessions[i].proc.owes :
    LET p == [sessions[i].proc EXCEPT !.owes = @ \ {r}] IN
    \/ /\ \E a \in AnswersTo(sessions[i].proc, r) :
            Sends(i, [t |-> "response", gen |-> sessions[i].gen, id |-> r.id, ok |-> TRUE,
                      event |-> [t |-> "answer", from |-> 0, id |-> r.id, kind |-> r.kind,
                                 changes |-> a.changes, versions |-> a.versions,
                                 base |-> sessions[i].proc.copy]], p)
       /\ UNCHANGED budget
    \/ /\ Spend("error")
       /\ Sends(i, [t |-> "response", gen |-> sessions[i].gen, id |-> r.id, ok |-> FALSE,
                      event |-> <<>>], p)

Publishes(i) ==
  /\ Spend("publish")
  /\ \E d \in Docs, versioned \in BOOLEAN :
       /\ sessions[i].proc.copy[d] # None
       /\ Sends(i, [t |-> "publish", gen |-> sessions[i].gen,
                    event |-> [t |-> "diagnostics", from |-> 0, doc |-> d,
                               version |-> IF versioned THEN sessions[i].proc.seen[d] ELSE 0,
                               text |-> sessions[i].proc.copy[d]]], sessions[i].proc)

(* Work that begins or goes on, or an end, of what had begun or not.          *)
Progresses(i) ==
  \E token \in {"scan", "index"} \cup Untracked, end \in BOOLEAN :
    /\ sessions[i].proc.hello
    /\ IF end /\ token \in sessions[i].proc.working THEN UNCHANGED budget ELSE Spend("progress")
    /\ Sends(i, [t |-> "progress", gen |-> sessions[i].gen, token |-> token, end |-> end],
             [sessions[i].proc EXCEPT
                !.working = IF end THEN @ \ {token} ELSE @ \cup {token},
                !.untold = end /\ token = "nameless"])

Dies(i) ==
  /\ sessions[i].stage = "running"
  /\ Spend("crash")
  /\ Sends(i, [t |-> "gone", gen |-> sessions[i].gen], [sessions[i].proc EXCEPT !.alive = FALSE, !.owes = {}])

MainThread ==
  \/ \E d \in Docs : \/ OpenFile(d) \/ RestoreFile(d) \/ FileLoaded(d) \/ FileFailed(d) \/ Reload(d)
                     \/ EditSynced(d) \/ EditUnsynced(d) \/ CloseTab(d)
                     \/ \E k \in Kinds : Request(k, d)
  \/ RestartServers
  \/ OnEvent

Supervisor(i) ==
  \/ TakeRequest(i) \/ TakeHandshake(i) \/ TakeAnswer(i) \/ TakeDiagnostics(i)
  \/ TakeProgress(i) \/ TakeStale(i) \/ TakeGone(i) \/ TakeShutdown(i)
  \/ Relaunch(i) \/ GiveUp(i)

Server(i) ==
  \/ Initializes(i) \/ Responds(i) \/ Publishes(i) \/ Progresses(i) \/ Dies(i)

Next == MainThread \/ \E i \in 1..MaxSessions : Supervisor(i) \/ Server(i)

Spec == Init /\ [][Next]_vars

----------------------------------------------------------------------------
(* Properties. The process of the current session is `first` while it has     *)
(* not been relaunched: a relaunched process is never told of the documents   *)
(* that were open, see RelaunchedServerHasTheDocuments.                       *)

OnItsWay(s) == s.tr.queued \o s.inbox

First(i) == i # 0 /\ sessions[i].gen = 0 /\ sessions[i].proc.alive
               /\ sessions[i].stage = "running"

(* sync_lsp_documents: once what is on its way has been read, the server      *)
(* holds exactly the open documents, each with the text and version that      *)
(* open_docs and synced_docs record, and is never sent a change for a         *)
(* document it does not hold, a range outside it or a version that does not   *)
(* increase; and that text is the buffer's unless edits are still queued.     *)
ServerFollowsTheBuffers ==
  First(current) =>
    LET p == FoldLeft(ServerReads, sessions[current].proc, OnItsWay(sessions[current]))
    IN /\ ~p.misled
       /\ \A d \in Docs :
            /\ p.copy[d] = IF ed.open[d] = 0 THEN None ELSE ed.synced[d]
            /\ ed.open[d] # 0 => p.seen[d] = ed.open[d]
            /\ ed.text[d] # None /\ ed.pend[d] = <<>> => p.copy[d] = ed.text[d]

(* on_lsp_event, apply_workspace_edit: a version number names one text. What  *)
(* the current session reports for a version the model still holds, or shows  *)
(* already, was computed from the text the model last sent. What comes late   *)
(* from a replaced session is not part of this, see                           *)
(* DiagnosticsAreOfTheCurrentServer.                                          *)
VersionNamesOneText ==
  /\ \A k \in DOMAIN events :
       LET e == events[k] IN
       /\ e.t = "diagnostics" /\ e.from = current /\ e.version # 0
            /\ e.version = ed.open[e.doc] => e.text = ed.synced[e.doc]
       /\ e.t = "answer" /\ e.from = current =>
            \A d \in DOMAIN e.versions :
              e.versions[d] = ed.open[d] => e.base[d] = ed.synced[d]
  /\ \A d \in Docs :
       ed.diag[d] # None =>
         (ed.diag[d].from = current /\ ed.diag[d].version # 0 =>
            ed.diag[d].version = ed.open[d] /\ ed.diag[d].text = ed.synced[d])

(* apply_workspace_edit: an edit that is held waits for at least one file,    *)
(* and a read of every file it waits for is under way, so it ends; except for *)
(* a file session restore asked for, whose failed read no one tells it of.    *)
HeldEditWillEnd ==
  ed.edit # None =>
    ed.edit.waiting # {} /\ ed.edit.waiting \subseteq ed.reads \cup ed.restored

(* ADR-0011: a read failure abandons the edit.                                *)
ReadFailureAbandonsTheEdit == ed.edit # None => ed.edit.waiting \subseteq ed.reads

(* docs/language-servers.md: claimed files are synchronised with a server     *)
(* that was relaunched after it exited: a ready process holds the documents   *)
(* the model lists as open at it.                                             *)
RelaunchedServerHasTheDocuments ==
  current # 0 =>
    LET s == sessions[current] IN
    s.stage = "running" /\ s.tr.ready /\ s.proc.alive /\ s.inbox = <<>> =>
      \A d \in Docs : ed.open[d] # 0 => s.proc.copy[d] # None

(* docs/language-servers.md: diagnostics from replaced processes are dropped. *)
DiagnosticsAreOfTheCurrentServer ==
  \A d \in Docs : ed.diag[d] # None => ed.diag[d].from = current

(* ADR-0011: an edit that is applied meets the text it was computed from.     *)
FormattingMeetsItsText ==
  events # <<>> /\ Head(events).t = "answer" =>
    LET e == Head(events) IN
    e.kind \in EditKinds /\ ed.active[e.kind] = e.id =>
      \A d \in DOMAIN e.changes :
        ed.text[d] # None /\ (e.kind = "rename" => d \in DOMAIN e.versions)
          /\ (\A x \in DOMAIN e.versions : e.versions[x] = ed.open[x])
          => e.base[d] = ed.text[d]

(* request_lsp_*, Translator::outgoing: while the supervisor of the current    *)
(* session runs, the request the model waits for has not been cancelled, and  *)
(* it is on its way to the server, at the server, or its answer is on its way *)
(* back; except for one that went down with the process that held it, which   *)
(* no one reports (`lost`, or pending at a process that is gone).             *)
LiveRequestIsUncancelled ==
  current # 0 /\ sessions[current].stage # "over" =>
    \A k \in Kinds :
      LET s == sessions[current]
          id == ed.active[k]
          sent == s.tr.queued \o s.inbox
          Is(w, t) == w.t = t /\ w.id = id
      IN id # 0 /\ id \notin s.lost =>
           /\ id \notin s.tr.cancelled
           /\ ~ \E n \in DOMAIN sent : Is(sent[n], "cancel")
           /\ \/ \E n \in DOMAIN sent :
                   Is(sent[n], "ask") \/ (Is(sent[n], "response") /\ sent[n].gen = s.gen)
              \/ \E r \in s.proc.owes : r.id = id
              \/ (~s.proc.alive /\ id \in s.tr.pending)
              \/ \E n \in DOMAIN events : Is(events[n], "answer") \/ Is(events[n], "failed")

(* progress_events: while no restart was asked for, the status says indexing  *)
(* only while the server works or news of it is on its way; except after the  *)
(* end of work without a token, which the code takes for more work.           *)
IndexingMeansWork ==
  ed.load = "Indexing" /\ current = 1 =>
    \/ sessions[1].proc.alive /\ (sessions[1].proc.working # {} \/ sessions[1].proc.untold)
    \/ \E n \in DOMAIN sessions[1].inbox : sessions[1].inbox[n].t \in {"progress", "gone"}
    \/ \E n \in DOMAIN events : events[n].t = "load" \/ events[n].t = "failed"
    \/ sessions[1].stage = "backoff"

(* Three things the developer is shown as under way, and what can still end   *)
(* each: an edit held until its files are read, an answer of the server,      *)
(* indexing (on_workspace_edit, request_lsp_*, progress_events). Each part    *)
(* names the cases in which the code leaves nothing to end it, a restored     *)
(* read that failed, a request lost with its process and the end of work      *)
(* without a token; nothing is said of a session that has returned.           *)
WaitsCanEnd == HeldEditWillEnd /\ LiveRequestIsUncancelled /\ IndexingMeansWork

(* Does not hold: a request still waited for was lost with its process, and   *)
(* only another of its kind or a restart takes it off the list.               *)
NoRequestIsLost ==
  current # 0 => \A k \in Kinds : ed.active[k] \notin sessions[current].lost \ {0}

=============================================================================
