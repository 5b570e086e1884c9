------------------------------ MODULE Startup ------------------------------
(* What the editor keeps between two runs, and how a run begins and ends:   *)
(* the command line, the stored session, root detection, the restore of     *)
(* tabs, recovery drafts, the command grants, and the clean exit            *)
(* (crates/app/src/main.rs, crates/app/src/model.rs,                        *)
(* crates/workspace/src/{session,root,drafts,permissions}.rs).              *)
(* A buffer is known by its file: open_file never reads a file twice at a   *)
(* time, so a path names at most one read in flight.                        *)
EXTENDS Naturals, Sequences, FiniteSets, SequencesExt, Permissions

CONSTANTS
  Dirs,         \* directories
  Up,           \* [Dirs -> Seq(Dirs)]: Path::ancestors, the directory first
  Where,        \* [Dirs -> paths], as the grants see them
  FileOrder,    \* the files, in path order
  Home,         \* [files -> Dirs]
  NoPath,
  ArgLists,     \* command lines
  Specs,        \* commands a user may allow for good
  MaxRecent,    \* session.rs MAX_RECENT
  MaxLaunches,  \* bound: runs of the editor
  MaxActs       \* bound: steps of the user and of other programs

ASSUME StartupAssumption ==
  /\ MaxRecent \in Nat \ {0} /\ MaxLaunches \in Nat /\ MaxActs \in Nat
  /\ NoPath \notin Dirs
  /\ \A d \in Dirs : Len(Up[d]) > 0 /\ Up[d][1] = d

TheFiles == {FileOrder[i] : i \in DOMAIN FileOrder}

VARIABLES
  saved,     \* on disk: session file, drafts, files, directories, markers, grants
  phase,     \* where the process is
  session,   \* the Session value of this run
  app,       \* the model's part of the state
  toWorker,  \* requests the filesystem worker has not served
  answers,   \* its events, not yet handled
  watched,   \* the root the worker watches and takes its ignore rules from
  trail      \* the checkpoint a restore is measured by, and the bounds
startupVars == <<saved, phase, session, app, toWorker, answers, watched, trail>>

-----------------------------------------------------------------------------
(* Command line. *)
Flags == {"--dump-frame", "--open", "--trace", "--probe-only", "--help", "--demo"}
TakeArg(cli, a) ==
  CASE cli.next = "palette" /\ a = "palette" -> [cli EXCEPT !.next = "query"]
    [] cli.next \in {"query", "value"} /\ a \notin Flags -> [cli EXCEPT !.next = "any"]
    [] a = "--dump-frame" -> [cli EXCEPT !.mode = "frame", !.next = "palette"]
    [] a \in {"--open", "--trace"} -> [cli EXCEPT !.next = "value"]
    [] a \in {"--probe-only", "--help"} -> [cli EXCEPT !.mode = a, !.next = "any"]
    [] a = "--demo" -> [cli EXCEPT !.next = "any"]
    [] cli.path = NoPath -> [cli EXCEPT !.path = a, !.next = "any"]
    [] OTHER -> [cli EXCEPT !.next = "any"]
ParseArgs(args) == FoldLeft(TakeArg, [path |-> NoPath, mode |-> "run", next |-> "any"], args)

-----------------------------------------------------------------------------
(* The stored session. *)
NoWorkspace == [root |-> NoPath, open |-> <<>>, active |-> NoPath, pct |-> 22,
                terminals |-> 0, newer |-> FALSE]
DefaultSession == [recent |-> <<>>, workspace |-> NoWorkspace]
SessionFile(kind, s) == [kind |-> kind, session |-> s]
\* A missing, empty or damaged file is the default session; an empty one says
\* nothing about it.
ParseSession(file) == IF file.kind = "ok" THEN file.session ELSE DefaultSession

Record(s, root) ==
  LET others == SelectSeq(s.recent, LAMBDA d : d # root)
      list == <<root>> \o others
  IN  [s EXCEPT !.recent = SubSeq(list, 1, IF Len(list) > MaxRecent THEN MaxRecent ELSE Len(list))]
PruneMissing(s) ==
  [recent |-> SelectSeq(s.recent, LAMBDA d : d \in saved.dirs),
   workspace |-> IF s.workspace.root \in saved.dirs THEN s.workspace ELSE NoWorkspace]
LastRoot(s) == IF s.recent = <<>> THEN NoPath ELSE s.recent[1]

\* The nearest ancestor with a marker; an unreadable one ends the climb.
DetectRoot(start) ==
  LET up == Up[start]
      marked == {i \in DOMAIN up : up[i] \in saved.marked /\ \A j \in 1..i : up[j] \in saved.dirs}
  IN  IF marked = {} THEN start ELSE up[CHOOSE i \in marked : \A j \in marked : i <= j]
Under(f, root) == \E i \in DOMAIN Up[Home[f]] : Up[Home[f]][i] = root

-----------------------------------------------------------------------------
(* Opening files and answering their reads. *)
Ask(kind, path) == [kind |-> kind, path |-> path]
InTabs(a, f) == \E i \in DOMAIN a.tabs : a.tabs[i] = f
Position(s, f) == CHOOSE i \in DOMAIN s : s[i] = f

OpenPath(a, f) ==
  CASE InTabs(a, f) -> [a EXCEPT !.active = Position(a.tabs, f)]
    [] f \in a.opening -> a
    [] OTHER -> [a EXCEPT !.opening = @ \cup {f}, !.outbox = Append(@, Ask("read", f))]

NoRestore == [order |-> <<>>, active |-> NoPath, pending |-> {}]
RestoredOrder(tabs, order) ==
  SelectSeq(order, LAMBDA f : \E i \in DOMAIN tabs : tabs[i] = f)
    \o SelectSeq(tabs, LAMBDA f : ~\E i \in DOMAIN order : order[i] = f)
\* Mutant: the tab read last is the one shown, whatever was active.
FinishShowingTheLast(a, f) ==
  [a EXCEPT !.tabs = RestoredOrder(@, a.restore.order), !.active = Len(a.tabs),
            !.restore = IF @.pending = {f} THEN NoRestore ELSE [@ EXCEPT !.pending = @ \ {f}]]
FinishRestoredRead(a, f) ==
  LET tabs == RestoredOrder(a.tabs, a.restore.order)
      left == a.restore.pending \ {f}
      shown == a.restore.active
  IN  [a EXCEPT !.tabs = tabs,
                !.active = IF \E i \in DOMAIN tabs : tabs[i] = shown
                           THEN Position(tabs, shown) ELSE Len(tabs),
                !.restore = IF left = {} THEN NoRestore ELSE [@ EXCEPT !.pending = left]]

FileLoaded(a, f) ==
  LET b == [a EXCEPT !.opening = @ \ {f}, !.tabs = Append(@, f)]
  IN  IF f \in a.restore.pending THEN FinishRestoredRead(b, f)
      ELSE [b EXCEPT !.active = Len(b.tabs)]
\* Mutant: a restored read that fails is reported and forgotten.
FileFailedQuietly(a, f) == [a EXCEPT !.opening = @ \ {f}]
FileFailed(a, f) ==
  LET b == [a EXCEPT !.opening = @ \ {f}]
  IN  IF f \in a.restore.pending THEN FinishRestoredRead(b, f) ELSE b
Answered(a, f) == IF f \in saved.files THEN FileLoaded(a, f) ELSE FileFailed(a, f)

\* settle_fs_sync: every queued request, on this thread; Watch is dropped.
ServeNow(a, r) ==
  CASE r.kind = "read" -> Answered(a, r.path)
    [] r.kind = "list" -> [a EXCEPT !.listed = "filtered"]
    [] OTHER -> a
SettleSync(a) == FoldLeft(ServeNow, [a EXCEPT !.outbox = <<>>], a.outbox)
OpenPathSync(a, f) == SettleSync(OpenPath(a, f))

\* Watch is queued before the first listing.
OpenWorkspace(a, root) ==
  [a EXCEPT !.root = root, !.outbox = @ \o <<Ask("watch", root), Ask("list", root)>>]

Clamp(n) == IF n < 10 THEN 10 ELSE IF n > 45 THEN 45 ELSE n
RestoreSession(a, w) ==
  IF w.root = NoPath THEN a
  ELSE LET b == [OpenWorkspace(a, DetectRoot(w.root)) EXCEPT !.pct = Clamp(w.pct)]
           c == FoldLeft(OpenPath, b, w.open)
           inFlight == {f \in c.opening : \E i \in DOMAIN w.open : w.open[i] = f}
       IN  [c EXCEPT !.restore = IF inFlight = {} THEN NoRestore
                                 ELSE [order |-> w.open, active |-> w.active, pending |-> inFlight],
                     !.terminals = w.terminals]

ActiveFile(a) == IF a.active = 0 THEN NoPath ELSE a.tabs[a.active]
\* Fields a newer build wrote stay with the workspace while its root stays.
PersistSession(a, s) ==
  IF a.root = NoPath THEN s
  ELSE [Record(s, a.root) EXCEPT
          !.workspace = [root |-> a.root, open |-> a.tabs, active |-> ActiveFile(a),
                         pct |-> a.pct, terminals |-> a.terminals,
                         newer |-> s.workspace.root = a.root /\ s.workspace.newer]]

-----------------------------------------------------------------------------
(* Drafts. *)
ReapDrafts(drafts) == [f \in TheFiles |-> IF drafts[f] = "old" THEN "none" ELSE drafts[f]]
\* A draft that does not parse is skipped, one of another root ignored.
DraftsFor(drafts, root) ==
  SelectSeq(FileOrder, LAMBDA f : drafts[f] = "fresh" /\ Under(f, root))
OpenDraft(a, f) == IF InTabs(a, f) THEN a ELSE OpenPathSync(a, f)

-----------------------------------------------------------------------------
FreshApp == [root |-> NoPath, tabs |-> <<>>, active |-> 0, opening |-> {}, pct |-> 22,
             restore |-> NoRestore, terminals |-> 0, outbox |-> <<>>, listed |-> "no",
             recovery |-> <<>>, grants |-> {}, dirty |-> FALSE]
StartupInit ==
  /\ saved = [session |-> SessionFile("absent", DefaultSession),
              drafts |-> [f \in TheFiles |-> "none"], files |-> TheFiles,
              dirs |-> Dirs, marked |-> {d \in Dirs : Len(Up[d]) = 2},
              policy |-> [d \in Dirs |-> NoPolicyFile]]
  /\ phase = "down" /\ session = DefaultSession /\ app = FreshApp
  /\ toWorker = <<>> /\ answers = <<>> /\ watched = NoPath
  /\ trail = [root |-> NoPath, open |-> <<>>, active |-> NoPath, touched |-> TRUE,
              allowed |-> {}, kept |-> {}, foreign |-> FALSE, plain |-> FALSE,
              launches |-> 0, acts |-> 0]

\* main, run: load, open or restore; an explicit path is recorded at once.
Launch(args) ==
  LET cli == ParseArgs(args)
      loaded == PruneMissing(ParseSession(saved.session))
      target == CASE cli.path # NoPath -> cli.path
                  [] loaded.workspace.root # NoPath -> loaded.workspace.root
                  [] OTHER -> LastRoot(loaded)
      root == DetectRoot(target)
      policy == LoadPolicy(Where[root], saved.policy[root])
      explicit == cli.path # NoPath
      restoring == ~explicit /\ loaded.workspace.root = root
      opened == IF target = NoPath THEN FreshApp
                ELSE [IF restoring THEN RestoreSession(FreshApp, loaded.workspace)
                      ELSE OpenWorkspace(FreshApp, root) EXCEPT !.grants = policy.grants]
  IN  /\ phase = "down" /\ trail.launches < MaxLaunches /\ cli.mode = "run"
      /\ app' = opened
      /\ session' = IF explicit THEN PersistSession(opened, loaded) ELSE loaded
      /\ phase' = IF explicit THEN "remove" ELSE "drafts"
      /\ trail' = [trail EXCEPT !.launches = @ + 1, !.touched = @ \/ explicit,
                                !.allowed = {k[2] : k \in {k \in trail.kept :
                                                        target # NoPath /\ k[1] = root}}]
      /\ toWorker' = <<>> /\ answers' = <<>> /\ watched' = NoPath
      /\ UNCHANGED saved

\* FileSessionStore::save: the old file goes, an empty one comes, then its text.
SaveSession ==
  /\ phase \in {"remove", "create", "write", "quit remove", "quit create", "quit write"}
  /\ saved' = [saved EXCEPT !.session =
       CASE phase \in {"remove", "quit remove"} -> SessionFile("absent", DefaultSession)
         [] phase \in {"create", "quit create"} -> SessionFile("empty", DefaultSession)
         [] OTHER -> SessionFile("ok", session)]
  /\ phase' = CASE phase = "remove" -> "create" [] phase = "create" -> "write"
                [] phase = "write" -> "drafts" [] phase = "quit remove" -> "quit create"
                [] phase = "quit create" -> "quit write" [] OTHER -> "grants"
  /\ trail' = IF phase = "quit write" /\ app.root # NoPath
              THEN LET open == SelectSeq(app.tabs, LAMBDA f : f \in saved.files)
                   IN  [trail EXCEPT !.root = app.root, !.open = open, !.touched = FALSE,
                          !.active = CASE ActiveFile(app) \in saved.files -> ActiveFile(app)
                                       [] open = <<>> -> NoPath
                                       [] OTHER -> Last(open)]
              ELSE trail
  /\ UNCHANGED <<session, app, toWorker, answers, watched>>

RestoreDrafts ==
  LET drafts == ReapDrafts(saved.drafts)
      offered == DraftsFor(drafts, app.root)
  IN  /\ phase = "drafts" /\ phase' = "running"
      /\ IF app.root = NoPath THEN UNCHANGED <<saved, app, trail>>
         ELSE /\ saved' = [saved EXCEPT !.drafts = drafts]
              /\ app' = [FoldLeft(OpenDraft, app, offered) EXCEPT !.recovery = offered]
              /\ trail' = [trail EXCEPT !.touched =
                             @ \/ \E i \in DOMAIN offered :
                                    ~\E j \in DOMAIN trail.open : trail.open[j] = offered[i]]
      /\ UNCHANGED <<session, toWorker, answers, watched>>

-----------------------------------------------------------------------------
(* The loop and the worker. *)
Forward ==
  /\ phase = "running" /\ app.outbox # <<>>
  /\ toWorker' = toWorker \o app.outbox /\ app' = [app EXCEPT !.outbox = <<>>]
  /\ UNCHANGED <<saved, phase, session, answers, watched, trail>>

WorkerServes ==
  /\ toWorker # <<>> /\ toWorker' = Tail(toWorker)
  /\ LET r == Head(toWorker) IN
       /\ watched' = IF r.kind = "watch" THEN r.path ELSE watched
       /\ saved' = CASE r.kind = "draft" -> [saved EXCEPT !.drafts[r.path] = "fresh"]
                     [] r.kind = "drop draft" -> [saved EXCEPT !.drafts[r.path] = "none"]
                     [] OTHER -> saved
       /\ answers' = CASE r.kind = "read" ->
                            Append(answers, Ask(IF r.path \in saved.files THEN "loaded" ELSE "failed", r.path))
                       [] r.kind = "list" ->
                            Append(answers, Ask(IF watched = NoPath THEN "plain" ELSE "filtered", r.path))
                       [] OTHER -> answers
       /\ trail' = [trail EXCEPT !.plain = @ \/ (r.kind = "list" /\ watched = NoPath)]
  /\ UNCHANGED <<phase, session, app>>

OnFsAnswer ==
  /\ phase = "running" /\ app.outbox = <<>> /\ answers # <<>> /\ answers' = Tail(answers)
  /\ LET e == Head(answers) IN
       app' = CASE e.kind = "loaded" -> FileLoaded(app, e.path)
                [] e.kind = "failed" -> FileFailed(app, e.path)
                [] OTHER -> [app EXCEPT !.listed = e.kind]
  /\ UNCHANGED <<saved, phase, session, toWorker, watched, trail>>

-----------------------------------------------------------------------------
(* The user, other programs, and the end of a run. *)
Act(t) == [t EXCEPT !.acts = @ + 1, !.touched = TRUE]
UserMay == phase = "running" /\ app.outbox = <<>> /\ app.recovery = <<>> /\ trail.acts < MaxActs
User(a) == app' = a /\ trail' = Act(trail) /\ UNCHANGED <<saved, phase, session, toWorker, answers, watched>>

UserOpens(f) == UserMay /\ app.root # NoPath /\ Under(f, app.root) /\ User(OpenPath(app, f))
CycleTab == UserMay /\ Len(app.tabs) > 1 /\ User([app EXCEPT !.active = IF @ = Len(app.tabs) THEN 1 ELSE @ + 1])
CloseShown ==
  /\ UserMay /\ app.active > 0
  /\ LET tabs == RemoveAt(app.tabs, app.active)
         left == IF app.active > 1 THEN app.active - 1 ELSE 1
     IN  User([app EXCEPT !.tabs = tabs, !.active = IF tabs = <<>> THEN 0 ELSE left])
Types == UserMay /\ app.active > 0 /\ User([app EXCEPT !.outbox = Append(@, Ask("draft", ActiveFile(app)))])
ExpandDirectory == UserMay /\ app.root # NoPath /\ User([app EXCEPT !.outbox = Append(@, Ask("list", app.root))])
OpenShell == UserMay /\ app.terminals = 0 /\ User([app EXCEPT !.terminals = 1])
AlwaysAllow(s) ==
  /\ UserMay /\ app.root # NoPath /\ FromSpec(Where[app.root], s) # NoGrant
  /\ app' = [app EXCEPT !.grants = Remember(@, Where[app.root], s), !.dirty = TRUE]
  /\ trail' = [Act(trail) EXCEPT !.allowed = @ \cup {s}]
  /\ UNCHANGED <<saved, phase, session, toWorker, answers, watched>>

\* Esc, accept and discard; only the last asks for the drafts' removal.
AnswerRecovery(discard) ==
  /\ phase = "running" /\ app.outbox = <<>> /\ app.recovery # <<>>
  /\ app' = [app EXCEPT !.recovery = <<>>,
               !.outbox = IF discard THEN [i \in DOMAIN app.recovery |-> Ask("drop draft", app.recovery[i])]
                          ELSE @]
  /\ UNCHANGED <<saved, phase, session, toWorker, answers, watched, trail>>

\* Another program: a file or a marker goes, a draft ages, the policy is edited.
Others ==
  /\ trail.acts < MaxActs
  /\ \/ \E f \in saved.files : saved' = [saved EXCEPT !.files = @ \ {f}] /\ trail' = Act(trail)
     \/ \E d \in saved.marked : saved' = [saved EXCEPT !.marked = @ \ {d}] /\ trail' = Act(trail)
     \/ \E f \in TheFiles : saved.drafts[f] = "fresh" /\ phase = "down"
          /\ saved' = [saved EXCEPT !.drafts[f] = "old"] /\ trail' = Act(trail)
     \/ \E d \in Dirs : ~trail.foreign /\ saved.policy[d].kind = "commands"
          /\ saved' = [saved EXCEPT !.policy[d].bad = TRUE]
          /\ trail' = [Act(trail) EXCEPT !.foreign = TRUE]
  /\ UNCHANGED <<phase, session, app, toWorker, answers, watched>>

Quit ==
  /\ phase = "running" /\ app.outbox = <<>> /\ app.recovery = <<>>
  /\ session' = PersistSession(app, session) /\ phase' = "quit remove"
  /\ UNCHANGED <<saved, app, toWorker, answers, watched, trail>>

\* Grants are written once, at a clean exit; the worker's toWorker is served
\* before its thread is joined.
SaveGrants ==
  /\ phase = "grants" /\ toWorker = <<>> /\ phase' = "down"
  /\ LET writes == app.dirty /\ app.root # NoPath IN
       /\ saved' = IF writes THEN [saved EXCEPT !.policy[app.root] = SavePolicy(@, app.grants)] ELSE saved
       /\ trail' = IF writes THEN [trail EXCEPT !.kept = {k \in @ : k[1] # app.root}
                                                            \cup ({app.root} \X trail.allowed)]
                   ELSE trail
  /\ UNCHANGED <<session, app, toWorker, answers, watched>>

\* The process dies: a write under way leaves a damaged file.
Killed ==
  /\ phase # "down" /\ phase' = "down" /\ toWorker' = <<>> /\ trail.acts < MaxActs
  /\ saved' \in {saved}
       \cup {[saved EXCEPT !.session = SessionFile("damaged", DefaultSession)] :
               x \in {p \in {phase} : p \in {"write", "quit write"}}}
       \cup {[saved EXCEPT !.drafts[r.path] = "torn"] :
               r \in {r \in {toWorker[i] : i \in DOMAIN toWorker \cap {1}} : r.kind = "draft"}}
  /\ trail' = Act(trail)
  /\ UNCHANGED <<session, app, answers, watched>>

StartupNext ==
  \/ \E args \in ArgLists : Launch(args)
  \/ SaveSession \/ RestoreDrafts \/ Forward \/ WorkerServes \/ OnFsAnswer
  \/ \E f \in TheFiles : UserOpens(f)
  \/ CycleTab \/ CloseShown \/ Types \/ ExpandDirectory \/ OpenShell
  \/ \E s \in Specs : AlwaysAllow(s)
  \/ \E d \in BOOLEAN : AnswerRecovery(d)
  \/ Others \/ Quit \/ SaveGrants \/ Killed

-----------------------------------------------------------------------------
(* Properties. *)
Settled == phase = "running" /\ app.outbox = <<>> /\ toWorker = <<>> /\ answers = <<>>

\* A start without a path, after a clean exit and with nothing done since,
\* ends with the tabs of that exit that can still be read, in their order, and
\* with the same one shown or, without its file, the last one:
\* restore_session, finish_restored_read and restore_drafts together.
RestoreIsFaithful ==
  (Settled /\ ~trail.touched /\ trail.root # NoPath) =>
     /\ app.root = trail.root /\ app.tabs = trail.open
     /\ ActiveFile(app) = trail.active

\* The commands that need no question are exactly the ones allowed for good
\* in this workspace, in this run or in one that exited cleanly: the same
\* program and arguments, in the same directory, without an environment; unless
\* the file of grants was written by someone else or is malformed.
SameDirectory(p, q) == CleanAbsolute(p).ok /\ CleanAbsolute(p) = CleanAbsolute(q)
GrantsAreExact ==
  (phase = "running" /\ app.root # NoPath /\ ~trail.foreign) =>
     \A s \in Specs :
        Permits(app.grants, Where[app.root], s) <=>
          \E t \in trail.allowed : /\ t.program = s.program /\ t.args = s.args
                                   /\ s.env = {} /\ SameDirectory(t.cwd, s.cwd)

\* "Unreachable in practice": the worker never lists a directory before it
\* has been told the root.
ListingsAreFiltered == ~trail.plain

\* A restore that is under way can end: each file it waits for has a read
\* queued, being served or answered (finish_restored_read runs for failures).
RestoreIsUnderWay ==
  phase = "running" => \A f \in app.restore.pending :
     \/ \E i \in DOMAIN app.outbox : app.outbox[i] = Ask("read", f)
     \/ \E i \in DOMAIN toWorker : toWorker[i] = Ask("read", f)
     \/ \E i \in DOMAIN answers : answers[i].path = f /\ answers[i].kind \in {"loaded", "failed"}

\* While the recovery question is shown, the file of each draft it offers is
\* open or could not be read: accepting restores every one of them.
RecoveryShowsOpenFiles ==
  phase = "running" => \A i \in DOMAIN app.recovery :
     InTabs(app, app.recovery[i]) \/ app.recovery[i] \notin saved.files

\* A session comes back as it was left: the files that could be read, in their
\* order, with the shown one in front; and a restore that is under way ends, with
\* the drafts it offers beside their files (restore_session, finish_restored_read).
SessionComesBack == RestoreIsFaithful /\ RestoreIsUnderWay /\ RecoveryShowsOpenFiles

============================================================================
