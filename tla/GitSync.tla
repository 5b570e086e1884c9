------------------------------ MODULE GitSync ------------------------------
(* Git in the application: the snapshot and the overlays the model owns, at *)
(* most one refresh, one diff, one list of branches and one operation under *)
(* way, and the worker thread that runs them in the order they were asked.  *)
(* Files are numbered in path order; what the repository says of a file is  *)
(* one kind of status record; the terminal and other programs change files  *)
(* behind the application's back, and the watcher tells of it later.        *)
EXTENDS Integers, Sequences, SequencesExt, FiniteSetsExt, TLC

CONSTANTS
  Paths,        \* files, 1..n
  InitialRecords, \* what the repository may say of a file at the start
  MaxGitKeys,   \* bound: keys pressed
  MaxChanges    \* bound: changes made by other programs

VARIABLES
  repo,      \* the status record of each path, as Git would print it now
  told,      \* the watcher has nothing left to report
  changes,   \* changes made by other programs, for the bound
  git,       \* GitState of the model
  stack,     \* overlays, the last one on top
  status,    \* rows and cursor of the status overlay
  diff,      \* the diff overlay
  gitKeys,   \* keys pressed, for the bound
  gitAsked,  \* next_git_request_id
  gitQueue,  \* requests the worker has not finished, in order
  executed,  \* the operation at the head has been run, its snapshot has not
  gitEvents  \* events under way to the loop

modelVars == <<git, stack, status, diff, gitAsked>>
worldVars == <<repo, told, changes>>
gitWorkerVars == <<gitQueue, executed, gitEvents>>
gitVars == <<modelVars, worldVars, gitWorkerVars, gitKeys>>

NoSnapshot == <<>>

----------------------------------------------------------------------------
(* What Git prints, and the rows made of it.                                *)

\* The change kinds of a record's XY field: <<index, worktree>>.
Change(record) ==
  CASE record = "changed" -> <<"none", "modified">>
    [] record = "staged" -> <<"modified", "none">>
    [] record = "both" -> <<"modified", "modified">>
    [] record = "untracked" -> <<"none", "untracked">>
    [] record = "added" -> <<"added", "none">>
    [] record = "unmerged" -> <<"conflicted", "conflicted">>
ParseStatus(records) ==
  LET listed == SortSeq(SetToSeq({p \in Paths : records[p] # "clean"}), <)
  IN [i \in DOMAIN listed |-> [path |-> listed[i], index |-> Change(records[listed[i]])[1],
                               work |-> Change(records[listed[i]])[2]]]
Snapshot(records) == [files |-> ParseStatus(records)]

Groups == [conflicts |-> 1, staged |-> 2, changes |-> 3]
Row(group, f, target, kind) == [group |-> group, path |-> f.path, target |-> target, kind |-> kind]
RowsOfFile(f) ==
  IF "conflicted" \in {f.index, f.work}
  THEN <<Row(Groups.conflicts, f, "worktree", "conflicted")>>
  ELSE (IF f.index = "none" THEN <<>> ELSE <<Row(Groups.staged, f, "index", f.index)>>)
       \o (IF f.work = "none" THEN <<>> ELSE <<Row(Groups.changes, f, "worktree", f.work)>>)
RowBefore(a, b) == a.group < b.group \/ (a.group = b.group /\ a.path < b.path)
Rows(snapshot) ==
  SortSeq(FlattenSeq([i \in DOMAIN snapshot.files |-> RowsOfFile(snapshot.files[i])]), RowBefore)

Top == IF stack = <<>> THEN "none" ELSE Last(stack)
SelectedRows(s) == IF s.selected < Len(s.rows) THEN {s.rows[s.selected + 1]} ELSE {}
SameRow(a, b) == a.group = b.group /\ a.path = b.path

\* Rebuild the status overlay, the cursor on the row it was on.
Anchor(s, snapshot) ==
  LET rows == Rows(snapshot)
      kept == {i \in DOMAIN rows : \E r \in SelectedRows(s) : SameRow(rows[i], r)}
  IN [rows |-> rows,
      selected |-> IF kept # {} THEN Min(kept) - 1
                   ELSE Min({s.selected, IF rows = <<>> THEN 0 ELSE Len(rows) - 1})]
RefreshGitStatusOverlay(snapshot) ==
  status' = IF Top = "status" THEN Anchor(status, snapshot) ELSE status

----------------------------------------------------------------------------
(* Requests. gitAsked and the queue are changed by at most one per step,    *)
(* except where an answer and a new refresh fall together.                  *)

Ask(op, arg) ==
  /\ gitAsked' = gitAsked + 1
  /\ gitQueue' = Append(gitQueue, [id |-> gitAsked + 1, op |-> op, arg |-> arg])
AskNothing == UNCHANGED <<gitAsked, gitQueue>>

\* Mutant: a refresh asked for while one is running is taken to be the same.
RefreshOnce(g) ==
  IF g.refresh # 0 THEN git' = g /\ AskNothing
  ELSE /\ git' = [g EXCEPT !.refresh = gitAsked + 1, !.load = "loading"]
       /\ Ask("refresh", 0)
RequestGitRefresh(g) ==
  IF g.refresh # 0 THEN git' = [g EXCEPT !.pending = TRUE] /\ AskNothing
  ELSE /\ git' = [g EXCEPT !.refresh = gitAsked + 1, !.load = "loading"]
       /\ Ask("refresh", 0)
FinishGitRefresh(g) ==
  IF g.pending THEN RequestGitRefresh([g EXCEPT !.refresh = 0, !.pending = FALSE])
  ELSE git' = [g EXCEPT !.refresh = 0] /\ AskNothing

\* Only one operation runs at a time; another is refused with a notice.
QueueGitOperation(op, arg) ==
  IF git.operation # 0 THEN UNCHANGED git /\ AskNothing
  ELSE git' = [git EXCEPT !.operation = gitAsked + 1] /\ Ask(op, arg)

----------------------------------------------------------------------------
(* Commands and keys.                                                       *)

GitKey == gitKeys < MaxGitKeys /\ gitKeys' = gitKeys + 1
Quiet == UNCHANGED <<worldVars, executed, gitEvents>>

ShowGitStatus ==
  /\ Top = "none" /\ GitKey /\ Quiet
  /\ RequestGitRefresh(git)
  /\ IF git.snapshot = NoSnapshot THEN UNCHANGED <<stack, status>>
     ELSE /\ stack' = Append(stack, "status")
          /\ status' = [rows |-> Rows(git.snapshot), selected |-> 0]
  /\ UNCHANGED diff

MoveCursor(by) ==
  /\ Top = "status" /\ GitKey /\ Quiet
  /\ status.rows # <<>>
  /\ status' = [status EXCEPT !.selected = (@ + Len(status.rows) + by) % Len(status.rows)]
  /\ UNCHANGED <<git, stack, diff>> /\ AskNothing

CloseTop ==
  /\ Top # "none" /\ GitKey /\ Quiet
  /\ stack' = Front(stack)
  /\ UNCHANGED <<git, status, diff>> /\ AskNothing

OpenSelectedGitDiff ==
  /\ Top = "status" /\ GitKey /\ Quiet
  /\ git.diff = 0
  /\ \E r \in SelectedRows(status) :
       IF r.kind = "untracked"
       THEN /\ diff' = [path |-> r.path, target |-> r.target, state |-> "notice"]
            /\ UNCHANGED git /\ AskNothing
       ELSE /\ diff' = [path |-> r.path, target |-> r.target, state |-> "loading"]
            /\ git' = [git EXCEPT !.diff = gitAsked + 1]
            /\ Ask("diff", <<r.path, r.target>>)
  /\ stack' = Append(stack, "diff")
  /\ UNCHANGED status

StageSelectedGitRow ==
  /\ Top = "status" /\ GitKey /\ Quiet
  /\ IF SelectedRows(status) = {} THEN RequestGitRefresh(git)  \* show_git_status
     ELSE \E r \in SelectedRows(status) :
            r.target = "worktree" /\ QueueGitOperation("stage", r.path)
  /\ UNCHANGED <<stack, status, diff>>
UnstageSelectedGitRow ==
  /\ Top = "status" /\ GitKey /\ Quiet
  /\ \E r \in SelectedRows(status) : r.target = "index" /\ QueueGitOperation("unstage", r.path)
  /\ UNCHANGED <<stack, status, diff>>

PromptGitCommit ==
  /\ Top \in {"none", "status"} /\ GitKey /\ Quiet
  /\ git.snapshot # NoSnapshot /\ git.operation = 0
  /\ LET files == Range(git.snapshot.files)
     IN /\ \A f \in files : "conflicted" \notin {f.index, f.work}
        /\ \E f \in files : f.index # "none"
  /\ stack' = Append(stack, "commit")
  /\ UNCHANGED <<git, status, diff>> /\ AskNothing
ConfirmCommit ==
  /\ Top = "commit" /\ GitKey /\ Quiet
  /\ QueueGitOperation("commit", 0)
  /\ stack' = Front(stack)
  /\ UNCHANGED <<status, diff>>

RequestGitBranches ==
  /\ Top \in {"none", "status"} /\ GitKey /\ Quiet
  /\ git.branches = 0 /\ git.operation = 0
  /\ git' = [git EXCEPT !.branches = gitAsked + 1] /\ Ask("branches", 0)
  /\ UNCHANGED <<stack, status, diff>>
CheckoutSelected ==
  /\ Top = "branches" /\ GitKey /\ Quiet
  /\ QueueGitOperation("checkout", 0)
  /\ stack' = Front(stack)
  /\ UNCHANGED <<status, diff>>
\* Fetch, pull and push.
RemoteOperation ==
  /\ Top = "none" /\ GitKey /\ Quiet
  /\ QueueGitOperation("remote", 0)
  /\ UNCHANGED <<stack, status, diff>>

----------------------------------------------------------------------------
(* Other programs, the watcher, and the end of a process in the terminal.   *)

Edited(record) == CASE record = "clean" -> "changed" [] record = "staged" -> "both"
                    [] OTHER -> record
ChangeFile(p) ==
  /\ changes < MaxChanges /\ changes' = changes + 1
  /\ repo' = [repo EXCEPT ![p] = Edited(@)]
  /\ told' = FALSE
  /\ UNCHANGED <<modelVars, gitWorkerVars, gitKeys>>
CreateUntracked(p) ==
  /\ changes < MaxChanges /\ changes' = changes + 1
  /\ repo[p] = "clean"
  /\ repo' = [repo EXCEPT ![p] = "untracked"]
  /\ told' = FALSE
  /\ UNCHANGED <<modelVars, gitWorkerVars, gitKeys>>
OnChanged ==
  /\ ~told /\ told' = TRUE
  /\ RequestGitRefresh(git)
  /\ UNCHANGED <<stack, status, diff, repo, changes, gitKeys, executed, gitEvents>>

----------------------------------------------------------------------------
(* The worker.                                                              *)

CanExecute(op, arg, records) ==
  op = "commit" => /\ \A p \in Paths : records[p] # "unmerged"
                   /\ \E p \in Paths : records[p] \in {"staged", "both", "added"}
Execute(op, arg, records) ==
  LET staged == [changed |-> "staged", both |-> "staged", untracked |-> "added",
                 unmerged |-> "staged", clean |-> "clean", staged |-> "staged", added |-> "added"]
      unstaged == [staged |-> "changed", both |-> "changed", added |-> "untracked",
                   changed |-> "changed", untracked |-> "untracked", unmerged |-> "unmerged",
                   clean |-> "clean"]
      committed == [staged |-> "clean", added |-> "clean", both |-> "changed",
                    changed |-> "changed", untracked |-> "untracked", clean |-> "clean"]
  IN CASE op = "stage" -> [records EXCEPT ![arg] = staged[@]]
       [] op = "unstage" -> [records EXCEPT ![arg] = unstaged[@]]
       [] op = "commit" -> [p \in Paths |-> committed[records[p]]]
       [] OTHER -> records

Event(kind, id) == [kind |-> kind, id |-> id, applied |-> FALSE, data |-> NoSnapshot]
Serves(op) == gitQueue # <<>> /\ Head(gitQueue).op \in op /\ ~executed
Reply(e) ==
  /\ gitEvents' = Append(gitEvents, e)
  /\ gitQueue' = Tail(gitQueue)
  /\ UNCHANGED <<modelVars, told, changes, gitKeys>>
Operations == {"stage", "unstage", "commit", "checkout", "remote"}

ServeRefresh ==
  /\ Serves({"refresh"})
  /\ Reply([Event("snapshot", Head(gitQueue).id) EXCEPT !.data = Snapshot(repo)])
  /\ UNCHANGED <<repo, executed>>
ServeDiff ==
  /\ Serves({"diff"})
  /\ Reply([Event("diff", Head(gitQueue).id) EXCEPT !.data = Head(gitQueue).arg])
  /\ UNCHANGED <<repo, executed>>
ServeBranches ==
  /\ Serves({"branches"})
  /\ Reply(Event("branches", Head(gitQueue).id))
  /\ UNCHANGED <<repo, executed>>
\* Any command may fail: no repository, a lock, a hook, the network.
ServeFailure ==
  /\ Serves({"refresh", "diff", "branches"} \union Operations)
  /\ Reply(Event("failed", Head(gitQueue).id))
  /\ UNCHANGED <<repo, executed>>
ServeExecute ==
  /\ Serves(Operations)
  /\ CanExecute(Head(gitQueue).op, Head(gitQueue).arg, repo)
  /\ repo' = Execute(Head(gitQueue).op, Head(gitQueue).arg, repo)
  /\ executed' = TRUE
  /\ UNCHANGED <<modelVars, told, changes, gitKeys, gitQueue, gitEvents>>
\* After an operation the worker takes a snapshot for the same answer.
ServeSnapshot ==
  /\ executed /\ executed' = FALSE
  /\ Reply([Event("done", Head(gitQueue).id) EXCEPT !.data = Snapshot(repo)])
  /\ UNCHANGED repo
ServeSnapshotFailure ==
  /\ executed /\ executed' = FALSE
  /\ Reply([Event("failed", Head(gitQueue).id) EXCEPT !.applied = TRUE])
  /\ UNCHANGED repo

----------------------------------------------------------------------------
(* Answers.                                                                 *)

Took == /\ gitEvents' = Tail(gitEvents)
        /\ UNCHANGED <<worldVars, executed, gitKeys>>
OnGit(kind) == gitEvents # <<>> /\ Head(gitEvents).kind = kind /\ Took

OnSnapshotLoaded ==
  /\ OnGit("snapshot")
  /\ LET e == Head(gitEvents)
     IN IF git.refresh # e.id THEN UNCHANGED <<git, status>> /\ AskNothing
        ELSE /\ RefreshGitStatusOverlay(e.data)
             /\ FinishGitRefresh([git EXCEPT !.snapshot = e.data, !.load = "ready"])
  /\ UNCHANGED <<stack, diff>>

OnDiffLoaded ==
  /\ OnGit("diff")
  /\ LET e == Head(gitEvents)
     IN IF git.diff # e.id THEN UNCHANGED <<git, diff>>
        ELSE /\ git' = [git EXCEPT !.diff = 0]
             /\ diff' = IF Top = "diff" /\ <<diff.path, diff.target>> = e.data
                        THEN [diff EXCEPT !.state = "text"] ELSE diff
  /\ UNCHANGED <<stack, status>> /\ AskNothing

\* A repository has branches once it has a commit; without one there is a notice.
OnBranchesLoaded ==
  /\ OnGit("branches")
  /\ IF git.branches # Head(gitEvents).id THEN UNCHANGED <<git, stack>>
     ELSE /\ git' = [git EXCEPT !.branches = 0]
          /\ stack' \in {stack, Append(stack, "branches")}
  /\ UNCHANGED <<status, diff>> /\ AskNothing

OnOperationFinished ==
  /\ OnGit("done")
  /\ LET e == Head(gitEvents)
     IN IF git.operation # e.id THEN UNCHANGED <<git, status>>
        ELSE /\ RefreshGitStatusOverlay(e.data)
             /\ git' = [git EXCEPT !.operation = 0, !.snapshot = e.data, !.load = "ready"]
  /\ UNCHANGED <<stack, diff>> /\ AskNothing

Failed(e) ==
  CASE git.refresh = e.id ->
         /\ \E gone \in BOOLEAN :  \* not a repository any more
              FinishGitRefresh([git EXCEPT !.load =
                IF git.snapshot # NoSnapshot /\ ~gone THEN "stale" ELSE "unavailable"])
         /\ UNCHANGED diff
    [] git.diff = e.id ->
         /\ git' = [git EXCEPT !.diff = 0]
         /\ diff' = IF Top = "diff" THEN [diff EXCEPT !.state = "error"] ELSE diff
         /\ AskNothing
    [] git.branches = e.id ->
         git' = [git EXCEPT !.branches = 0] /\ UNCHANGED diff /\ AskNothing
    [] git.operation = e.id ->
         /\ git' = [git EXCEPT !.operation = 0,
                               !.load = IF ~e.applied THEN @
                                        ELSE IF git.snapshot # NoSnapshot THEN "stale"
                                        ELSE "unavailable"]
         /\ UNCHANGED diff /\ AskNothing
    [] OTHER -> UNCHANGED <<git, diff>> /\ AskNothing
OnGitFailed == OnGit("failed") /\ Failed(Head(gitEvents)) /\ UNCHANGED <<stack, status>>

----------------------------------------------------------------------------
GitInit ==
  /\ repo \in [Paths -> InitialRecords] /\ told = TRUE /\ changes = 0
  \* open_workspace asks for the first snapshot
  /\ git = [load |-> "loading", snapshot |-> NoSnapshot, refresh |-> 1, diff |-> 0,
            branches |-> 0, operation |-> 0, pending |-> FALSE]
  /\ gitAsked = 1 /\ gitQueue = <<[id |-> 1, op |-> "refresh", arg |-> 0]>>
  /\ stack = <<>> /\ status = [rows |-> <<>>, selected |-> 0]
  /\ diff = [path |-> 0, target |-> "worktree", state |-> "notice"]
  /\ gitKeys = 0 /\ executed = FALSE /\ gitEvents = <<>>

GitNext ==
  \/ ShowGitStatus \/ MoveCursor(1) \/ MoveCursor(-1) \/ CloseTop \/ OpenSelectedGitDiff
  \/ StageSelectedGitRow \/ UnstageSelectedGitRow \/ PromptGitCommit \/ ConfirmCommit
  \/ RequestGitBranches \/ CheckoutSelected \/ RemoteOperation
  \/ \E p \in Paths : ChangeFile(p) \/ CreateUntracked(p)
  \/ OnChanged
  \/ ServeRefresh \/ ServeDiff \/ ServeBranches \/ ServeFailure \/ ServeExecute
  \/ ServeSnapshot \/ ServeSnapshotFailure
  \/ OnSnapshotLoaded \/ OnDiffLoaded \/ OnBranchesLoaded \/ OnOperationFinished \/ OnGitFailed

----------------------------------------------------------------------------
(* Properties.                                                              *)

GitIdle == told /\ gitQueue = <<>> /\ gitEvents = <<>>

\* Once everything asked has been answered, a view that says it is ready shows the
\* repository as it is: a change reported while a refresh was running is not lost
\* (pending_refresh), an operation's own snapshot is not older than what it did,
\* and a snapshot that could not be taken leaves the view marked (Stale).
ReadyGitViewIsCurrent ==
  (GitIdle /\ git.load = "ready") => git.snapshot = Snapshot(repo)

\* Nothing asked of Git waits for ever: every request the model holds as active is
\* with the worker or on its way back, so that a guard of the kind "a Git operation
\* is already running" always clears.
ActiveGitIsUnderWay ==
  LET underWay == {r.id : r \in Range(gitQueue)} \union {e.id : e \in Range(gitEvents)}
  IN /\ {git.refresh, git.diff, git.branches, git.operation} \ {0} \subseteq underWay
     /\ git.pending => git.refresh # 0

\* "The cached snapshot opens immediately; the result re-anchors the overlay when
\* it lands" (model.rs, show_git_status): the list of changes shows the snapshot.
ListShowsTheSnapshot ==
  (Top = "status" /\ git.load = "ready") => status.rows = Rows(git.snapshot)

\* What Git is shown to be is the repository as it is, once nothing is under way,
\* and what is under way comes to an end (on_git_event, finish_git_refresh).
GitViewsAreCurrent == ReadyGitViewIsCurrent /\ ActiveGitIsUnderWay

============================================================================
