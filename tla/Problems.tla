------------------------------ MODULE Problems ------------------------------
(* The problem list (crates/app/src/model.rs, task_state.rs): what task     *)
(* runs and language servers report, merged into the rows the human walks   *)
(* with F8, and the way from a row to its place in the editor: the path is  *)
(* resolved and the file read by the worker, which answers in order while   *)
(* the human goes on.  Paths and messages are numbers in their order; a     *)
(* column is not cut to the length of its line.                             *)
EXTENDS Integers, Sequences, FiniteSetsExt, SequencesExt, Functions

CONSTANTS
  TaskReports,    \* [path, line, column, message, severity]: what a task may find
  Publications,   \* the lists of reports a server may publish of a path, the
                  \* severity from 0, an error, to 3, a hint
  Reach,          \* of a path: "text" or "binary" inside the workspace, "outside",
                  \* "gone", or "escapes" when it is written with a ".."
  FileLines,      \* lines of the file at a path
  MaxNews, MaxWalks   \* bounds: arrivals of reports, navigations

VARIABLES
  taskRuns,        \* the problems of each run, the oldest first
  diagnostics,     \* [path -> what its server last published]
  problemCursor,   \* index of the row F8 is at, from 0
  listed,          \* the rows of the open overlay, <<>> when it is closed
  going,           \* pending_problem_navigation: [request, row]
  errands,         \* what the worker has been asked and not answered
  editor,          \* the open files and where their cursors are
  walks,           \* navigations so far: the id of the last one
  wanted,          \* the row the human last asked for
  news             \* arrivals of reports so far
problemVars == <<taskRuns, diagnostics, news, problemCursor, listed, going, errands, editor, walks, wanted>>
sourceVars == <<taskRuns, diagnostics, news>>
wayVars == <<going, errands, editor, walks, wanted>>

NoRow == -1
NoReport == [path |-> 0, line |-> 0, column |-> 0, message |-> 0, severity |-> 0, origin |-> "none"]
NotGoing == [request |-> 0, row |-> NoReport]
NoSpot == <<0, 0, 0>>

-----------------------------------------------------------------------------
(* The rows.  Two reports of one line with one message are one row; what a  *)
(* server says now replaces what a build said.                              *)
RowKey(r) == <<r.path, r.line, r.message>>
ComesBefore(k, l) ==
  \E i \in DOMAIN k : k[i] < l[i] /\ \A j \in 1 .. i - 1 : k[j] = l[j]
KeyBefore(a, b) == ComesBefore(RowKey(a), RowKey(b))
RowOf(r, origin) == [path |-> r.path, line |-> r.line, column |-> r.column,
                     message |-> r.message, severity |-> r.severity, origin |-> origin]
\* The newest run that found something, not simply the newest.
LatestProblemRun ==
  LET found == {i \in DOMAIN taskRuns : taskRuns[i] # <<>>}
  IN  IF found = {} THEN <<>> ELSE taskRuns[Max(found)]
Published == UNION {Range(diagnostics[p]) : p \in {q \in DOMAIN Reach : Reach[q] # "escapes"}}
LastOf(s, k) == s[Max({i \in DOMAIN s : RowKey(s[i]) = k})]
ProblemRows ==
  LET live == {RowKey(r) : r \in Published}
      built == {RowKey(r) : r \in Range(LatestProblemRun)} \ live
  IN  SetToSortSeq({RowOf(LastOf(diagnostics[k[1]], k), "server") : k \in live}
                     \cup {RowOf(LastOf(LatestProblemRun, k), "task") : k \in built}, KeyBefore)

-----------------------------------------------------------------------------
(* Reports arrive.                                                          *)
Arrives == news < MaxNews /\ news' = news + 1
RunStarts ==
  /\ Arrives /\ taskRuns' = Append(taskRuns, <<>>)
  /\ UNCHANGED <<diagnostics, problemCursor, listed, wayVars>>
\* A run's output names a problem; the first of a run makes it the list F8
\* walks, whose cursor is not the old list's.
TaskFinds(i, r) ==
  /\ Arrives /\ Reach[r.path] # "escapes"
  /\ \A k \in DOMAIN taskRuns[i] :
       \/ RowKey(taskRuns[i][k]) # RowKey(r)
       \/ taskRuns[i][k].column # r.column
  /\ taskRuns' = [taskRuns EXCEPT ![i] = Append(@, r)]
  /\ problemCursor' = IF taskRuns[i] = <<>> THEN NoRow ELSE problemCursor
  /\ UNCHANGED <<diagnostics, listed, wayVars>>
Publish(path, reports) ==
  /\ Arrives /\ diagnostics[path] # reports
  /\ diagnostics' = [diagnostics EXCEPT ![path] = reports]
  /\ UNCHANGED <<taskRuns, problemCursor, listed, wayVars>>

-----------------------------------------------------------------------------
(* From a row to its place.                                                 *)
\* What is asked of a row does not say where it came from, and of its
\* severity only whether it is an error.
Target(r) == [r EXCEPT !.origin = "none", !.severity = IF r.severity = 0 THEN 0 ELSE 1]
NavigateProblem(r, cursor) ==
  LET same == {i \in DOMAIN ProblemRows : Target(ProblemRows[i]) = Target(r)}
  IN  /\ problemCursor' = IF same = {} THEN cursor ELSE Min(same) - 1
      /\ walks' = walks + 1
      /\ going' = [request |-> walks + 1, row |-> r]
      /\ errands' = Append(errands, [op |-> "resolve", path |-> r.path, request |-> walks + 1])
      /\ wanted' = r
StepProblem(forward) ==
  /\ listed = <<>> /\ walks < MaxWalks /\ ProblemRows # <<>>
  /\ LET n == Len(ProblemRows)
         current == IF problemCursor # NoRow THEN problemCursor ELSE IF forward THEN n - 1 ELSE 0
         next == IF forward THEN (current + 1) % n ELSE (current + n - 1) % n
     IN  NavigateProblem(ProblemRows[next + 1], next)
  /\ UNCHANGED <<sourceVars, listed, editor>>
\* The overlay keeps the rows it was opened with.
ShowProblems ==
  /\ listed = <<>> /\ walks < MaxWalks /\ listed' = ProblemRows
  /\ UNCHANGED <<sourceVars, problemCursor, wayVars>>
ChooseProblem(i) ==
  /\ NavigateProblem(listed[i], problemCursor) /\ listed' = <<>>
  /\ UNCHANGED <<sourceVars, editor>>
\* The human goes to another pane while the worker reads.
LeaveEditor ==
  /\ editor.focus = "Editor" /\ editor' = [editor EXCEPT !.focus = "Terminal"]
  /\ UNCHANGED <<sourceVars, problemCursor, listed, going, errands, walks, wanted>>

-----------------------------------------------------------------------------
(* The worker's answers, in the order of the requests.                      *)
PlaceIn(path, line, column) == <<Min({line, FileLines[path]}), column>>
PositionOpenBuffer(e, path, line, column) ==
  [e EXCEPT !.shown = path, !.at[path] = PlaceIn(path, line, column), !.focus = "Editor"]
IsOpen(path) == path \in editor.open
Pass == errands # <<>> /\ UNCHANGED <<sourceVars, problemCursor, listed, walks, wanted>>
\* A bug: any answer is taken for the one waited for.
PathResolvedOfAny ==
  LET e == Head(errands)
      row == going.row
      inside == Reach[e.path] \in {"text", "binary"}
  IN  /\ Pass /\ e.op = "resolve"
      /\ going' = NotGoing
      /\ editor' = CASE ~inside \/ going = NotGoing -> editor
                     [] IsOpen(e.path) -> PositionOpenBuffer(editor, e.path, row.line, row.column)
                     [] OTHER -> [editor EXCEPT !.pending = <<e.path, row.line, row.column>>,
                                                !.opening = @ \cup {e.path}]
      /\ errands' = IF e.path \in editor'.opening \ editor.opening
                      THEN Append(Tail(errands), [op |-> "read", path |-> e.path, request |-> 0])
                      ELSE Tail(errands)
PathResolved ==
  LET e == Head(errands)
      row == going.row
      heard == e.op = "resolve" /\ going.request = e.request
      inside == Reach[e.path] \in {"text", "binary"}
  IN  /\ Pass /\ e.op = "resolve"
      /\ going' = IF heard THEN NotGoing ELSE going
      /\ editor' = CASE ~heard \/ ~inside -> editor
                     [] IsOpen(e.path) -> PositionOpenBuffer(editor, e.path, row.line, row.column)
                     [] OTHER -> [editor EXCEPT !.pending = <<e.path, row.line, row.column>>,
                                                !.opening = @ \cup {e.path}]
      /\ errands' = IF e.path \in editor'.opening \ editor.opening
                      THEN Append(Tail(errands), [op |-> "read", path |-> e.path, request |-> 0])
                      ELSE Tail(errands)
FileRead ==
  LET p == Head(errands).path
      opened == [editor EXCEPT !.open = @ \cup {p}, !.opening = @ \ {p}, !.shown = p,
                               !.at[p] = <<1, 1>>,
                               !.focus = IF @ = "Project" THEN "Editor" ELSE @]
      spot == editor.pending
  IN  /\ Pass /\ Head(errands).op = "read"
      /\ errands' = Tail(errands)
      /\ editor' = CASE Reach[p] = "binary" -> [editor EXCEPT !.opening = @ \ {p}]
                     [] Reach[p] # "binary" /\ spot[1] = p ->
                          PositionOpenBuffer([opened EXCEPT !.pending = NoSpot], p, spot[2], spot[3])
                     [] OTHER -> opened
      /\ UNCHANGED going

ProblemInit ==
  /\ taskRuns = <<>> /\ diagnostics = [p \in DOMAIN Reach |-> <<>>]
  /\ problemCursor = NoRow /\ listed = <<>> /\ going = NotGoing /\ errands = <<>>
  /\ news = 0 /\ walks = 0 /\ wanted = NoReport
  /\ editor = [open |-> {}, opening |-> {}, shown |-> 0, at |-> [p \in DOMAIN Reach |-> <<0, 0>>],
               pending |-> NoSpot, focus |-> "Project"]
ProblemNext ==
  \/ RunStarts
  \/ \E i \in DOMAIN taskRuns, r \in TaskReports : TaskFinds(i, r)
  \/ \E p \in DOMAIN Publications : \E ds \in Publications[p] : Publish(p, ds)
  \/ \E forward \in BOOLEAN : StepProblem(forward)
  \/ ShowProblems \/ \E i \in DOMAIN listed : ChooseProblem(i)
  \/ LeaveEditor \/ PathResolved \/ FileRead

-----------------------------------------------------------------------------
(* Everything a server publishes of a file that can be named is in the      *)
(* list as the server says it now, and so is what the newest run that found *)
(* anything found, runs begun since then or not (Model::problem_rows,       *)
(* latest_problem_run).                                                     *)
EveryReportIsListed ==
  LET newest(i) == taskRuns[i] # <<>> /\ \A j \in i + 1 .. Len(taskRuns) : taskRuns[j] = <<>>
      shows(r, origins) == \E k \in DOMAIN ProblemRows :
                             RowKey(ProblemRows[k]) = RowKey(r) /\ ProblemRows[k].origin \in origins
  IN  /\ \A p \in DOMAIN Reach : Reach[p] # "escapes" =>
            \A r \in Range(diagnostics[p]) : shows(r, {"server"})
      /\ \A i \in DOMAIN taskRuns : newest(i) =>
            \A r \in Range(taskRuns[i]) : shows(r, {"server", "task"})
      /\ \A j, k \in DOMAIN ProblemRows : j # k => RowKey(ProblemRows[j]) # RowKey(ProblemRows[k])

(* When the worker has answered, the editor shows the file of the row that  *)
(* was asked for last, at its place, whatever was asked for before it and   *)
(* in whichever state the file was then (Model::navigate_problem,           *)
(* open_file_at).                                                           *)
ProblemsLeadToTheirPlace ==
  errands = <<>> /\ wanted # NoReport /\ Reach[wanted.path] = "text" =>
    /\ editor.shown = wanted.path
    /\ editor.at[wanted.path] = PlaceIn(wanted.path, wanted.line, wanted.column)

(* What is reported reaches the human: as a row, and from there as a place  *)
(* in the editor.                                                           *)
ReportsReachTheEditor == EveryReportIsListed /\ ProblemsLeadToTheirPlace

(* The cursor of F8 is on the row that was visited last, as long as that    *)
(* row is there: "a cursor left over from the previous run indexes a list   *)
(* that is no longer showing" (model.rs:2907), and is reset.                *)
CursorIsOnTheVisitedRow ==
  problemCursor # NoRow /\ (\E i \in DOMAIN ProblemRows : ProblemRows[i] = wanted)
    => problemCursor < Len(ProblemRows) /\ ProblemRows[problemCursor + 1] = wanted

(* "A slow read must not yank focus out from under them" (model.rs:4879):   *)
(* a file that arrives moves the focus only from the tree.                  *)
SlowReadKeepsFocus ==
  [][FileRead => editor'.focus = editor.focus \/ editor.focus = "Project"]_problemVars
=============================================================================
