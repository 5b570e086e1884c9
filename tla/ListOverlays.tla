---------------------------- MODULE ListOverlays ---------------------------
(* The overlays that are lists (crates/app/src/{model,input,task_state,     *)
(* lsp_state,git_state,view}.rs and crates/ui/src/{overlays,widgets,        *)
(* layout}.rs): the palette and its filter, the pickers, the grouped Git    *)
(* rows and the help page.  A row is a label of letters with its group; the *)
(* first row has index 0, as in the code.                                   *)
EXTENDS Cells, FiniteSetsExt

CONSTANTS
  Rows,        \* lists an overlay may be opened on: sequences of [label, group]
  HelpRows,    \* the registered actions, by group
  Screens,     \* sizes of the terminal
  Letters,     \* letters typed into a filter
  MaxFilter    \* bound: letters in the filter

Pickers == {"tasks", "modes", "problems", "completion", "actions", "references",
            "symbols", "branches", "gitStatus"}

VARIABLES overlay, screen, invoked
overlayVars == <<overlay, screen, invoked>>

Closed == [kind |-> "closed", items |-> <<>>, filtered |-> <<>>, selected |-> 0,
           query |-> <<>>, scroll |-> 0]
NotYet == [label |-> <<>>, group |-> "none"]

-----------------------------------------------------------------------------
(* Filters. *)
Subsequence(q, label) ==
  \E at \in [DOMAIN q -> DOMAIN label] :
    /\ \A i \in DOMAIN q : label[at[i]] = q[i]
    /\ \A i, j \in DOMAIN q : i < j => at[i] < at[j]
Matching(o) ==
  LET hit(i) == o.query = <<>> \/ Subsequence(o.query, o.items[i].label)
  IN  SelectSeq([i \in DOMAIN o.items |-> i], hit)
Refilter(o) ==
  LET f == Matching(o)
  IN  [o EXCEPT !.filtered = f,
                !.selected = IF @ >= Len(f) THEN Less(Len(f), 1) ELSE @]
\* The help page also finds a whole group by its name, typed here as one letter.
RefilterHelp(o) ==
  LET hit(i) == \/ o.query = <<>>
                \/ Subsequence(o.query, o.items[i].label)
                \/ o.query = <<o.items[i].group>>
      f == SelectSeq([i \in DOMAIN o.items |-> i], hit)
  IN  [o EXCEPT !.filtered = f, !.scroll = AtMost(@, Less(Len(f), 1))]
ScrollBy(o, n) ==
  [o EXCEPT !.scroll = AtMost(AtLeast(@ + n, 0), Less(Len(o.filtered), 1))]

RowAt(o, i) == o.items[o.filtered[i + 1]]    \* the i-th row on the list, from 0
Moved(o, by) ==
  LET n == Len(o.filtered)
  IN  IF n = 0 THEN o ELSE [o EXCEPT !.selected = (@ + n + by) % n]

-----------------------------------------------------------------------------
(* Where an overlay is drawn. *)
Between(n, low, high) == AtMost(low, AtMost(n, high))
\* Rows the border, the query line and the footer leave to the list.  The
\* editor pane, which completions keep to, is between 3 rows and the body.
ListHeights(o, area) ==
  CASE o.kind = "palette" -> {Less(h, 3) : h \in CenteredHeights(60, area)}
    [] o.kind \in {"tasks", "modes"} -> {Less(h, 4) : h \in OverlayHeights(70, 60, area)}
    [] o.kind = "problems" -> {Less(h, 3) : h \in OverlayHeights(70, 60, area)}
    [] o.kind = "completion" ->
         {Less(AtMost(AtMost(Between(Len(o.items) + 3, 4, 12), e), 1), 3) : e \in 3 .. area.h - 1}
    [] o.kind = "branches" -> {Less(h, 3) : h \in OverlayHeights(60, 80, area)}
    [] o.kind = "gitStatus" -> {Less(h, 3) : h \in OverlayHeights(78, 80, area)}
    [] o.kind = "help" -> {Less(h, 3) : h \in OverlayHeights(88, 80, area)}
    [] OTHER -> {Less(h, 3) : h \in OverlayHeights(68, 80, area)}

\* The lines of the list, a row by its index and a heading or a blank line by
\* -1: the Git list names a group before its rows, the help page also parts
\* two groups by a blank line.
StartsGroup(o, i) == i = 0 \/ RowAt(o, i).group # RowAt(o, i - 1).group
LinesFor(o, i) ==
  CASE o.kind = "gitStatus" /\ StartsGroup(o, i) -> <<-1, i>>
    [] o.kind = "help" /\ StartsGroup(o, i) -> IF i = 0 THEN <<-1, i>> ELSE <<-1, -1, i>>
    [] OTHER -> <<i>>
DrawnLines(o) == FlattenSeq([i \in DOMAIN o.filtered |-> LinesFor(o, i - 1)])
\* Mutant: the Git list forgets its headings.
HighlightedRow(o) == AtMost(o.selected, Len(o.filtered) - 1)
\* The line drawn selected, from 0: the Git list counts the lines before its
\* row, the others take the last row for a selection past the end.
HighlightedLine(o) ==
  IF o.kind = "gitStatus"
  THEN Len(FlattenSeq([i \in 1 .. o.selected |-> LinesFor(o, i - 1)]))
         + Len(LinesFor(o, o.selected)) - 1
  ELSE AtMost(o.selected, Len(o.filtered) - 1)
\* The list widget scrolls a fresh list just far enough to show its selection.
FirstShown(line, height) == IF line < height THEN 0 ELSE line - height + 1

-----------------------------------------------------------------------------
(* Keys. *)
OpenList(kind, rows, at) ==
  /\ overlay = Closed
  /\ overlay' = [Closed EXCEPT !.kind = kind, !.items = rows, !.selected = at,
                               !.filtered = [i \in DOMAIN rows |-> i]]
  /\ invoked' = NotYet
  /\ UNCHANGED screen
OpenPalette == \E rows \in Rows : OpenList("palette", rows, 0)
OpenHelp == OpenList("help", HelpRows, 0)
OpenPicker == \E rows \in Rows, k \in Pickers \ {"problems", "gitStatus"} : OpenList(k, rows, 0)
\* The cursor of F8, which may point past the rows there are now.
OpenProblems ==
  \E rows \in Rows, cursor \in 0 .. Max({Len(r) : r \in Rows}) :
    OpenList("problems", rows, AtMost(cursor, Less(Len(rows), 1)))
\* The rows come conflicts first, then what is staged, then the changes.
GroupOrder == [conflicts |-> 1, staged |-> 2, changes |-> 3, none |-> 4]
OpenGitStatus ==
  \E rows \in Rows :
    /\ \A i, j \in DOMAIN rows :
         i < j => GroupOrder[rows[i].group] <= GroupOrder[rows[j].group]
    /\ \E at \in 0 .. Less(Len(rows), 1) : OpenList("gitStatus", rows, at)

MoveKey ==
  /\ overlay.kind \in Pickers \cup {"palette"}
  /\ overlay' \in {Moved(overlay, 1), Moved(overlay, -1)}
  /\ UNCHANGED <<screen, invoked>>
ScrollKey ==
  /\ overlay.kind = "help"
  /\ \E n \in {-10, -1, 1, 10} : overlay' = ScrollBy(overlay, n)
  /\ UNCHANGED <<screen, invoked>>
Refiltered(o, q) ==
  IF o.kind = "help"
  THEN RefilterHelp([o EXCEPT !.query = q, !.scroll = 0])
  ELSE Refilter([o EXCEPT !.query = q])
FilterKey ==
  /\ overlay.kind \in {"palette", "help"}
  /\ \/ \E c \in Letters : /\ Len(overlay.query) < MaxFilter
                           /\ overlay' = Refiltered(overlay, Append(overlay.query, c))
     \/ overlay' = Refiltered(overlay, IF overlay.query = <<>> THEN <<>> ELSE Front(overlay.query))
  /\ UNCHANGED <<screen, invoked>>

\* What Enter acts on: the row the selection counts to, if there is one.
EnterTakes(o) == IF o.selected < Len(o.filtered) THEN RowAt(o, o.selected) ELSE NotYet
\* Enter on an empty picker keeps it open; the diff opens over the Git list.
EnterCloses(o) ==
  \/ o.kind \in {"palette", "completion", "actions", "references", "symbols"}
  \/ o.kind # "gitStatus" /\ EnterTakes(o) # NotYet
EnterKey ==
  /\ overlay.kind \in Pickers \cup {"palette"}
  /\ invoked' = EnterTakes(overlay)
  /\ overlay' = IF EnterCloses(overlay) THEN Closed ELSE overlay
  /\ UNCHANGED screen
EscKey ==
  /\ overlay # Closed
  /\ overlay' = Closed
  /\ UNCHANGED <<screen, invoked>>
ResizeScreen ==
  /\ screen' \in Screens \ {screen}
  /\ UNCHANGED <<overlay, invoked>>

OverlayInit == overlay = Closed /\ invoked = NotYet /\ screen \in Screens
OverlayNext ==
  \/ OpenPalette \/ OpenHelp \/ OpenPicker \/ OpenProblems \/ OpenGitStatus
  \/ MoveKey \/ ScrollKey \/ FilterKey \/ EnterKey \/ EscKey \/ ResizeScreen

-----------------------------------------------------------------------------
\* The row drawn selected is the row Enter acts on, and it is on the screen at
\* every size that leaves the list a line: whatever was filtered, wherever the
\* list was opened, with or without headings.
HighlightIsWhatEnterTakes ==
  overlay.kind \in Pickers \cup {"palette"} /\ overlay.filtered # <<>> =>
    LET line == HighlightedLine(overlay)
        row == DrawnLines(overlay)[line + 1]
    IN  /\ row # -1
        /\ RowAt(overlay, row) = EnterTakes(overlay)
        /\ \A h \in ListHeights(overlay, screen) \ {0} :
             line \in FirstShown(line, h) .. FirstShown(line, h) + h - 1

\* On a window of the usual size every action of the help page can be brought
\* on screen (README.md: "F11 shows every registered action with its current
\* chord").
HelpReachesEveryRow ==
  overlay.kind = "help" /\ screen.h >= 24 =>
    \A i \in DOMAIN DrawnLines(overlay), h \in ListHeights(overlay, screen) \ {0} :
      DrawnLines(overlay)[i] # -1 =>
        \E top \in 0 .. Len(overlay.filtered) - 1 : i - 1 \in top .. top + h - 1
=============================================================================
