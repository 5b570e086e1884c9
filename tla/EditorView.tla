----------------------------- MODULE EditorView -----------------------------
(* The editor pane as it is drawn (render_editor and editor_line of         *)
(* crates/app/src/view.rs, editor and styled_runs of                        *)
(* crates/ui/src/widgets.rs, DecorationSet of                               *)
(* crates/editor/src/decoration.rs): where the cursor lands, and which      *)
(* decoration wins a cell and the gutter.  "n" ends a line; offsets count   *)
(* characters from 0.                                                       *)
EXTENDS Cells, FiniteSetsExt

CONSTANTS
  FirstTexts,   \* texts a buffer is opened with
  Typing,       \* characters typed
  Areas,        \* sizes [w, h] of the editor pane
  MaxGrowth,    \* bound: characters typed
  MaxMarks      \* bound: decorations

VARIABLES text, cursor, scrollTop, editorHeight, area, tabCount, marks, grown
viewVars == <<text, cursor, scrollTop, editorHeight, area, tabCount, marks, grown>>

-----------------------------------------------------------------------------
(* Lines. *)
BreaksBefore(s, at) == {i \in 1 .. at : s[i] = "n"}
LineAt(s, at) == Cardinality(BreaksBefore(s, at))
LineCount(s) == LineAt(s, Len(s)) + 1
StartOf(s, line) == IF line = 0 THEN 0 ELSE Min({i \in 0 .. Len(s) : LineAt(s, i) = line})
EndOf(s, line) == Max({i \in 0 .. Len(s) : LineAt(s, i) = line})
Raw(s, line) == SubSeq(s, StartOf(s, line) + 1, EndOf(s, line))
ColumnAt(s, at) == at - StartOf(s, LineAt(s, at))

-----------------------------------------------------------------------------
(* The viewport. *)
Strip(n) == IF n > 1 THEN 1 ELSE 0
EditorRows(a, n) == Less(a.h, 2 + Strip(n))

\* scroll_to_cursor: the least scroll that shows the line, with one line of
\* context in a viewport of more than four.
ScrollToCursor(top, line, height) ==
  LET margin == IF height > 4 THEN 1 ELSE 0
  IN  IF height = 0 THEN top
      ELSE IF line < top + margin THEN Less(line, margin)
      ELSE IF line + margin >= top + height THEN Less(line + margin + 1, height)
      ELSE top

ClampViewport(top, line, height) ==
  IF height = 0 THEN top
  ELSE IF line < top THEN line
  ELSE IF line >= top + height THEN line + 1 - height
  ELSE top

\* What is drawn: the first line, one past the last, and the digits the
\* numbers of the gutter are padded to.
CursorLine == LineAt(text, cursor)
TopLine == ClampViewport(scrollTop, CursorLine, EditorRows(area, tabCount))
EndLine == AtMost(TopLine + EditorRows(area, tabCount), LineCount(text))
DigitsOf(n) == IF n < 10 THEN 1 ELSE IF n < 100 THEN 2 ELSE 3
GutterDigits == DigitsOf(AtLeast(EndLine, 1))
GutterWidth == GutterDigits + 3
HasRoom == area.w > 2 /\ EditorRows(area, tabCount) > 0

\* The cell the hardware cursor is put on, <<>> when it is not shown.
CursorCell ==
  LET x == 1 + GutterWidth + DisplayColumn(Raw(text, CursorLine), ColumnAt(text, cursor))
      y == 1 + Strip(tabCount) + CursorLine - TopLine
  IN  IF HasRoom /\ CursorLine \in TopLine .. EndLine - 1 /\ x < area.w - 1 /\ y < area.h - 1
      THEN <<x, y>> ELSE <<>>

\* The cells of a line as the terminal paints them, each with the offset in
\* the line of the character it shows; a row begins with its number, its mark
\* and a space.
Painted(line) ==
  FlattenSeq([i \in DOMAIN ExpandTabs(line) |->
                [k \in 1 .. CharWidth(ExpandTabs(line)[i].char, 0) |-> ExpandTabs(line)[i].of]])
RowPrefix(line) == 1 + AtLeast(GutterDigits, DigitsOf(line + 1)) + 2

-----------------------------------------------------------------------------
(* Decorations: [start, end, class], offsets in the text. *)
Syntax == {"syntax"}
Diagnostics == {"error", "warning", "info", "hint"}
Matches == {"match", "matchCurrent"}
Hunks == {"removed", "added", "conflict"}

Overlaps(d, from, to) ==
  IF d.start = d.end THEN d.start \in from .. to ELSE d.start < to /\ d.end > from
Into(n, from, to) == AtLeast(from, AtMost(n, to)) - from
\* for_line: the decorations of a line, clipped to it, in the order of their
\* start, then end, then age.
ForLine(line) ==
  LET from == StartOf(text, line)
      to == EndOf(text, line)
  IN  {[start |-> Into(marks[i].start, from, to), end |-> Into(marks[i].end, from, to),
        class |-> marks[i].class, age |-> i]
         : i \in {j \in DOMAIN marks : Overlaps(marks[j], from, to)}}
Before(d, e) ==
  \/ d.start < e.start
  \/ d.start = e.start /\ d.end < e.end
  \/ d.start = e.start /\ d.end = e.end /\ d.age < e.age

Priority(class) ==
  CASE class = "conflict" -> 5
    [] class \in {"removed", "added", "matchCurrent"} -> 4
    [] class \in {"match", "error", "warning"} -> 3
    [] class \in {"info", "hint"} -> 2
    [] OTHER -> 1

\* styled_runs: the style of a cell; of the strongest spans the last one wins.
Covers(raw, d, column) ==
  LET from == DisplayColumn(raw, d.start)
      to == DisplayColumn(raw, d.end)
  IN  column >= from /\ (column < to \/ (from = to /\ column = from))
StyleAt(line, column) ==
  LET raw == Raw(text, line)
      over == {d \in ForLine(line) : Covers(raw, d, column)}
      best == {d \in over : \A e \in over : Priority(e.class) <= Priority(d.class)}
  IN  IF over = {} THEN "plain"
      ELSE (CHOOSE d \in best : \A e \in best \ {d} : Before(e, d)).class

\* The gutter: '!' for a conflict, '~' and '+' for a hunk, a letter for a
\* diagnostic; a stronger mark replaces a weaker one.
MarkOf(class) ==
  CASE class = "conflict" -> "!"
    [] class = "removed" -> "~"
    [] class = "added" -> "+"
    [] class = "error" -> "E"
    [] class = "warning" -> "W"
    [] class = "info" -> "I"
    [] class = "hint" -> "H"
    [] OTHER -> " "
MarkPriority(mark) ==
  CASE mark = "!" -> 6 [] mark = "E" -> 5 [] mark = "W" -> 4
    [] mark \in {"~", "+"} -> 3 [] mark = "I" -> 2 [] mark = "H" -> 1 [] OTHER -> 0
Marker(line) ==
  LET ds == {d \in ForLine(line) : MarkOf(d.class) # " "}
      best == {d \in ds : \A e \in ds : MarkPriority(MarkOf(e.class)) <= MarkPriority(MarkOf(d.class))}
  IN  IF ds = {} THEN " " ELSE MarkOf((CHOOSE d \in best : \A e \in best \ {d} : Before(d, e)).class)

-----------------------------------------------------------------------------
(* What changes the picture.  Each message ends with a frame, for which the  *)
(* height of the pane is recomputed: a command scrolls by the height of the  *)
(* frame before it.                                                          *)
Framed == editorHeight' = EditorRows(area', tabCount')
TypeHere(c) ==
  /\ grown < MaxGrowth
  /\ text' = SubSeq(text, 1, cursor) \o <<c>> \o SubSeq(text, cursor + 1, Len(text))
  /\ cursor' = cursor + 1
  /\ scrollTop' = ScrollToCursor(scrollTop, LineAt(text', cursor'), editorHeight)
  /\ grown' = grown + 1
  /\ UNCHANGED <<area, tabCount, marks>> /\ Framed
\* A motion, a click on a search hit or a jump to a problem.
PlaceCursor(at) ==
  /\ cursor' = at
  /\ scrollTop' = ScrollToCursor(scrollTop, LineAt(text, at), editorHeight)
  /\ UNCHANGED <<text, area, tabCount, marks, grown>> /\ Framed
\* An accepted hunk or a server's edit before the cursor: the cursor moves with
\* its text and nothing scrolls.
EditBefore(at, c) ==
  /\ grown < MaxGrowth /\ at <= cursor
  /\ text' = SubSeq(text, 1, at) \o <<c>> \o SubSeq(text, at + 1, Len(text))
  /\ cursor' = cursor + 1
  /\ grown' = grown + 1
  /\ UNCHANGED <<scrollTop, area, tabCount, marks>> /\ Framed
ResizePane ==
  /\ area' \in Areas \ {area}
  /\ UNCHANGED <<text, cursor, scrollTop, tabCount, marks, grown>> /\ Framed
OpenOrCloseTab ==
  /\ tabCount' \in {1, 2} \ {tabCount}
  /\ UNCHANGED <<text, cursor, scrollTop, area, marks, grown>> /\ Framed

\* A producer drops what it pushed before and pushes what it found: a list of
\* any length, so one decoration more is another list it may find.  What a hunk
\* adds has no text of its own yet; the other spans that must cover text do.
Producers == {Syntax, Diagnostics, Matches, Hunks}
Found(classes) ==
  {d \in [start : 0 .. Len(text), end : 0 .. Len(text), class : classes] :
     /\ d.start <= d.end
     /\ d.class = "added" => d.start = d.end
     /\ d.class \in {"removed", "match", "matchCurrent", "syntax"} => d.start < d.end}
PushDecoration ==
  /\ Len(marks) < MaxMarks
  /\ \E p \in Producers : \E d \in Found(p) : marks' = Append(marks, d)
  /\ UNCHANGED <<text, cursor, scrollTop, editorHeight, area, tabCount, grown>>
ClearDecorations ==
  /\ \E p \in Producers : marks' = SelectSeq(marks, LAMBDA d : d.class \notin p)
  /\ UNCHANGED <<text, cursor, scrollTop, editorHeight, area, tabCount, grown>>

ViewInit ==
  /\ text \in FirstTexts /\ area \in Areas
  /\ cursor = 0 /\ scrollTop = 0 /\ tabCount = 1 /\ marks = <<>> /\ grown = 0
  /\ editorHeight = EditorRows(area, 1)
CursorNext ==
  \/ \E c \in Typing : TypeHere(c)
  \/ \E at \in 0 .. Len(text) : PlaceCursor(at)
  \/ \E at \in 0 .. Len(text), c \in Typing : EditBefore(at, c)
  \/ ResizePane \/ OpenOrCloseTab
MarkNext == PushDecoration \/ ClearDecorations

-----------------------------------------------------------------------------
\* The cursor is drawn on its character: in the row of its line, with exactly
\* the cells of the characters before it to its left, whatever tabs and wide
\* characters those are, however the text grew above the viewport and however
\* the pane was resized; it is left out only when the line runs out of the pane.
CursorIsOnItsCharacter ==
  HasRoom =>
    LET line == CursorLine
        column == ColumnAt(text, cursor)
        cells == Painted(Raw(text, line))
        before == Cardinality({j \in DOMAIN cells : cells[j] < column})
    IN  IF CursorCell = <<>>
        THEN 1 + RowPrefix(line) + before >= area.w - 1
        ELSE /\ TopLine + (CursorCell[2] - 1 - Strip(tabCount)) = line
             /\ CursorCell[1] - 1 - RowPrefix(line) = before
             /\ \A j \in DOMAIN cells : j <= before <=> cells[j] < column

\* A hunk under review stands out: one in conflict always has its '!' and all
\* its cells, and text a hunk would remove never looks like plain text, syntax,
\* a diagnostic or an ordinary match.
HunksStandOut ==
  \A i \in DOMAIN marks, line \in 0 .. LineCount(text) - 1 :
    LET d == marks[i]
        cells == Painted(Raw(text, line))
        at(j) == StartOf(text, line) + cells[j]
    IN  /\ d.class = "conflict" /\ Overlaps(d, StartOf(text, line), EndOf(text, line)) =>
             /\ Marker(line) = "!"
             /\ \A j \in DOMAIN cells :
                  at(j) \in d.start .. d.end - 1 => StyleAt(line, j - 1) = "conflict"
        /\ d.class = "removed" =>
             \A j \in DOMAIN cells :
               at(j) \in d.start .. d.end - 1 => StyleAt(line, j - 1) \in Hunks \cup {"matchCurrent"}

\* What the editor draws is the buffer: its cursor and its hunks are where they
\* are in the text.
EditorShowsTheBuffer == CursorIsOnItsCharacter /\ HunksStandOut
=============================================================================
