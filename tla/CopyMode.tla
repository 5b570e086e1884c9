------------------------------ MODULE CopyMode ------------------------------
(* Copy mode over one terminal's grid (crates/terminal/src/screen.rs and    *)
(* crates/app/src/model.rs).  The screen keeps a cursor and an anchor of    *)
(* its own beside the emulator's selection; output moves the emulator's     *)
(* lines, and with them its selection, under both.  Lines of the visible    *)
(* screen count from 0, lines of the history are negative.                  *)
EXTENDS Integers, Sequences, FiniteSets

CONSTANTS
  GridSizes,    \* sizes [rows, cols] the pane may give the terminal
  MaxHistory,   \* bound: SCROLLBACK_LINES
  Strides       \* the (rows, columns) a copy key may move by

\* TerminalScreen::new and resize clamp both sides of a size to 1.
ASSUME CopyAssumption ==
  /\ GridSizes \subseteq [rows : Nat \ {0}, cols : Nat \ {0}]
  /\ MaxHistory \in Nat
  /\ Strides \subseteq Int \X Int

Point(line, col) == [line |-> line, col |-> col]
Earlier(p, q) == p.line < q.line \/ (p.line = q.line /\ p.col < q.col)
Within(x, lo, hi) == IF x < lo THEN lo ELSE IF x > hi THEN hi ELSE x

VARIABLES
  grid,       \* the emulator: [size, history, offset, cursor, selection];
              \* the selection is <<>> or its two ends
  copy,       \* the screen's own: <<>> or <<[cursor, anchor]>>
  copyMode,   \* the model: the keys go to the selection
  clipboard   \* clipboard_outbox: the cells to copy; the main loop takes
              \* them before it handles anything more
copyVars == <<grid, copy, copyMode, clipboard>>

-----------------------------------------------------------------------------
(* The emulator, as the screen uses it. *)
Topmost(g) == -g.history
Bottommost(g) == g.size.rows - 1
GridCells(g) == {Point(l, c) : l \in Topmost(g)..Bottommost(g), c \in 0..(g.size.cols - 1)}
ScrollDisplay(g, delta) == [g EXCEPT !.offset = Within(g.offset + delta, 0, g.history)]

End(p, side) == [at |-> p, side |-> side]
Selection(p, side, q, other) == <<End(p, side), End(q, other)>>
NewSelection(p) == Selection(p, "left", p, "left")

Ordered(s) ==
  IF Earlier(s[2].at, s[1].at) \/ (s[1].at = s[2].at /\ s[1].side = "right")
  THEN <<s[2], s[1]>> ELSE s
\* (Whatever the emulator does with an end outside its grid.)
InGrid(g, p) == Point(Within(p.line, Topmost(g), Bottommost(g)), Within(p.col, 0, g.size.cols - 1))
\* The cells a simple selection covers.  An end on the left edge of its cell
\* leaves the cell out, and so does a start on the right edge.
Marked(g) ==
  IF g.selection = <<>> THEN {}
  ELSE LET s == Ordered(g.selection)
           from == InGrid(g, s[1].at)
           to   == InGrid(g, s[2].at)
       IN  {p \in GridCells(g) :
              /\ s[1] # s[2]
              /\ ~Earlier(p, from) /\ ~Earlier(to, p)
              /\ p = to /\ s[2].side = "left" => FALSE
              /\ p = from /\ s[1].side = "right" => FALSE}

-----------------------------------------------------------------------------
(* The screen's own operations. *)
BeginSelection ==
  LET g == [grid EXCEPT !.offset = 0]
  IN  /\ grid' = [g EXCEPT !.selection = NewSelection(g.cursor)]
      /\ copy' = <<[cursor |-> g.cursor, anchor |-> g.cursor]>>

ClearSelection ==
  /\ grid' = [grid EXCEPT !.selection = <<>>]
  /\ copy' = <<>>

\* The point `delta` cells on, counting the grid's cells row by row from the
\* oldest line of the history, kept inside the grid.
Stepped(g, from, stride) ==
  LET cols == g.size.cols
      max == (Bottommost(g) - Topmost(g) + 1) * cols - 1
      next == Within((from.line - Topmost(g)) * cols + from.col + stride[1] * cols + stride[2], 0, max)
  IN  Point(Topmost(g) + next \div cols, next % cols)

\* Mutant: both ends keep the sides of a selection that runs rightward.
ExtendedRightward(anchor, point) == Selection(anchor, "left", point, "right")
\* From the anchor to the cursor, with the sides of the direction of travel.
Extended(anchor, point) ==
  IF Earlier(point, anchor) THEN Selection(anchor, "right", point, "left")
  ELSE Selection(anchor, "left", point, "right")

\* The viewport follows a cursor that leaves it.
Followed(g, point) ==
  LET top == -g.offset
      bottom == top + g.size.rows - 1
  IN  CASE point.line < top    -> ScrollDisplay(g, top - point.line)
        [] point.line > bottom -> ScrollDisplay(g, bottom - point.line)
        [] OTHER               -> g

MoveSelection(stride, extend) ==
  /\ copy # <<>>
  /\ LET point  == Stepped(grid, copy[1].cursor, stride)
         anchor == IF extend THEN copy[1].anchor ELSE point
         sel    == IF extend THEN Extended(anchor, point) ELSE NewSelection(point)
     IN  /\ copy' = <<[cursor |-> point, anchor |-> anchor]>>
         /\ grid' = Followed([grid EXCEPT !.selection = sel], point)

-----------------------------------------------------------------------------
(* The model's handlers.  The chords that enter the mode and that scroll    *)
(* are reserved, and work in the mode as well.                              *)
EnterTerminalCopyMode ==
  /\ copyMode' = TRUE
  /\ BeginSelection
  /\ clipboard' = {}

MoveTerminalCopySelection(stride, extend) ==
  /\ copyMode
  /\ MoveSelection(stride, extend)
  /\ clipboard' = {}
  /\ UNCHANGED copyMode

PageTerminalCopySelection(direction) ==
  MoveTerminalCopySelection(<<grid.size.rows * direction, 0>>, FALSE)

\* A page of the viewport keeps one line in view.
ScrollTerminalPage(direction) ==
  /\ LET page == IF grid.size.rows = 1 THEN 1 ELSE grid.size.rows - 1
     IN  grid' = ScrollDisplay(grid, page * direction)
  /\ clipboard' = {}
  /\ UNCHANGED <<copy, copyMode>>

ConfirmTerminalCopyMode ==
  /\ copyMode
  /\ clipboard' = Marked(grid)
  /\ ClearSelection
  /\ copyMode' = FALSE

CancelTerminalCopyMode ==
  /\ copyMode
  /\ ClearSelection
  /\ copyMode' = FALSE
  /\ clipboard' = {}

-----------------------------------------------------------------------------
(* What happens meanwhile. *)
\* Where output may leave the terminal's own cursor.
Corners(size) == {Point(0, 0), Point(size.rows - 1, size.cols - 1)}
Rotated(g, s, lines) ==
  LET up(e) == [e EXCEPT !.at.line = @ - lines]
      moved == <<up(s[1]), up(s[2])>>
  IN  IF Ordered(moved)[2].at.line < Topmost(g) THEN <<>> ELSE moved
\* Output writes over the screen, and may scroll a line into the history.  A
\* viewport that was scrolled back stays with its lines; the selection moves
\* with them or is dropped.
Feed ==
  \E lines \in 0..1, to \in Corners(grid.size), keep \in BOOLEAN :
    LET kept == Within(grid.history + lines, 0, MaxHistory)
        g == [grid EXCEPT !.history = kept, !.cursor = to,
                          !.offset = IF @ = 0 THEN 0 ELSE Within(@ + lines, 0, kept)]
    IN  /\ grid' = [g EXCEPT !.selection =
                      IF @ = <<>> \/ ~keep THEN <<>> ELSE Rotated(g, @, lines)]
        /\ clipboard' = {}
        /\ UNCHANGED <<copy, copyMode>>

\* A new width drops the selection; the lines are wrapped again, so the
\* history may be of any length.  The screen's cursor and anchor stay.
Resize(size) ==
  /\ size # grid.size
  /\ \E history \in 0..MaxHistory, to \in Corners(size) :
       grid' = [grid EXCEPT !.size = size, !.history = history, !.cursor = to,
                            !.offset = Within(@, 0, history),
                            !.selection = IF size.cols # grid.size.cols THEN <<>> ELSE @]
  /\ clipboard' = {}
  /\ UNCHANGED <<copy, copyMode>>

CopyInit ==
  /\ \E size \in GridSizes :
       grid = [size |-> size, history |-> 0, offset |-> 0, cursor |-> Point(0, 0), selection |-> <<>>]
  /\ copy = <<>>
  /\ copyMode = FALSE
  /\ clipboard = {}

CopyNext ==
  \/ EnterTerminalCopyMode
  \/ \E stride \in Strides, extend \in BOOLEAN : MoveTerminalCopySelection(stride, extend)
  \/ \E direction \in {-1, 1} : PageTerminalCopySelection(direction) \/ ScrollTerminalPage(direction)
  \/ ConfirmTerminalCopyMode
  \/ CancelTerminalCopyMode
  \/ Feed
  \/ \E size \in GridSizes : Resize(size)

-----------------------------------------------------------------------------
\* The cells the snapshot draws as selected, by their row in the viewport.
Highlighted(g) ==
  {Point(p.line + g.offset, p.col) : p \in {q \in Marked(g) : q.line + g.offset \in 0..(g.size.rows - 1)}}

\* Whatever the output and the size of the pane did since the last key, a copy
\* key puts the cursor on a cell of the grid that is in the viewport, and when
\* it extends from an anchor the grid still has, the cells drawn and copied are
\* all those from the anchor to the cursor, both ends included, in either
\* direction (move_selection, snapshot).
MovesMarkBothEnds ==
  [][copyMode /\ copyMode' /\ copy # copy' =>
       LET p == copy'[1].cursor
           a == copy'[1].anchor
           between(x, y) == {q \in GridCells(grid') : ~Earlier(q, x) /\ ~Earlier(y, q)}
           span == between(a, p) \cup between(p, a)
       IN  /\ p \in GridCells(grid')
           /\ p.line + grid'.offset \in 0..(grid'.size.rows - 1)
           /\ a \in GridCells(grid') \ {p} =>
                /\ Marked(grid') = span
                /\ Point(p.line + grid'.offset, p.col) \in Highlighted(grid')]_copyVars
=============================================================================
