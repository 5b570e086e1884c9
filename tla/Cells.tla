------------------------------- MODULE Cells --------------------------------
(* Characters, cells and rectangles (crates/ui/src/{text,layout}.rs).       *)
(* A character is "a" (one cell), "w" (two), "z" (none) or "t" (a tab);     *)
(* a line is a sequence of them without its line break.                     *)
EXTENDS Integers, Sequences, SequencesExt

CONSTANT
  TabWidth     \* cells between tab stops

ASSUME TabWidthAssumption == TabWidth \in Nat \ {0}

AtMost(a, b) == IF a < b THEN a ELSE b
AtLeast(a, b) == IF a < b THEN b ELSE a
Less(n, k) == AtLeast(n - k, 0)    \* saturating_sub

-----------------------------------------------------------------------------
(* Characters to cells. *)
CharWidth(c, column) ==
  CASE c = "t" -> TabWidth - (column % TabWidth)
    [] c = "w" -> 2
    [] c = "z" -> 0
    [] OTHER -> 1

\* Mutant: every tab is as wide as the distance between two stops.
DisplayColumnFlat(line, offset) ==
  FoldLeft(LAMBDA column, c : column + (IF c = "t" THEN TabWidth ELSE CharWidth(c, column)),
           0, SubSeq(line, 1, AtMost(offset, Len(line))))
DisplayColumn(line, offset) ==
  FoldLeft(LAMBDA column, c : column + CharWidth(c, column),
           0, SubSeq(line, 1, AtMost(offset, Len(line))))

\* The line to draw, each character with the offset it comes from: a tab
\* becomes the spaces up to its stop.
ExpandTabs(line) ==
  LET put(acc, i) ==
        LET width == CharWidth(line[i], acc.column)
        IN  [text |-> acc.text \o (IF line[i] = "t"
                                   THEN [k \in 1 .. width |-> [char |-> "a", of |-> i - 1]]
                                   ELSE <<[char |-> line[i], of |-> i - 1]>>),
             column |-> acc.column + width]
  IN  FoldLeft(put, [text |-> <<>>, column |-> 0], [i \in DOMAIN line |-> i]).text

\* Wrapping.  A text is a sequence of pieces of words, given by their cells,
\* of spaces and of line breaks.  A word wider than the line is cut at the edge,
\* cell by cell; another goes to the next line when it does not fit.
Space == -1
Break == -2
WrapWord(acc, width) ==
  LET word == acc.word
      needed == IF acc.used = 0 THEN word ELSE word + 1
      cut == (word - 1) \div width
  IN  IF word > width
      THEN [lines |-> acc.lines + cut + AtMost(acc.used, 1), used |-> word - cut * width, word |-> 0]
      ELSE IF acc.used + needed > width
      THEN [lines |-> acc.lines + 1, used |-> word, word |-> 0]
      ELSE [acc EXCEPT !.used = @ + needed, !.word = 0]
WrapPiece(acc, piece, width) ==
  CASE piece = Space -> WrapWord(acc, width)
    [] piece = Break -> [lines |-> WrapWord(acc, width).lines + 1, used |-> 0, word |-> 0]
    [] OTHER -> [acc EXCEPT !.word = @ + piece]
\* The lines that are complete, and the cells of the one that is not.
WrapAll(text, width) ==
  LET upto[i \in 0 .. Len(text)] ==
        IF i = 0 THEN [lines |-> 0, used |-> 0, word |-> 0]
        ELSE CHOOSE next \in {WrapPiece(acc, text[i], width) : acc \in {upto[i - 1]}} : TRUE
  IN  WrapWord(upto[Len(text)], width)
\* How many lines a text takes.
Wrap(text, width) == IF width = 0 THEN 0 ELSE WrapAll(text, width).lines + 1

-----------------------------------------------------------------------------
(* Rectangles.  The layout solver is a library: a share of n cells may be    *)
(* rounded either way, so the heights are sets.                              *)
Percent(p, n) == {(p * n) \div 100, (p * n + 99) \div 100}
CenteredHeights(p, area) == Percent(p, area.h)
OverlayHeights(p, narrow, area) ==
  IF area.w < narrow THEN {Less(area.h, 2)} ELSE CenteredHeights(p, area)
=============================================================================
