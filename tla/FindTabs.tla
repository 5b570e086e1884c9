----------------------------- MODULE FindTabs ------------------------------
(* Tabs, motion, find and replace (crates/app/src/model.rs, with            *)
(* crates/editor/src/{buffer,movement,search}.rs).  Offsets count           *)
(* characters from 0 as the code's do; "n" ends a line.  A find is kept     *)
(* until the next one: an edit, a reload or a change of tab leaves it alone. *)
EXTENDS ChangeSet, FiniteSets

CONSTANTS
  OnDisk,      \* texts a read may deliver
  Queries,     \* what is searched for
  Fillers,     \* what replaces it
  Typed,       \* characters typed
  Height,      \* rows of the editor pane
  MaxTabs,     \* bound: files opened
  MaxStrokes   \* bound: motions, strokes and reloads

VARIABLES tabs, shown, found, prompt, closing, panicked, strokes, opened
tabVars == <<tabs, shown, found, prompt, closing, panicked, strokes, opened>>

\* Lower case: "A" has a letter for one, "Idot" (U+0130) two characters, and every
\* place behind it is then counted one too far.
Upper == {"A", "Idot"}
Lower(c) ==
  CASE c = "A" -> <<"a">>
    [] c = "Idot" -> <<"i", "dot">>
    [] OTHER -> <<c>>
Lowered(s) == FlattenSeq([i \in DOMAIN s |-> Lower(s[i])])
SensitiveFor(q) == \E i \in DOMAIN q : q[i] \in Upper

HoldsAt(text, q, at) == at + Len(q) <= Len(text) /\ \A i \in DOMAIN q : text[at + i] = q[i]
\* match_indices: left to right, the next one after the end of the last.
Occurrences(text, q) ==
  LET scan[at \in 0 .. Len(text)] ==
        IF at = Len(text) THEN <<>>
        ELSE IF HoldsAt(text, q, at)
             THEN <<at>> \o scan[at + Len(q)]
             ELSE scan[at + 1]
  IN  scan[0]
\* The places are those of the text that was searched, lowered or not.
FindAll(text, q) ==
  LET at == IF SensitiveFor(q) THEN Occurrences(text, q) ELSE Occurrences(Lowered(text), Lowered(q))
      n == IF SensitiveFor(q) THEN Len(q) ELSE Len(Lowered(q))
  IN  [i \in DOMAIN at |-> [start |-> at[i], end |-> at[i] + n]]

\* The first match at or after an offset, or the first; the last one before
\* it, or the last.  0 when there is none.
NextFrom(ms, from) ==
  LET after == {i \in DOMAIN ms : ms[i].start >= from}
  IN  IF ms = <<>> THEN 0 ELSE IF after = {} THEN 1 ELSE Min(after)
PrevFrom(ms, from) ==
  LET before == {i \in DOMAIN ms : ms[i].start < from}
  IN  IF ms = <<>> THEN 0 ELSE IF before = {} THEN Len(ms) ELSE Max(before)

-----------------------------------------------------------------------------
(* Lines and motion. *)
Least(a, b) == IF a < b THEN a ELSE b
Breaks(text, upto) == {i \in 1 .. upto : text[i] = "n"}
LineOf(text, pos) == Cardinality(Breaks(text, Least(pos, Len(text))))
LastLine(text) == LineOf(text, Len(text))
LineStart(text, line) ==
  IF line = 0 THEN 0
  ELSE CHOOSE i \in Breaks(text, Len(text)) : Cardinality(Breaks(text, i)) = line
LineEnd(text, line) == IF line = LastLine(text) THEN Len(text) ELSE LineStart(text, line + 1) - 1
ColumnOf(text, pos) == Least(pos, Len(text)) - LineStart(text, LineOf(text, pos))
ToLine(text, line, column) == Least(LineStart(text, line) + column, LineEnd(text, line))
Vertical(text, pos, goal, down) ==
  LET line == LineOf(text, pos)
  IN  CASE down /\ line = LastLine(text) -> pos
        [] ~down /\ line = 0 -> pos
        [] OTHER -> ToLine(text, IF down THEN line + 1 ELSE line - 1, goal)

\* scroll_to_cursor: the least that shows the cursor's line, with a margin in
\* a pane of more than four rows.
ScrollTo(t, rows) ==
  LET line == LineOf(t.text, t.head)
      margin == IF rows > 4 THEN 1 ELSE 0
      low == line + margin + 1
  IN  CASE rows = 0 -> t
        [] rows > 0 /\ line < t.top + margin -> [t EXCEPT !.top = IF line < margin THEN 0 ELSE line - margin]
        [] rows > 0 /\ line >= t.top + margin /\ line + margin >= t.top + rows ->
             [t EXCEPT !.top = IF low < rows THEN 0 ELSE low - rows]
        [] OTHER -> t

Select(t, from, to) == [t EXCEPT !.anchor = from, !.head = to]
NoGoal == -1
MoveTo(t, pos) == [Select(t, pos, pos) EXCEPT !.goal = NoGoal]
MoveHorizontally(t, where) ==
  LET line == LineOf(t.text, t.head)
  IN  MoveTo(t, CASE where = "left" -> IF t.head = 0 THEN 0 ELSE t.head - 1
                  [] where = "right" -> Least(t.head + 1, Len(t.text))
                  [] where = "home" -> LineStart(t.text, line)
                  [] OTHER -> LineEnd(t.text, line))
MoveLine(t, down) ==
  LET goal == IF t.goal = NoGoal THEN ColumnOf(t.text, t.head) ELSE t.goal
      pos == Vertical(t.text, t.head, goal, down)
  IN  [Select(t, pos, pos) EXCEPT !.goal = goal]

-----------------------------------------------------------------------------
(* Edits.  ChangeSetBuilder::build panics on a change that consumes more    *)
(* than the document has.                                                   *)
Fits(t, to) == to <= Len(t.text)
Changed(t, cs) == [t EXCEPT !.text = Apply(cs, @), !.anchor = MapPos(cs, @, "After"),
                            !.head = MapPos(cs, @, "After"), !.dirty = TRUE]
EditTab(t, from, to, s) == [Changed(t, Replace(Len(t.text), from, to, s)) EXCEPT !.goal = NoGoal]
Newly(id, text) == [id |-> id, text |-> text, anchor |-> 0, head |-> 0, goal |-> NoGoal,
                    top |-> 0, dirty |-> FALSE]

NoFind == [query |-> <<>>, matches |-> <<>>, current |-> 0, of |-> <<>>]
Tab == tabs[shown]
TabInit ==
  /\ \E a \in OnDisk : tabs = <<Newly(1, a)>>
  /\ shown = 1 /\ found = NoFind /\ prompt = "nothing" /\ closing = 0 /\ panicked = "no" /\ strokes = 0 /\ opened = 1

Idle == panicked = "no" /\ prompt = "nothing" /\ shown > 0
ShowTab(t) == tabs' = [tabs EXCEPT ![shown] = t]

Move(where) ==
  /\ Idle /\ strokes < MaxStrokes /\ strokes' = strokes + 1
  /\ ShowTab(ScrollTo(IF where \in {"up", "down"} THEN MoveLine(Tab, where = "down")
                      ELSE MoveHorizontally(Tab, where), Height))
  /\ UNCHANGED <<closing, shown, found, prompt, panicked, opened>>

EditTo(from, to, s) ==
  IF Fits(Tab, to)
  THEN /\ ShowTab(ScrollTo(EditTab(Tab, from, to, s), Height)) /\ strokes' = strokes + 1
       /\ UNCHANGED panicked
  ELSE panicked' = "edit" /\ UNCHANGED <<tabs, strokes>>
\* Nothing to delete: the column is forgotten and the cursor shown.
NoEdit ==
  /\ ShowTab(ScrollTo([Tab EXCEPT !.goal = NoGoal], Height))
  /\ strokes' = strokes + 1 /\ UNCHANGED panicked
Start == Least(Tab.anchor, Tab.head)
End == IF Tab.anchor > Tab.head THEN Tab.anchor ELSE Tab.head
TypeText(c) ==
  /\ Idle /\ strokes < MaxStrokes /\ EditTo(Start, End, <<c>>)
  /\ UNCHANGED <<closing, shown, found, prompt, opened>>
Backspace ==
  /\ Idle /\ strokes < MaxStrokes
  /\ CASE Start # End -> EditTo(Start, End, <<>>)
       [] Start = End /\ Tab.head > 0 -> EditTo(Tab.head - 1, Tab.head, <<>>)
       [] OTHER -> NoEdit
  /\ UNCHANGED <<closing, shown, found, prompt, opened>>
DeleteAhead ==
  /\ Idle /\ strokes < MaxStrokes
  /\ CASE Start # End -> EditTo(Start, End, <<>>)
       [] Start = End /\ Tab.head < Len(Tab.text) -> EditTo(Tab.head, Tab.head + 1, <<>>)
       [] OTHER -> NoEdit
  /\ UNCHANGED <<closing, shown, found, prompt, opened>>

-----------------------------------------------------------------------------
(* Find and replace. *)
OpenFindPrompt(kind) ==
  /\ Idle /\ (kind = "replace" => found # NoFind)
  /\ prompt' = kind /\ UNCHANGED <<closing, tabs, shown, found, panicked, strokes, opened>>
ClosePrompt ==
  /\ prompt # "nothing" /\ panicked = "no" /\ prompt' = "nothing" /\ closing' = 0
  /\ UNCHANGED <<tabs, shown, found, panicked, strokes, opened>>

\* focus_match paints every match on the tab that is shown and selects the
\* current one there.
FocusMatch(f) ==
  IF f.current = 0 \/ shown = 0 THEN UNCHANGED tabs
  ELSE ShowTab(ScrollTo(Select(Tab, f.matches[f.current].start, f.matches[f.current].end), Height))

RunFind(q) ==
  /\ prompt = "find" /\ panicked = "no" /\ prompt' = "nothing"
  /\ IF shown = 0 THEN UNCHANGED <<tabs, found>>
     ELSE LET ms == FindAll(Tab.text, q)
          IN  /\ found' = [query |-> q, matches |-> ms, current |-> NextFrom(ms, Tab.head), of |-> Tab.text]
              /\ FocusMatch(found')
  /\ UNCHANGED <<closing, shown, panicked, strokes, opened>>
ClearFind ==
  /\ prompt = "find" /\ panicked = "no" /\ prompt' = "nothing" /\ found' = NoFind
  /\ UNCHANGED <<closing, tabs, shown, panicked, strokes, opened>>

\* Mutant: forward from the start of the current match, which finds itself.
SteppedFromStart(f, forward) ==
  LET from == IF f.current = 0 THEN 0 ELSE f.matches[f.current].start
  IN  IF forward THEN NextFrom(f.matches, from) ELSE PrevFrom(f.matches, from)
Stepped(f, forward) ==
  LET from == CASE f.current = 0 -> 0
                [] f.current # 0 /\ forward -> f.matches[f.current].end
                [] OTHER -> f.matches[f.current].start
  IN  IF forward THEN NextFrom(f.matches, from) ELSE PrevFrom(f.matches, from)
StepMatch(forward) ==
  /\ panicked = "no" /\ prompt = "nothing" /\ found.matches # <<>>
  /\ found' = [found EXCEPT !.current = Stepped(found, forward)]
  /\ FocusMatch(found')
  /\ UNCHANGED <<closing, shown, prompt, panicked, strokes, opened>>

\* The matches as they were found become one change of the tab that is shown.
ReplaceOps(ms, s) ==
  LET step(ops, i) ==
        LET at == IF i = 1 THEN 0 ELSE ms[i - 1].end
        IN  AddInsert(AddDelete(AddRetain(ops, ms[i].start - at), ms[i].end - ms[i].start), s)
      all[i \in 0 .. Len(ms)] == IF i = 0 THEN <<>> ELSE step(all[i - 1], i)
  IN  all[Len(ms)]
ReplaceEvery(s) ==
  /\ prompt = "replace" /\ panicked = "no" /\ strokes < MaxStrokes /\ prompt' = "nothing"
  /\ CASE found.matches = <<>> \/ shown = 0 -> UNCHANGED <<tabs, found, panicked, strokes>>
       [] found.matches # <<>> /\ shown > 0 /\ ~CanBuild(ReplaceOps(found.matches, s), Len(Tab.text)) ->
            panicked' = "replace" /\ UNCHANGED <<tabs, found, strokes>>
       [] OTHER -> /\ ShowTab(Changed(Tab, Build(ReplaceOps(found.matches, s), Len(Tab.text))))
                   /\ found' = NoFind /\ strokes' = strokes + 1 /\ UNCHANGED panicked
  /\ UNCHANGED <<closing, shown, opened>>

-----------------------------------------------------------------------------
(* Tabs. *)
CycleTabs(step) ==
  /\ Idle /\ Len(tabs) > 1
  /\ shown' = ((shown - 1 + step + Len(tabs)) % Len(tabs)) + 1
  /\ UNCHANGED <<closing, tabs, found, prompt, panicked, strokes, opened>>
\* The neighbour to the left of the closed tab is shown.
DiscardBuffer(i) ==
  /\ tabs' = RemoveAt(tabs, i)
  /\ shown' = IF Len(tabs) = 1 THEN 0 ELSE IF i = 1 THEN 1 ELSE i - 1
CloseShown ==
  /\ Idle
  /\ IF Tab.dirty THEN prompt' = "close" /\ closing' = Tab.id /\ UNCHANGED <<tabs, shown>>
     ELSE DiscardBuffer(shown) /\ UNCHANGED <<prompt, closing>>
  /\ UNCHANGED <<found, panicked, strokes, opened>>
ConfirmClose ==
  /\ prompt = "close" /\ panicked = "no" /\ prompt' = "nothing"
  /\ \E i \in DOMAIN tabs : tabs[i].id = closing /\ DiscardBuffer(i)
  /\ UNCHANGED <<found, panicked, strokes, opened>> /\ closing' = 0
\* A read answers, whatever is shown meanwhile: a new tab at the end, or the
\* text of an open one, with the selection it had.
FileArrives(text) ==
  /\ panicked = "no" /\ opened < MaxTabs /\ opened' = opened + 1
  /\ tabs' = Append(tabs, Newly(opened + 1, text)) /\ shown' = Len(tabs')
  /\ UNCHANGED <<closing, found, prompt, panicked, strokes>>
Reload(i, text) ==
  /\ panicked = "no" /\ i \in DOMAIN tabs /\ strokes < MaxStrokes /\ strokes' = strokes + 1
  /\ tabs' = [tabs EXCEPT ![i] = Select(Newly(tabs[i].id, text), tabs[i].anchor, tabs[i].head)]
  /\ UNCHANGED <<closing, shown, found, prompt, panicked, opened>>

TabNext ==
  \/ \E w \in {"left", "right", "home", "end", "up", "down"} : Move(w)
  \/ \E c \in Typed : TypeText(c)
  \/ Backspace \/ DeleteAhead \/ ClosePrompt \/ ClearFind \/ CloseShown \/ ConfirmClose
  \/ \E k \in {"find", "replace"} : OpenFindPrompt(k)
  \/ \E q \in Queries : RunFind(q)
  \/ \E s \in Fillers : ReplaceEvery(s)
  \/ \E b \in BOOLEAN : StepMatch(b)
  \/ \E s \in {-1, 1} : CycleTabs(s)
  \/ \E t \in OnDisk : FileArrives(t) \/ \E i \in DOMAIN tabs : Reload(i, t)

-----------------------------------------------------------------------------
(* Properties. *)
\* Find reports every occurrence once: each match holds the query up to case,
\* the matches do not overlap, and every occurrence shares text with one.
Alike(a, b, exact) == a = b \/ (~exact /\ Lower(a) = Lower(b))
Occurs(text, q, at) ==
  /\ at + Len(q) <= Len(text)
  /\ \A i \in DOMAIN q : Alike(text[at + i], q[i], SensitiveFor(q))

\* Next and previous walk through the matches one by one and wrap: no match
\* is skipped and none holds the cursor.
SteppingVisitsEveryMatch ==
  LET n == Len(found.matches) IN
  found.current > 0 =>
     /\ Stepped(found, TRUE) = (found.current % n) + 1
     /\ Stepped(found, FALSE) = IF found.current = 1 THEN n ELSE found.current - 1

\* The same of a keystroke at the cursor.
EditFitsTheDocument == panicked # "edit"

\* In the first n characters every occurrence of the query meets a match and the
\* matches are occurrences; no two matches overlap (search.rs, find_all).
FindIsExactIn(n) ==
  LET ms == found.matches IN
  /\ \A i \in DOMAIN ms : ms[i].end <= n => Occurs(found.of, found.query, ms[i].start)
  /\ \A i, j \in DOMAIN ms : i < j => ms[i].end <= ms[j].start
  /\ found.query # <<>> =>
       \A at \in 0 .. Len(found.of) :
         at + Len(found.query) <= n /\ Occurs(found.of, found.query, at) =>
           \E i \in DOMAIN ms : ms[i].start < at + Len(found.query) /\ at < ms[i].end

\* The characters whose places a search counts as the text does: all, if it tells the
\* case, and else those before the first whose lower case is longer.
Counted(text, q) ==
  LET longer == {i \in DOMAIN text : Len(Lower(text[i])) > 1}
  IN  IF SensitiveFor(q) \/ longer = {} THEN Len(text) ELSE Min(longer) - 1
FindIsComplete == FindIsExactIn(Counted(found.of, found.query))

\* "Every occurrence of `needle`, left to right, non-overlapping" (find_all), wherever it
\* is: not so of the code behind a character whose lower case is longer.
FindIsExact ==
  /\ FindIsExactIn(Len(found.of))
  /\ \A i \in DOMAIN found.matches : found.matches[i].end <= Len(found.of)

\* The find bar knows every match of the text it searched, as far as lower case leaves
\* its places alone, no two overlapping, and stepping goes through all of them, right or
\* shifted (find_all, step_match).
FindVisitsEveryMatch == FindIsComplete /\ SteppingVisitsEveryMatch

============================================================================
