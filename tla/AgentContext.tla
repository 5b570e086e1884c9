---------------------------- MODULE AgentContext ----------------------------
(* What a prompt tells the agent of the project (crates/app/src/model.rs):  *)
(* the tabs and the tasks, the state of the repository with its diffs, and  *)
(* what the language servers report, the last two each cut to a limit.  A   *)
(* text is a sequence of bytes: "n" is a line break, "lead" and "cont" the  *)
(* two bytes of one character, any other string a byte of the wording.      *)
EXTENDS Problems, TLC

CONSTANTS
  ContextLimit,   \* bytes of one of the two contexts (64 KiB in the code)
  TaskLimit,      \* tasks of the catalogue that are told (20 in the code)
  Wording,        \* [name -> text]: the fixed lines
  Knowledge       \* what else the model may know: [tabs, tasks, git, languages,
                  \* servers, configured, outline]

VARIABLE prompted   \* the last prompt's context, and what was known then
NotTold == [sent |-> FALSE]
promptVars == <<problemVars, prompted>>

-----------------------------------------------------------------------------
(* BoundedContext: room is left for the mark that says the text was cut.    *)
\* A bug: no room is left for the mark.
NewContextUnreserved(limit, mark) ==
  [text |-> <<>>, room |-> limit, mark |-> mark, cut |-> FALSE, took |-> TRUE, over |-> FALSE]
NewContext(limit, mark) ==
  [text |-> <<>>, room |-> Max({0, limit - Len(mark) - 1}), mark |-> mark,
   cut |-> FALSE, took |-> TRUE, over |-> FALSE]
WriteLine(c, said) ==
  LET starts == c.text = <<>> \/ Last(c.text) = "n"
      line == (IF starts THEN <<>> ELSE <<"n">>) \o said \o <<"n">>
  IN  IF Len(c.text) + Len(line) > c.room THEN [c EXCEPT !.cut = TRUE, !.took = FALSE]
      ELSE [c EXCEPT !.text = @ \o line, !.took = TRUE]
\* A text is taken as far as there is room, but no character in half.
WriteText(c, said) ==
  LET reach == Min({Max({0, c.room - Len(c.text)}), Len(said)})
      end == Max({e \in 0..reach : e \in {0, Len(said)} \/ said[e + 1] # "cont"})
  IN  [c EXCEPT !.text = @ \o SubSeq(said, 1, end), !.took = (end = Len(said)),
                !.cut = @ \/ end < Len(said)]
TrimmedBreaks(t) == SubSeq(t, 1, Max({0} \cup {i \in DOMAIN t : t[i] # "n"}))
Finished(c) ==
  LET body == TrimmedBreaks(c.text)
  IN  IF ~c.cut THEN body ELSE IF body = <<>> THEN c.mark ELSE body \o <<"n">> \o c.mark

\* The pieces of a context: lines that end it when they do not fit, lines
\* that may be left out, and texts, which end it too.
Must(said) == [how |-> "line", must |-> TRUE, said |-> said]
May(said) == [how |-> "line", must |-> FALSE, said |-> said]
Flow(said) == [how |-> "text", must |-> TRUE, said |-> said]
MustAll(said) == [i \in DOMAIN said |-> Must(said[i])]
Put(c, piece) ==
  IF c.over THEN c
  ELSE LET d == IF piece.how = "line" THEN WriteLine(c, piece.said) ELSE WriteText(c, piece.said)
       IN  [d EXCEPT !.over = piece.must /\ ~d.took]
Assembled(limit, pieces, mark) == Finished(FoldLeft(Put, NewContext(limit, mark), pieces))

-----------------------------------------------------------------------------
(* The repository, as the snapshot the human sees has it.                   *)
DiffPieces(diff, cut, cutLine) ==
  (IF diff = <<>> THEN <<May(Wording.none)>> ELSE <<Flow(diff)>>)
    \o IF cut THEN <<May(cutLine)>> ELSE <<>>
GitPieces(g) ==
  <<May(Wording.branch)>> \o MustAll(SelectSeq(g.rows, LAMBDA row : row[1] # "outside"))
    \o <<Must(Wording.staged)>> \o DiffPieces(g.index, g.indexCut, Wording.stagedCut)
    \o <<Must(Wording.worktree)>> \o DiffPieces(g.worktree, g.worktreeCut, Wording.worktreeCut)
GitAgentContext(g) ==
  IF g.load # "ready" THEN Wording[g.load]
  ELSE Assembled(ContextLimit, GitPieces(g), Wording.gitMark)

(* The languages: the servers, the reports of open files with the worst     *)
(* first, the totals of the workspace, and the outline of the shown file.   *)
Told(r) == <<ToString(r.severity), ToString(r.path), ToString(r.line), ToString(r.message)>>
WorseFirst(a, b) ==
  ComesBefore(<<a.severity, a.path, a.line, a.column, a.message>>,
              <<b.severity, b.path, b.line, b.column, b.message>>)
OpenReports ==
  SortSeq(SelectSeq(ProblemRows, LAMBDA r : r.origin = "server" /\ r.path \in editor.open), WorseFirst)
Total(severities) ==
  ToString(SumFunction([p \in DOMAIN diagnostics |->
             Cardinality({i \in DOMAIN diagnostics[p] : diagnostics[p][i].severity \in severities})]))
\* The symbols of a file as a tree of [name, children], each under its parent.
RECURSIVE Outline(_, _)
Outline(symbols, depth) ==
  FlattenSeq([i \in DOMAIN symbols |->
    <<Must([j \in 1..depth |-> " "] \o <<symbols[i].name>>)>> \o Outline(symbols[i].children, depth + 1)])
LanguagePieces(k) ==
  <<May(IF k.languages = <<>> THEN Wording.noLanguages ELSE Wording.languages \o k.languages)>>
    \o (IF k.servers = <<>> THEN <<May(Wording.notStarted)>> ELSE MustAll(k.servers))
    \o <<Must(Wording.reports)>>
    \o (IF OpenReports = <<>> THEN <<Must(Wording.none)>>
        ELSE MustAll([i \in DOMAIN OpenReports |-> Told(OpenReports[i])]))
    \o <<Must(<<Total({0}), Total({1})>>)>>
    \o CASE editor.shown = 0 -> <<>>
         [] editor.shown # 0 /\ k.outline = <<>> -> <<Must(Wording.outline), May(Wording.notAvailable)>>
         [] OTHER -> <<Must(Wording.outline)>> \o Outline(k.outline, 1)
LanguageAgentContext(k) ==
  IF k.languages = <<>> /\ k.servers = <<>> /\ ~k.configured THEN Wording.noServer
  ELSE Assembled(ContextLimit, LanguagePieces(k), Wording.languageMark)

-----------------------------------------------------------------------------
\* Model::send_prompt: the context is made when the prompt is sent.
SendPrompt(k) ==
  /\ ~prompted.sent
  /\ prompted' = [sent |-> TRUE, known |-> k,
              tabs |-> [i \in DOMAIN k.tabs |-> IF k.tabs[i].dirty THEN <<k.tabs[i].name, "unsaved">>
                                               ELSE <<k.tabs[i].name>>],
              tasks |-> SubSeq(k.tasks, 1, Min({TaskLimit, Len(k.tasks)})),
              git |-> GitAgentContext(k.git),
              language |-> LanguageAgentContext(k)]
  /\ UNCHANGED problemVars
PromptInit == ProblemInit /\ prompted = NotTold
PromptNext ==
  \/ ~prompted.sent /\ ProblemNext /\ UNCHANGED prompted
  \/ \E k \in Knowledge : SendPrompt(k)

-----------------------------------------------------------------------------
\* A context against the pieces it was made of: whole when there is room;
\* otherwise within the limit, marked at its end, whole up to the cut but for
\* lines that may be left out, and with no character in half.
HalfCharacters(t) == {i \in DOMAIN t : t[i] = "lead" /\ (i = Len(t) \/ t[i + 1] # "cont")}
TellsItsCut(context, pieces, mark) ==
  LET AnyLength == 10 * ContextLimit
      without(left) == FlattenSeq([i \in DOMAIN pieces |-> IF i \in left THEN <<>> ELSE <<pieces[i]>>])
      whole == Assembled(AnyLength, pieces, mark)
      said == SubSeq(context, 1, Len(context) - Len(mark) - 1)
  IN  /\ Len(context) <= ContextLimit
      /\ \/ context = whole
         \/ /\ Len(whole) + 1 > ContextLimit - Len(mark) - 1
            /\ IsSuffix(mark, context)
            /\ HalfCharacters(said) = {}
            /\ \E left \in SUBSET {i \in DOMAIN pieces : ~pieces[i].must} :
                 IsPrefix(said, Assembled(AnyLength, without(left), mark))

(* What the agent is told of the repository and of the languages fits its   *)
(* limit; where the limit cut it, its end says so, and up to there it is    *)
(* what the human sees, but for lines that may be left out.  Such a line is *)
(* the one that says the Git service had cut a diff (StagedCutIsSaid), and  *)
(* the tasks have no mark at all (AgentHearsEveryTask).                     *)
(* (git_agent_context, lsp_agent_context)                                   *)
PromptTellsItsCuts ==
  prompted.sent =>
    LET k == prompted.known
    IN  /\ k.git.load = "ready" => TellsItsCut(prompted.git, GitPieces(k.git), Wording.gitMark)
        /\ prompted.language # Wording.noServer =>
             TellsItsCut(prompted.language, LanguagePieces(k), Wording.languageMark)

Speaks(context, words) == \E i \in DOMAIN context : IsPrefix(words, SubSeq(context, i, Len(context)))

(* "Truncation is explicit" (docs/adr/0010, line 164): a staged diff the    *)
(* Git service cut is said to be cut before the worktree's diff begins.     *)
StagedCutIsSaid ==
  prompted.sent /\ prompted.known.git.load = "ready" /\ prompted.known.git.indexCut =>
    (Speaks(prompted.git, Wording.worktree) => Speaks(prompted.git, Wording.stagedCut))

(* "the same bounded catalog shown to the human" (docs/adr/0009, line 153): *)
(* the agent is told of every task the human can pick.                      *)
AgentHearsEveryTask == prompted.sent => prompted.tasks = prompted.known.tasks
=============================================================================
