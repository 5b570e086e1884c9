--------------------------- MODULE MCApplication ----------------------------
(* The application around its panes: sessions saved and restored, keys, what *)
(* is drawn, and what is read from other processes.  The parts share no     *)
(* state that these properties need, so each behaviour exercises one of     *)
(* them and leaves the others as they start.                                *)
EXTENDS Startup, KeyRouting, ListOverlays, EditorView, PaneView, CopyMode, Streams,
        AgentContext, WorkspaceSetup, AgentWire

VARIABLE facet   \* the part this behaviour is about
drawingVars == <<overlayVars, viewVars, gridVars, agentVars, copyVars, streamVars,
                promptVars, setupVars, wireVars>>
mcVars == <<facet, startupVars, routeVars, drawingVars>>

(* Sessions. *)
\* Three directories below each other, a file in each of the lower two.
MCUp == [d \in Dirs |-> CASE d = "top" -> <<"top">> [] d = "proj" -> <<"proj", "top">>
                          [] OTHER -> <<"sub", "proj", "top">>]
MCWhere == [d \in Dirs |-> Path(TRUE, CASE d = "top" -> <<>> [] d = "proj" -> <<"proj">>
                                        [] OTHER -> <<"proj", "sub">>)]
MCFileOrder == <<"a.rs", "b.rs">>
MCHome == [f \in {"a.rs", "b.rs"} |-> IF f = "a.rs" THEN "proj" ELSE "sub"]
MCArgs == {<<>>, <<"--trace", "log", "sub">>}
Make(parts, env) == [program |-> "make", args |-> <<>>, cwd |-> Path(TRUE, parts), env |-> env]
MCSpecs == {Make(<<"proj", ".">>, {}), Make(<<"proj">>, {"CC"}), Make(<<"proj">>, {}),
            Make(<<"proj", "sub">>, {}), Make(<<"proj", "sub", "..", "..">>, {}), Make(<<"else">>, {})}

(* Keys: the files of the configuration. *)
File(state, lines) == [state |-> state, lines |-> lines]
MCKeymaps ==
  {File("read", {<<"Terminal", "Ctrl+Q", "HelpShow">>, <<"Global", "y", "FocusAgent">>,
                 <<"Global", "Ctrl+I", "HelpShow">>, <<"Agent", "n", "no.such">>}),
   File("broken", {})}
MCSettings == {File("read", {"log"}), File("missing", {})}

RestingFiles == [keymap |-> File("broken", {}), settings |-> File("missing", {})]

(* List overlays: three lists, and the registry of actions by their groups. *)
Row(l, g) == [label |-> l, group |-> g]
MCRows ==
  {<<>>,
   <<Row(<<"a">>, "conflicts"), Row(<<"b", "a">>, "staged"), Row(<<"b">>, "staged"),
     Row(<<"a", "b">>, "changes")>>,
   <<Row(<<"b">>, "changes"), Row(<<"a">>, "changes")>>}
Times(n, g) == [i \in 1 .. n |-> g]
MCGroups ==
  Times(6, "file") \o Times(2, "workspace") \o Times(4, "window") \o Times(8, "terminal")
    \o Times(8, "git") \o Times(2, "tasks") \o Times(3, "problems") \o Times(11, "code")
    \o Times(5, "agent") \o <<"help", "config">>
MCHelp == [i \in DOMAIN MCGroups |-> Row(<<>>, MCGroups[i])]
MCScreens == {[w |-> 80, h |-> 24], [w |-> 59, h |-> 8], [w |-> 100, h |-> 50]}

(* The editor: an empty text, one long enough to scroll and to widen the    *)
(* gutter, and one with a tab for the marks.                                *)
MarkedText == <<"t", "n">>
MCTexts == {<<>>, Times(8, "n") \o <<"z">>, MarkedText}
MCAreas == {[w |-> 12, h |-> 5], [w |-> 8, h |-> 8]}

(* Panes: a roomy one and one with hardly a row. *)
Roomy == [w |-> 20, h |-> 14]
MCPaneSizes == {Roomy, [w |-> 14, h |-> 3]}
MCSayings == {<<4>>, <<3, Space, 9, Break, 12, Space, 30>>}

(* Copy mode. *)
Wide == [rows |-> 2, cols |-> 3]
MCGridSizes == {Wide, [rows |-> 1, cols |-> 2]}
MCStrides == {<<0, -1>>, <<0, 1>>, <<-1, 0>>, <<1, 0>>}

(* Streams. *)
SeqsUpTo(S, n) == UNION {[1 .. k -> S] : k \in 0 .. n}
MCFrameStreams ==
  {junk \o <<"1", "crlf", "crlf", "z">> :
     junk \in SeqsUpTo({"1", "2", "crlf", "type", "bad"}, 4) \cup SeqsUpTo({"1", "crlf", "huge", "z"}, 5)}
TextLine ==
  {<<"a.c", ":", "7", ":", "12", ":", "warning", "msg">>,
   <<"a.c", "(", "7", ",", "12", ")", ":", "error">>,
   <<"a.c", ":", "7", ":", "error", "msg">>,
   <<"[WARNING]", "a.c", ":", "7", ":", "error", "msg">>,
   <<"File", "a.c", "line", "7">>,
   <<"../", "a.c", ":", "7", ":", "12", ":", "msg">>,
   <<"12", ":", "7", ":", "msg">>,
   <<"badutf8">>}
CargoText ==
  {<<"{message", "}">>, <<"{artifact", "}">>, <<"{message">>,
   <<"panicked at", "a.c", ":", "7", ":", "12">>, <<"badutf8">>, <<>>}
Runs(L) == {a \o <<"nl">> \o b \o c : a, b \in L, c \in {<<>>, <<"nl", "msg", "nl">>}}
MCTextStreams == Runs(TextLine)
MCCargoStreams == Runs(CargoText)
MCByteStreams == SeqsUpTo({"a", "l2", "l3", "c", "x"}, 5)
NoStream == [kind |-> "bytes", tokens |-> <<>>]

(* Problems, and what the agent is told of them: two files of text, one     *)
(* that is none, one that is gone, and one that is named from outside.      *)
Report(p,l,c,m,s) == [path |-> p, line |-> l, column |-> c, message |-> m, severity |-> s, origin |-> "none"]
MCTaskReports == {Report(1,3,2,1,1), Report(3,1,1,1,0)}
MCPublications == [p \in {1,2,5} |-> CASE p = 1 -> {<<>>, <<Report(1,3,1,1,0)>>, <<Report(1,1,1,2,2), Report(1,3,4,1,1)>>}
   [] p = 2 -> {<<>>, <<Report(2,1,2,1,3)>>} [] OTHER -> {<<Report(5,1,1,1,0)>>}]
MCReach == <<"text","text","binary","gone","escapes">>
MCFileLines == <<2,9,1,1,1>>
Twice(a) == <<a, a>>
MCWording ==
  [branch |-> Twice("B"), staged |-> Twice("S"), stagedCut |-> <<"S", "C", "C", "C">>, worktree |-> Twice("W"),
   worktreeCut |-> <<"W", "C", "C", "C">>, none |-> <<"-">>, gitMark |-> Twice("G"), loading |-> <<"?">>,
   languages |-> <<"L">>, noLanguages |-> Twice("L"), notStarted |-> <<"N", "N", "N", "N">>, reports |-> Twice("R"),
   outline |-> Twice("O"), notAvailable |-> <<"N", "O">>, noServer |-> <<"X">>, languageMark |-> Twice("M")]
Diff(n) == SubSeq(<<"d", "lead", "cont", "n", "lead", "cont", "d", "n">>, 1, n)
Snapshot(rows, index, cut, worktree) ==
  [load |-> "ready", rows |-> rows, index |-> index, indexCut |-> cut, worktree |-> worktree, worktreeCut |-> cut]
Loading == [load |-> "loading"]
Symbol(n, inner) == [name |-> n, children |-> inner]
Knows(git, languages, servers, outline) ==
  [git |-> git, languages |-> languages, servers |-> servers, outline |-> outline, configured |-> FALSE,
   tabs |-> <<[name |-> "a", dirty |-> TRUE], [name |-> "b", dirty |-> FALSE]>>, tasks |-> <<"t1", "t2">>]
MCRowSets == {<<>>, <<<<"conflicts", "a">>, <<"outside", "b">>, <<"staged", "c">>>>}
MCGitKnowledge ==
  {Knows(Snapshot(rows, index, cut, worktree), <<>>, <<>>, <<>>) :
     rows \in MCRowSets, index \in {Diff(n) : n \in {0, 3, 8}}, cut \in BOOLEAN, worktree \in {Diff(0), Diff(6)}}
MCLanguageKnowledge ==
  {Knows(Loading, <<"r">>, servers, outline) :
     servers \in {<<>>, <<<<"r", "I">>>>},
     outline \in {<<>>, <<Symbol("f", <<Symbol("g", <<>>)>>), Symbol("h", <<>>)>>}}
MCKnowledge == MCGitKnowledge \cup MCLanguageKnowledge

(* Workspaces: one kind, several, a marker that is a directory, and what   *)
(* workspace.toml may say.                                                  *)
Settings(state, lsp, tasks) == [state |-> state, lsp |-> lsp, tasks |-> tasks]
NoLsp == [l \in {} |-> "none"]
DeclaredTask(id, wrong) ==
  [id |-> id, program |-> "cargo", args |-> AsJson("check"), wrong |-> wrong]
Argv == [l \in {"node", "java"} |-> "argv"]
MCWorkspaceFiles ==
  {Settings("absent", NoLsp, <<>>), Settings("damaged", NoLsp, <<>>),
   Settings("read", Argv, <<DeclaredTask("ci", FALSE)>>),
   Settings("read", Argv, <<DeclaredTask("ci", TRUE)>>),
   Settings("read", [Argv EXCEPT !["node"] = "wrong"], <<>>),
   Settings("read", [Argv EXCEPT !["node"] = "none"], <<DeclaredTask("check", FALSE)>>)}
RootDir(names, directories, scripts, settings) ==
  [names |-> names, readable |-> names \ directories, scripts |-> scripts, settings |-> settings]
MCRoots ==
  {RootDir({"Cargo.toml", "package.json", "yarn.lock"}, {}, <<"build", "lint", "test">>, f) : f \in MCWorkspaceFiles}
  \cup {RootDir({"settings.gradle.kts", "gradlew"}, {}, <<>>, f) : f \in MCWorkspaceFiles}
  \cup {RootDir({"pom.xml", "build.gradle", "pyproject.toml"}, {"pom.xml"}, <<>>, f) : f \in MCWorkspaceFiles}
  \cup {RootDir({"go.mod"}, {}, <<>>, f) : f \in MCWorkspaceFiles}
MCCommands == {[program |-> "cargo", args |-> AsJson("check")], [program |-> "cargo", args |-> <<"check">>],
               [program |-> "yarn", args |-> <<"run", "lint">>]}

(* What an agent may write: calls, good and damaged, and updates.             *)
Call(id, method, params) == Obj([id |-> id, method |-> Str(method), params |-> Obj(params)])
Update(name, update) ==
  Obj([method |-> Str("session/update"), params |-> Obj([sessionId |-> Str(name), update |-> Obj(update)])])
Speech(name, kind, words) == Update(name, [sessionUpdate |-> Str(kind), content |-> Obj([text |-> words])])
WireArgv(s) == Arr([i \in DOMAIN s |-> IF s[i] = "7" THEN Num(7) ELSE Str(s[i])])
Var(name) == Arr(<<Obj([name |-> Str(name), value |-> Str("1")])>>)
WireDiff == Obj([type |-> Str("diff"), path |-> Str("a.rs"), newText |-> Str("x")])
Tool(raw) == Obj([title |-> Str("run"), rawInput |-> Obj(raw), content |-> Arr(<<Obj([type |-> Num(1)]), WireDiff>>)])
MCAgentLines ==
  <<Update("s1", [sessionUpdate |-> Str("current_mode_update"), modeId |-> Str("auto")]),
    Update("s1", [sessionUpdate |-> Str("current_mode_update"), modeId |-> Num(1)]),
    Speech("s1", "agent_message_chunk", Str("m")), Speech("s1", "agent_thought_chunk", Str("t")),
    Speech("s9", "agent_message_chunk", Absent),
    Update("s1", [sessionUpdate |-> Str("tool_call"),
                  content |-> Arr(<<WireDiff, Obj([type |-> Str("terminal"), terminalId |-> Str("t1")]),
                                    Obj([type |-> Str("diff"), path |-> Str("a.rs")])>>)]),
    Call(Num(1), "fs/read_text_file", [path |-> Str("a.rs")]), Call(Num(2), "fs/read_text_file", [line |-> Num(1)]),
    Call(Num(3), "fs/write_text_file", [path |-> Str("a.rs"), content |-> Str("x")]),
    Call(Num(4), "fs/write_text_file", [path |-> Str("a.rs")]),
    Call(Num(5), "session/request_permission",
         [sessionId |-> Str("s1"),
          toolCall |-> Tool([command |-> WireArgv(<<"make", "all">>), cwd |-> Str("/work"), env |-> Var("CC")])]),
    Call(Num(6), "session/request_permission",
         [sessionId |-> Str("s1"),
          toolCall |-> Tool([command |-> WireArgv(<<"make", "7", "all">>), cwd |-> Str("/work"), env |-> Var("CC")])]),
    Call(Num(8), "terminal/create",
         [sessionId |-> Str("s1"), command |-> Str("make"), cwd |-> Str("/work/sub"), env |-> Var("CC")]),
    Call(Num(9), "terminal/create",
         [sessionId |-> Str("s1"), command |-> Str("make"), cwd |-> Str("/work/.."), args |-> WireArgv(<<"all">>)]),
    Call(Num(10), "terminal/create",
         [sessionId |-> Str("s1"), command |-> Str("make"), cwd |-> Str("/work"), outputByteLimit |-> Str("all")]),
    Call(Num(11), "terminal/release", [sessionId |-> Str("s1"), terminalId |-> Str("t1")]),
    Call(Num(12), "terminal/output", [sessionId |-> Str("s1"), terminalId |-> Str("t1")]),
    Call(Num(13), "terminal/output", [sessionId |-> Str("s2"), terminalId |-> Str("t1")]),
    Call(Num(14), "session/load", [sessionId |-> Str("s1")]),
    Call(Str("one"), "fs/read_text_file", [path |-> Str("a.rs")]),
    Obj([id |-> Num(99), result |-> True]), Obj([id |-> Num(99), error |-> True]), Obj([id |-> Num(1)]), Str("log")>>
ModeList(current, ids) ==
  Obj([currentModeId |-> current, availableModes |-> Arr([i \in DOMAIN ids |-> Obj([id |-> ids[i]])])])
MCSessionModes ==
  <<ModeList(Str("ask"), <<Str("ask"), Num(1), Str("auto")>>), ModeList(Str("ask"), <<Num(1)>>), Absent>>

-----------------------------------------------------------------------------
Init ==
  /\ facet \in {"sessions", "keys", "lists", "cursor", "marks", "terminals", "agent", "copy",
                "streams", "problems", "setup", "wire"}
  /\ StreamInit  /\ (facet # "streams" => stream = NoStream)
  /\ StartupInit
  /\ RouteInit   /\ (facet # "keys" => onDisk = RestingFiles)
                 /\ onDisk.settings = RestingFiles.settings
  /\ OverlayInit /\ (facet # "lists" => screen = [w |-> 80, h |-> 24])
  /\ ViewInit    /\ (facet \notin {"cursor", "marks"} => text = <<>>)
                 /\ (facet = "marks" <=> text = MarkedText)
                 /\ (facet # "cursor" => area = [w |-> 12, h |-> 5])
  /\ GridInit    /\ (facet # "terminals" => pane = Roomy)
  /\ AgentInit   /\ (facet # "agent" => agentPane = Roomy)
  /\ CopyInit    /\ (facet # "copy" => grid.size = Wide)
  /\ PromptInit
  /\ SetupInit   /\ (facet # "setup" => rootDir = RootDir({"go.mod"}, {}, <<>>, Settings("absent", NoLsp, <<>>)))
  /\ WireInit

AroundRests == UNCHANGED <<startupVars, routeVars>>
Next ==
  /\ facet' = facet
  /\ \/ facet = "sessions" /\ StartupNext /\ UNCHANGED <<routeVars, drawingVars>>
     \/ facet = "keys" /\ RouteNext /\ UNCHANGED <<startupVars, drawingVars>>
     \/ facet = "lists" /\ OverlayNext /\ AroundRests
        /\ UNCHANGED <<viewVars, gridVars, agentVars, copyVars, streamVars, promptVars, setupVars, wireVars>>
     \/ facet = "cursor" /\ CursorNext /\ AroundRests
        /\ UNCHANGED <<overlayVars, gridVars, agentVars, copyVars, streamVars, promptVars, setupVars, wireVars>>
     \/ facet = "marks" /\ MarkNext /\ AroundRests
        /\ UNCHANGED <<overlayVars, gridVars, agentVars, copyVars, streamVars, promptVars, setupVars, wireVars>>
     \/ facet = "terminals" /\ GridNext /\ AroundRests
        /\ UNCHANGED <<overlayVars, viewVars, agentVars, copyVars, streamVars, promptVars, setupVars, wireVars>>
     \/ facet = "agent" /\ AgentNext /\ AroundRests
        /\ UNCHANGED <<overlayVars, viewVars, gridVars, copyVars, streamVars, promptVars, setupVars, wireVars>>
     \/ facet = "copy" /\ CopyNext /\ AroundRests
        /\ UNCHANGED <<overlayVars, viewVars, gridVars, agentVars, streamVars, promptVars, setupVars, wireVars>>
     \/ facet = "streams" /\ StreamNext /\ AroundRests
        /\ UNCHANGED <<overlayVars, viewVars, gridVars, agentVars, copyVars, promptVars, setupVars, wireVars>>
     \* What is known of the repository is told before anything is reported.
     \/ facet = "problems" /\ PromptNext /\ AroundRests
        /\ (prompted'.sent /\ prompted'.known \in MCGitKnowledge => news = 0)
        /\ UNCHANGED <<overlayVars, viewVars, gridVars, agentVars, copyVars, streamVars, setupVars, wireVars>>
     \/ facet = "setup" /\ SetupNext /\ AroundRests
        /\ UNCHANGED <<overlayVars, viewVars, gridVars, agentVars, copyVars, streamVars, promptVars, wireVars>>
     \/ facet = "wire" /\ WireNext /\ AroundRests
        /\ UNCHANGED <<overlayVars, viewVars, gridVars, agentVars, copyVars, streamVars, promptVars, setupVars>>

Spec == Init /\ [][Next]_mcVars

\* What the workspace and its user wrote down holds: the agent is let do what
\* was granted in it, by a file of grants that no one else wrote and that is
\* well formed (permissions.rs), and its servers and tasks are those of its root
\* and its workspace.toml (open_workspace_configured).
WorkspaceIsAsConfigured == GrantsAreExact /\ SetupFollowsTheRoot

\* What passes between the agent and the project: each of the two contexts it
\* is told keeps to its limit and says if that cut it, and its numbered calls,
\* modes, words and the commands it asks leave for are read as it means them
\* (agent_context, protocol.rs).  Not part of it, because the code does not do
\* it: to say that the Git service cut a staged diff or that tasks were left
\* out, to answer a call whose id is no number, to tell the words of an earlier
\* session from those of this one.
AgentIsToldAndHeard == PromptTellsItsCuts /\ WireIsReadAsWritten
=============================================================================
