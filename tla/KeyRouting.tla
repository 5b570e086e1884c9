---------------------------- MODULE KeyRouting -----------------------------
(* Where a key goes (crates/app/src/input.rs), what the key map makes of it *)
(* (crates/config/src/{lib,keymap_file,settings}.rs) and how the two user   *)
(* files come to be in force (crates/app/src/model.rs).  A chord and a      *)
(* command are names; one stands for each kind the routing tells apart.     *)
EXTENDS Naturals, Sequences, TLC

CONSTANTS
  KeymapFiles,    \* contents keymap.toml may have
  SettingsFiles,  \* contents config.toml may have: the exclusions, or a failure
  MaxOverlays,    \* bound: overlays on top of each other
  MaxReloads,     \* bound: config.reload
  MaxFileEdits    \* bound: changes of the two files

VARIABLES focus, before, overlays, copying, shell, tasked, tab, asked, running,
          keymap, exclusions, treeUses, onDisk, lastRead, requests, reloads, fileEdits
routeVars == <<focus, before, overlays, copying, shell, tasked, tab, asked, running,
               keymap, exclusions, treeUses, onDisk, lastRead, requests, reloads, fileEdits>>
configVars == <<keymap, exclusions, treeUses, onDisk, lastRead, requests, reloads, fileEdits>>

Panes == {"Project", "Editor", "Agent", "Terminal"}

-----------------------------------------------------------------------------
(* The key map. *)
DefaultBindings ==
  {<<"Global", "Tab", "FocusNext">>, <<"Global", "BackTab", "FocusPrev">>,
   <<"Global", "F10", "OpenPalette">>, <<"Global", "F11", "HelpShow">>,
   <<"Global", "Ctrl+Q", "Quit">>, <<"Global", "Esc", "CloseOverlay">>,
   <<"Global", "F2", "FocusEditor">>, <<"Global", "F7", "FocusAgent">>,
   <<"Global", "F6", "TerminalFocus">>, <<"Global", "F4", "AgentPrompt">>,
   <<"Global", "Shift+F5", "TaskCancel">>, <<"Global", "Ctrl+Tab", "NextTab">>,
   <<"Project", "Enter", "ExplorerToggle">>, <<"Editor", "Enter", "Newline">>,
   <<"Agent", "Enter", "AgentPrompt">>, <<"Agent", "y", "AllowOnce">>, <<"Agent", "n", "Deny">>,
   <<"Terminal", "Alt+C", "CopyMode">>, <<"Terminal", "Enter", "CopyConfirm">>,
   <<"Terminal", "Esc", "CopyCancel">>, <<"Terminal", "Shift+PageUp", "ScrollUp">>}
Contexts == Panes \cup {"Global"}
Chords == {b[2] : b \in DefaultBindings} \cup {"Ctrl+I"}
DefaultKeymap ==
  [at \in Contexts \X Chords |->
     IF \E b \in DefaultBindings : <<b[1], b[2]>> = at
     THEN (CHOOSE b \in DefaultBindings : <<b[1], b[2]>> = at)[3] ELSE "nothing"]

\* Mutant: a binding of any pane serves when the focused one has none.
ResolveAnywhere(map, chord, context) ==
  CASE map[<<context, chord>>] # "nothing" -> map[<<context, chord>>]
    [] map[<<context, chord>>] = "nothing" /\ map[<<"Global", chord>>] # "nothing" -> map[<<"Global", chord>>]
    [] OTHER -> IF \E c \in Panes : map[<<c, chord>>] # "nothing"
                THEN map[<<CHOOSE c \in Panes : map[<<c, chord>>] # "nothing", chord>>] ELSE "nothing"
Resolve(map, chord, context) ==
  IF map[<<context, chord>>] # "nothing" THEN map[<<context, chord>>] ELSE map[<<"Global", chord>>]

\* What the registry offers to the palette and to keymap.toml.
Actions == {"HelpShow", "FocusEditor", "FocusAgent", "TerminalFocus", "CopyMode", "TaskCancel",
            "AgentPrompt", "ConfigReload"}
IsPaneFocus(cmd) == cmd \in {"FocusEditor", "FocusAgent", "TerminalFocus"}
IsReservedTerminalCommand(cmd) == IsPaneFocus(cmd) \/ cmd \in {"CopyMode", "HelpShow"}
IsTerminalCopyCommand(cmd) == cmd \in {"CopyConfirm", "CopyCancel"}
IsTerminalAmbiguous(chord) == chord = "Ctrl+I"

\* apply_keymap_file: a line that names an undeliverable chord or no action is
\* skipped; a file that does not parse changes nothing.
GoodLines(file) == {l \in file.lines : ~IsTerminalAmbiguous(l[2]) /\ l[3] \in Actions}
Overlaid(map, file) ==
  LET good == IF file.state = "read" THEN GoodLines(file) ELSE {}
      bound == [at \in {<<l[1], l[2]>> : l \in good} |-> (CHOOSE l \in good : <<l[1], l[2]>> = at)[3]]
  IN  bound @@ map
\* Laid over the compiled defaults; the defaults alone when the file is
\* missing, unreadable or broken.
ApplyKeymap(file) == keymap' = Overlaid(DefaultKeymap, file)

\* Settings::parse: the defaults, with no exclusion, for a file that fails.
ParsedExclusions(file) == IF file.state = "read" THEN file.lines ELSE {}
\* A change of the exclusions lists the loaded directories again.
ApplySettings(file) ==
  /\ exclusions' = ParsedExclusions(file)
  /\ requests' = IF exclusions' = exclusions THEN Tail(requests) ELSE Append(Tail(requests), "dir")

\* The worker answers in order; a listing is filtered when it arrives.
ConfigAnswer ==
  /\ requests # <<>>
  /\ CASE Head(requests) = "settings" -> ApplySettings(onDisk.settings) /\ UNCHANGED <<keymap, treeUses, lastRead>>
       [] Head(requests) = "keymap" ->
            /\ ApplyKeymap(onDisk.keymap) /\ lastRead' = onDisk.keymap /\ requests' = Tail(requests)
            /\ UNCHANGED <<exclusions, treeUses>>
       [] OTHER -> treeUses' = exclusions /\ requests' = Tail(requests) /\ UNCHANGED <<keymap, exclusions, lastRead>>
  /\ UNCHANGED <<focus, before, overlays, copying, shell, tasked, tab, asked, running, onDisk, reloads, fileEdits>>
ReloadConfig ==
  /\ reloads < MaxReloads /\ reloads' = reloads + 1 /\ requests' = requests \o <<"settings", "keymap">>
  /\ UNCHANGED <<keymap, exclusions, treeUses, onDisk, lastRead, fileEdits>>
\* Another program writes one of the files.
EditConfigFile ==
  /\ fileEdits < MaxFileEdits /\ fileEdits' = fileEdits + 1
  /\ \/ \E f \in KeymapFiles : onDisk' = [onDisk EXCEPT !.keymap = f]
     \/ \E f \in SettingsFiles : onDisk' = [onDisk EXCEPT !.settings = f]
  /\ UNCHANGED <<focus, before, overlays, copying, shell, tasked, tab, asked, running, keymap,
                 exclusions, treeUses, lastRead, requests, reloads>>

-----------------------------------------------------------------------------
(* Commands. *)
KeyContext == IF focus = "Editor" /\ ~tab THEN "Global" ELSE focus
Open(kind) == overlays' = Append(overlays, [kind |-> kind, back |-> focus])
FocusPane(pane) == focus' = pane /\ copying' = (IF focus = "Terminal" /\ pane # "Terminal" THEN FALSE ELSE copying)
FocusTerminalPane == focus' = "Terminal" /\ before' = IF focus = "Terminal" THEN before ELSE focus
ToggleTerminalFocus ==
  IF focus = "Terminal"
  THEN copying' = FALSE /\ focus' = before /\ UNCHANGED <<before, shell, tasked>>
  ELSE /\ FocusTerminalPane /\ shell' = (IF shell = "none" THEN "live" ELSE shell) /\ UNCHANGED <<copying, tasked>>
\* The ring leaves the terminal out: from there it resumes where the user was.
Ring(pane) == CASE pane = "Project" -> "Editor" [] pane = "Editor" -> "Agent"
                [] pane = "Agent" -> "Project" [] OTHER -> before
RingBack(pane) == CASE pane = "Project" -> "Agent" [] pane = "Editor" -> "Project"
                    [] pane = "Agent" -> "Editor" [] OTHER -> before

paneVars == <<focus, before, copying, shell, tasked>>
Dispatch(cmd, under) ==
  CASE cmd \in {"FocusEditor", "FocusAgent"} ->
         /\ FocusPane(IF cmd = "FocusEditor" THEN "Editor" ELSE "Agent") /\ overlays' = under
         /\ UNCHANGED <<before, shell, tasked, tab, asked, running, configVars>>
    [] cmd = "TerminalFocus" ->
         ToggleTerminalFocus /\ overlays' = under /\ UNCHANGED <<tab, asked, running, configVars>>
    [] cmd \in {"FocusNext", "FocusPrev"} ->
         /\ focus' = (IF cmd = "FocusNext" THEN Ring(focus) ELSE RingBack(focus)) /\ overlays' = under
         /\ UNCHANGED <<before, copying, shell, tasked, tab, asked, running, configVars>>
    [] cmd = "NextTab" ->
         /\ focus' = (IF tab THEN "Editor" ELSE focus) /\ overlays' = under
         /\ UNCHANGED <<before, copying, shell, tasked, tab, asked, running, configVars>>
    [] cmd \in {"HelpShow", "OpenPalette", "AgentPrompt"} ->
         /\ Len(under) < MaxOverlays
         /\ overlays' = Append(under, [kind |-> CASE cmd = "HelpShow" -> "result"
                                                  [] cmd = "OpenPalette" -> "palette" [] OTHER -> "prompt",
                                       back |-> focus])
         /\ UNCHANGED <<paneVars, tab, asked, running, configVars>>
    [] cmd = "CopyMode" ->
         /\ overlays' = under
         /\ IF shell = "none" THEN UNCHANGED <<focus, before, copying>> ELSE FocusTerminalPane /\ copying' = TRUE
         /\ UNCHANGED <<shell, tasked, tab, asked, running, configVars>>
    [] cmd \in {"CopyConfirm", "CopyCancel"} ->
         /\ copying' = FALSE /\ overlays' = under
         /\ UNCHANGED <<focus, before, shell, tasked, tab, asked, running, configVars>>
    [] cmd = "TaskCancel" ->
         /\ tasked' = FALSE /\ overlays' = under
         /\ UNCHANGED <<focus, before, copying, shell, tab, asked, running, configVars>>
    [] cmd \in {"AllowOnce", "Deny"} ->
         asked' = FALSE /\ overlays' = under /\ UNCHANGED <<paneVars, tab, running, configVars>>
    [] cmd = "Quit" -> running' = FALSE /\ overlays' = under /\ UNCHANGED <<paneVars, tab, asked, configVars>>
    [] cmd = "CloseOverlay" ->
         /\ overlays' = IF under = <<>> THEN <<>> ELSE SubSeq(under, 1, Len(under) - 1)
         /\ UNCHANGED <<paneVars, tab, asked, running, configVars>>
    [] cmd = "ConfigReload" -> ReloadConfig /\ overlays' = under /\ UNCHANGED <<paneVars, tab, asked, running>>
    [] OTHER -> overlays' = under /\ UNCHANGED <<paneVars, tab, asked, running, configVars>>

-----------------------------------------------------------------------------
(* Routing. *)
TerminalCommand(chord) == Resolve(keymap, chord, "Terminal")
\* Whether the terminal keeps the chord: copy mode ignores what is no copy
\* command, a live shell is typed to.
TerminalTakes(chord) ==
  LET cmd == TerminalCommand(chord)
  IN  /\ focus = "Terminal" /\ ~IsReservedTerminalCommand(cmd) /\ cmd # "ScrollUp"
      /\ ~(tasked /\ cmd = "TaskCancel")
      /\ IF copying THEN ~IsTerminalCopyCommand(cmd) ELSE shell = "live"
\* With no overlay the terminal comes first, then the key map of the pane;
\* what is left is text for the editor.
OnChord(chord) ==
  /\ overlays = <<>>
  /\ IF TerminalTakes(chord) THEN UNCHANGED routeVars
     ELSE Dispatch(Resolve(keymap, chord, KeyContext), <<>>)

Top == overlays[Len(overlays)]
Below == SubSeq(overlays, 1, Len(overlays) - 1)
CloseTop(restore) ==
  /\ overlays' = Below /\ focus' = (IF restore THEN Top.back ELSE focus)
  /\ UNCHANGED <<before, copying, shell, tasked, tab, asked, running, configVars>>
\* The overlay on top has every key: escape leaves it, Enter takes the
\* selection, and what it does not know it ignores.
OverlayEsc == overlays # <<>> /\ CloseTop(Top.kind = "result")
OverlayEnter ==
  /\ overlays # <<>>
  /\ CASE Top.kind = "palette" -> \E a \in Actions : Dispatch(a, Below)
       [] Top.kind = "result" -> CloseTop(TRUE)
       [] OTHER -> CloseTop(FALSE)

\* What happens meanwhile.
ShellExits ==
  /\ shell = "live" /\ shell' = "dead" /\ tasked' = FALSE
  /\ UNCHANGED <<focus, before, copying, overlays, tab, asked, running, configVars>>
TaskStarts ==
  /\ shell # "none" /\ ~tasked /\ tasked' = TRUE /\ shell' = "live"
  /\ UNCHANGED <<focus, before, copying, overlays, tab, asked, running, configVars>>
AnswerOpensOverlay ==
  /\ Len(overlays) < MaxOverlays /\ Open("result")
  /\ UNCHANGED <<paneVars, tab, asked, running, configVars>>
FileOpens ==
  /\ ~tab /\ tab' = TRUE /\ focus' = (IF focus = "Project" THEN "Editor" ELSE focus)
  /\ UNCHANGED <<before, copying, shell, tasked, overlays, asked, running, configVars>>
AgentAsks == ~asked /\ asked' = TRUE /\ UNCHANGED <<paneVars, overlays, tab, running, configVars>>

RouteInit ==
  /\ focus = "Project" /\ before = "Project" /\ overlays = <<>> /\ copying = FALSE /\ shell = "none"
  /\ tasked = FALSE /\ tab = FALSE /\ asked = FALSE /\ running = TRUE
  /\ onDisk \in [keymap : KeymapFiles, settings : SettingsFiles]
  /\ keymap = Overlaid(DefaultKeymap, onDisk.keymap) /\ exclusions = ParsedExclusions(onDisk.settings)
  /\ lastRead = onDisk.keymap /\ treeUses = {} /\ requests = <<"dir">> /\ reloads = 0 /\ fileEdits = 0
RouteNext ==
  /\ running
  /\ \/ \E c \in Chords : OnChord(c)
     \/ OverlayEsc \/ OverlayEnter \/ ShellExits \/ TaskStarts \/ AnswerOpensOverlay \/ FileOpens
     \/ AgentAsks \/ EditConfigFile \/ ConfigAnswer

-----------------------------------------------------------------------------
(* Properties. *)
\* A key acts where it was aimed, whatever the user bound: consent is given
\* only from the agent pane with nothing over it, and the application is left
\* only by a key that neither a live shell nor copy mode nor an overlay owned.
KeysActWhereTheyAreAimed ==
  [][/\ asked /\ ~asked' => focus = "Agent" /\ overlays = <<>>
     /\ ~running' => overlays = <<>> /\ ~(focus = "Terminal" /\ (copying \/ shell = "live"))]_routeVars

============================================================================
