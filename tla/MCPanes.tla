------------------------------ MODULE MCPanes -------------------------------
(* What the panes show: search results, the Git status, the project tree,   *)
(* and the tabs with find and replace.  Each is explored on its own: the    *)
(* first state chooses which one moves, the others rest.                    *)
EXTENDS WorkspaceSearch, GitSync, Explorer, FindTabs

VARIABLE moving
paneVars == <<moving, searchVars, gitVars, explorerVars, tabVars>>

\* Names of the files, their text on disk, the open tab and its text.
MCNames == <<<<"a", "b">>, <<"b">>, <<"a", "a", "b">>>>
MCDisk == <<<<"a", "a">>, <<"a", "a">>, <<"b", "a">>>>
MCTabs == <<2>>
MCLive == <<<<"b", "b", "b">>>>

DiskWith(files, dirs) ==
  [p \in {<<1>>, <<2>>, <<1, 1>>, <<1, 2>>, <<2, 1>>, <<2, 2>>} |->
     IF p \in files THEN "file" ELSE IF p \in dirs THEN "dir" ELSE "none"]
MCDisks == {DiskWith({<<1, 1>>}, {<<1>>}), DiskWith({<<2>>, <<1, 2>>}, {<<1>>})}
MCHidden == {<<2, 2>>}

MCOnDisk == {<<"a", "a", "A">>, <<"a", "Idot", "n", "a">>}
MCPlain == {<<"a", "a", "A">>, <<"b", "n", "a">>}
MCQueries == {<<"a">>, <<"a", "a">>}
MCFillers == {<<"a", "b">>}

\* The services at rest have one initial state, whatever the one that moves has.
Init ==
  /\ moving \in {"search", "git", "explorer", "tabs"}
  /\ SearchInit /\ GitInit /\ ExplorerInit /\ TabInit
  /\ moving # "git" => repo = [p \in Paths |-> "clean"]
  /\ moving # "explorer" => disk = DiskWith({<<1, 1>>}, {<<1>>})
  /\ moving # "tabs" => tabs[1].text = <<"a", "a", "A">>
Next ==
  \/ moving = "search" /\ SearchNext /\ UNCHANGED <<moving, gitVars, explorerVars, tabVars>>
  \/ moving = "git" /\ GitNext /\ UNCHANGED <<moving, searchVars, explorerVars, tabVars>>
  \/ moving = "explorer" /\ ExplorerNext /\ UNCHANGED <<moving, searchVars, gitVars, tabVars>>
  \/ moving = "tabs" /\ TabNext /\ UNCHANGED <<moving, searchVars, gitVars, explorerVars>>
Spec == Init /\ [][Next]_paneVars
============================================================================
