------------------------------ MODULE PaneView ------------------------------
(* The terminal and agent panes as they are drawn (crates/app/src/view.rs,  *)
(* model.rs and main.rs, crates/ui/src/widgets.rs): how the size of the     *)
(* pane reaches the grids and the processes behind it, and what of the      *)
(* agent pane's text is in its window.                                      *)
EXTENDS Cells, FiniteSetsExt

CONSTANTS
  PaneSizes,     \* sizes [w, h] the layout may give a pane
  Sayings,       \* texts that may be added to the transcript
  MaxGrids,      \* bound: terminals opened
  MaxSaid,       \* bound: transcript entries
  MaxEntry,      \* bound: pieces an entry may have before it goes on
  MaxProposals   \* bound: proposals under review

VARIABLES
  pane,       \* the terminal pane, as the window and the layout make it
  term,       \* the model: [grids: Seq([id, live, size]), size, outbox]
  told,       \* the worker: id -> the size its process was last given
  frame,      \* the terminal pane drawn last
  loopAt,     \* the main loop: "turn" or "asleep"
  unheard,    \* the window was resized and the loop has not been told
  opened      \* terminals opened so far
gridVars == <<pane, term, told, frame, loopAt, unheard, opened>>

VARIABLES agentPane, said, asking, proposals, attached, thinking, agentScroll
agentVars == <<agentPane, said, asking, proposals, attached, thinking, agentScroll>>

-----------------------------------------------------------------------------
(* Terminals. *)
\* Mutant: the tab strip is not taken off.
SizeWithoutStrip(p, m) == [rows |-> AtLeast(Less(p.h, 2), 1), cols |-> AtLeast(Less(p.w, 2), 1)]
\* Rows and columns inside the border, below the tab strip.
TerminalSize(p, m) ==
  [rows |-> AtLeast(Less(p.h, 2 + AtMost(Len(m.grids), 1)), 1),
   cols |-> AtLeast(Less(p.w, 2), 1)]

ResizeRequest(g, size) == [id |-> g.id, size |-> size]
\* Every grid takes the size, and every process that can still receive output
\* is told; nothing happens when the size is the same.
SetTerminalSize(m, size) ==
  IF size = m.size THEN m
  ELSE LET live == SelectSeq(m.grids, LAMBDA g : g.live)
       IN  [size |-> size,
            grids |-> [i \in DOMAIN m.grids |-> [m.grids[i] EXCEPT !.size = size]],
            outbox |-> m.outbox \o [i \in DOMAIN live |-> ResizeRequest(live[i], size)]]

\* One turn of the loop: forward the requests, measure the panes, draw, sleep.
DrawTurn ==
  /\ loopAt = "turn"
  /\ told' = [id \in DOMAIN told \cup {term.outbox[i].id : i \in DOMAIN term.outbox} |->
                IF \E i \in DOMAIN term.outbox : term.outbox[i].id = id
                THEN term.outbox[Max({i \in DOMAIN term.outbox : term.outbox[i].id = id})].size
                ELSE told[id]]
  /\ term' = SetTerminalSize([term EXCEPT !.outbox = <<>>], TerminalSize(pane, term))
  /\ frame' = pane
  /\ loopAt' = "asleep"
  /\ UNCHANGED <<pane, unheard, opened>>

\* Messages the loop wakes for.  A new process is started with the size the
\* model has, before the strip its tab brings is measured.
Wakes == loopAt = "asleep" /\ loopAt' = "turn"
OpenTerminal ==
  /\ Wakes /\ opened < MaxGrids
  /\ opened' = opened + 1
  /\ LET g == [id |-> opened + 1, live |-> TRUE, size |-> term.size]
     IN  term' = [term EXCEPT !.grids = Append(@, g), !.outbox = Append(@, ResizeRequest(g, term.size))]
  /\ UNCHANGED <<pane, told, frame, unheard>>
CloseGrid ==
  /\ Wakes
  /\ \E i \in DOMAIN term.grids : term' = [term EXCEPT !.grids = RemoveAt(@, i)]
  /\ UNCHANGED <<pane, told, frame, unheard, opened>>
ProcessEnds ==
  /\ Wakes
  /\ \E i \in DOMAIN term.grids : term.grids[i].live /\ term' = [term EXCEPT !.grids[i].live = FALSE]
  /\ UNCHANGED <<pane, told, frame, unheard, opened>>
\* The same grid with a process of its own, started with the model's size.
RestartGrid ==
  /\ Wakes
  /\ \E i \in DOMAIN term.grids :
       term' = [term EXCEPT !.grids[i] = [@ EXCEPT !.live = TRUE, !.size = term.size],
                            !.outbox = Append(@, ResizeRequest(term.grids[i], term.size))]
  /\ UNCHANGED <<pane, told, frame, unheard, opened>>
\* Alt+arrows: the layout changes and nothing is measured until the next frame.
ResizeLayout ==
  /\ Wakes
  /\ pane' \in PaneSizes \ {pane}
  /\ UNCHANGED <<term, told, frame, unheard, opened>>
\* The window changes at any moment; the message that says so comes later and
\* measures at once.
WindowChanges ==
  /\ ~unheard
  /\ pane' \in PaneSizes \ {pane}
  /\ unheard' = TRUE
  /\ UNCHANGED <<term, told, frame, loopAt, opened>>
HearResize ==
  /\ Wakes /\ unheard
  /\ unheard' = FALSE
  /\ term' = SetTerminalSize(term, TerminalSize(pane, term))
  /\ UNCHANGED <<pane, told, frame, opened>>

GridInit ==
  /\ pane \in PaneSizes
  /\ term = [grids |-> <<>>, size |-> [rows |-> 24, cols |-> 80], outbox |-> <<>>]
  /\ told = <<>> /\ frame = pane /\ loopAt = "turn" /\ unheard = FALSE /\ opened = 0
GridNext ==
  \/ DrawTurn \/ OpenTerminal \/ CloseGrid \/ ProcessEnds \/ RestartGrid
  \/ ResizeLayout \/ WindowChanges \/ HearResize

-----------------------------------------------------------------------------
(* The agent pane. *)
Words(ws) == [i \in 1 .. 2 * Len(ws) - 1 |-> IF i % 2 = 1 THEN ws[(i + 1) \div 2] ELSE Space]
Line(ws) == Words(ws) \o <<Break>>

Header == Line(<<1, 5>>) \o <<Break>>
Welcome == Line(<<7, 5>>) \o <<Break>> \o Line(<<3, 2, 10>>) \o <<Break>>
Terminal == Line(<<1, 8, 9>>) \o Line(<<0, 0, 8, 2, 3, 8, 4>>) \o <<Break>>
\* Entries are joined by a blank line; nothing follows the last one.
TranscriptText ==
  FlattenSeq([i \in DOMAIN said |-> IF i = 1 THEN said[i] ELSE <<Break, Break>> \o said[i]])

\* The decision that is asked for, and the line that says which keys decide.
PermissionText ==
  CASE asking = "none" -> <<>>
    [] asking = "edit" -> Line(<<1, 8>>)
    [] asking = "command" ->
         Line(<<1, 8>>) \o Line(<<0, 0, 8, 7>>) \o Line(<<0, 0, 7, 6>>) \o Line(<<0, 0, 4, 5>>)
PermissionKeys ==
  CASE asking = "none" -> <<>>
    [] asking = "edit" -> Words(<<0, 0, 8, 0, 8, 1, 3, 5, 5, 3, 6, 2, 7>>)
    [] asking = "command" -> Words(<<0, 0, 3, 5, 4, 0, 3, 6, 0, 3, 4>>)
PermissionEnd == IF asking = "none" THEN <<>> ELSE <<Break, Break>>
\* A proposal held by an edit permission, the first of the list here, has no
\* keys of its own.
ProposalText(i) ==
  Line(<<1, 8, 1, 7>>) \o Line(<<1, 2, 5>>)
    \o (IF asking = "edit" /\ i = 1 THEN <<>> ELSE Line(<<1, 8, 0, 8>>)) \o <<Break>>
ProposalTexts == FlattenSeq([i \in 1 .. proposals |-> ProposalText(i)])
Thinking == IF thinking THEN Line(<<9>>) \o <<Break>> ELSE <<>>

Opening ==
  Header \o (IF said = <<>> /\ proposals = 0 /\ ~thinking THEN Welcome ELSE <<>>)
         \o (IF attached THEN Terminal ELSE <<>>)
\* The body, parted at the line with the keys of the permission.
AgentBody ==
  [above |-> Opening \o TranscriptText \o PermissionText,
   below |-> PermissionEnd \o ProposalTexts \o Thinking]
WholeBody == AgentBody.above \o PermissionKeys \o AgentBody.below

InnerWidth == Less(agentPane.w, 2)
InnerHeight == Less(agentPane.h, 2)
AgentScrollback == Less(Wrap(WholeBody, InnerWidth), InnerHeight)
\* The first line with the keys, when a permission is pending.
KeyLine == WrapAll(AgentBody.above, InnerWidth).lines
\* pane_scrolled: the first line drawn, counting from the bottom.
FirstLine == AgentScrollback - AtMost(agentScroll, AgentScrollback)
InWindow(line) == line \in FirstLine .. FirstLine + InnerHeight - 1

\* Each message ends with a frame, in which the distance one can scroll back
\* is measured: a key scrolls within that of the frame before it.
Says ==
  /\ Len(said) < MaxSaid
  /\ \E t \in Sayings : said' = Append(said, t)
  /\ agentScroll' = 0
  /\ UNCHANGED <<agentPane, asking, proposals, attached, thinking>>
\* A chunk of the same speaker continues its entry.
GoesOn ==
  /\ said # <<>> /\ Len(Last(said)) < MaxEntry
  /\ \E t \in Sayings : said' = Append(Front(said), Last(said) \o t)
  /\ agentScroll' = 0
  /\ UNCHANGED <<agentPane, asking, proposals, attached, thinking>>
Asks ==
  /\ asking = "none"
  /\ asking' \in {"edit", "command"}
  /\ asking' = "edit" => proposals > 0
  /\ UNCHANGED <<agentPane, said, proposals, attached, thinking, agentScroll>>
Decide ==
  /\ asking # "none"
  /\ asking' = "none"
  /\ proposals' = IF asking = "edit" THEN proposals - 1 ELSE proposals
  /\ UNCHANGED <<agentPane, said, attached, thinking, agentScroll>>
Propose ==
  /\ proposals < MaxProposals
  /\ proposals' = proposals + 1
  /\ UNCHANGED <<agentPane, said, asking, attached, thinking, agentScroll>>
TurnToggles ==
  /\ thinking' = ~thinking
  /\ UNCHANGED <<agentPane, said, asking, proposals, attached, agentScroll>>
Attach ==
  /\ ~attached /\ attached' = TRUE
  /\ UNCHANGED <<agentPane, said, asking, proposals, thinking, agentScroll>>
ScrollUp ==
  /\ agentScroll' = AtMost(agentScroll + 3, AgentScrollback)
  /\ UNCHANGED <<agentPane, said, asking, proposals, attached, thinking>>
ScrollDown ==
  /\ agentScroll' = Less(agentScroll, 3)
  /\ UNCHANGED <<agentPane, said, asking, proposals, attached, thinking>>
ResizeAgentPane ==
  /\ agentPane' \in PaneSizes \ {agentPane}
  /\ UNCHANGED <<said, asking, proposals, attached, thinking, agentScroll>>

AgentInit ==
  /\ agentPane \in PaneSizes /\ said = <<>> /\ asking = "none" /\ proposals = 0
  /\ attached = FALSE /\ thinking = FALSE /\ agentScroll = 0
AgentNext ==
  \/ Says \/ GoesOn \/ Asks \/ Decide \/ Propose \/ TurnToggles \/ Attach
  \/ ScrollUp \/ ScrollDown \/ ResizeAgentPane

-----------------------------------------------------------------------------
\* In every frame the grids have the size of the pane they are drawn in, so no
\* row of a terminal lies under its border or its strip, and each live process
\* has been told that size or has the request for it queued: whichever of a
\* resize of the window, a change of layout, a first tab, a restart or a close
\* came between two frames.
GridsFitThePane ==
  loopAt = "asleep" =>
    \A i \in DOMAIN term.grids :
      LET g == term.grids[i]
          queued == {k \in DOMAIN term.outbox : term.outbox[k].id = g.id}
      IN  /\ g.size.rows = AtLeast(Less(frame.h, 3), 1) /\ g.size.cols = AtLeast(Less(frame.w, 2), 1)
          /\ g.live => g.size = IF queued = {} THEN told[g.id] ELSE term.outbox[Max(queued)].size

\* At the bottom of the agent pane the keys of a pending decision are on the
\* screen whenever what waits on the human fits the pane, however long the
\* conversation above it is.
WaitingShowsAtTheBottom ==
  asking # "none" /\ agentScroll = 0
    /\ Wrap(PermissionText \o PermissionKeys \o PermissionEnd \o ProposalTexts \o Thinking, InnerWidth) <= InnerHeight =>
      \A k \in 0 .. Wrap(PermissionKeys, InnerWidth) - 1 : InWindow(KeyLine + k)

\* The panes show what they must: whole grids of the size their processes
\* believe in, and the keys of a decision in a pane that is at the bottom of its
\* conversation; of one that is scrolled back see DecisionIsOnScreen.
PanesShowWhatTheyMust == GridsFitThePane /\ WaitingShowsAtTheBottom

\* A decision the agent waits for is on the screen (view.rs: "this pane scrolls
\* from the bottom and snaps back there on new content").
DecisionIsOnScreen == asking # "none" => InWindow(KeyLine)
=============================================================================
