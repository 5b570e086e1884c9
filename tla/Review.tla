------------------------------- MODULE Review -------------------------------
(***************************************************************************)
(* Reviewing an agent's edits while the human keeps working: proposals     *)
(* (crates/agent/src/proposal.rs) re-anchored onto the live buffer by      *)
(* Model::sync_proposals, accepted or rejected by resolve_proposal, and    *)
(* the reviews that stand behind an edit permission (ADR-0016), which the  *)
(* agent carries out itself.                                               *)
(*                                                                         *)
(* One file, open in one buffer.  A character of TextBuffer is a whole     *)
(* line here, the granularity hunks are derived at.                        *)
(***************************************************************************)
EXTENDS TextBuffer, FiniteSets

CONSTANTS HumanLines,    \* lines only the human writes
          AgentLines,    \* lines only the agent writes
          Origins,       \* the documents a file can hold when it is opened
          MaxLen,        \* bound on the document
          MaxVersion,    \* bound on the revisions
          MaxId,         \* bound on the ids the translator hands out
          MaxMoves,      \* bound on revisions and ids together
          MaxTouched     \* bound on the lines the first proposal adds, and drops

VARIABLES
  buf,          \* the buffer under review
  proposals,    \* AgentState.proposals, oldest first
  permission,   \* AgentState.pending_permission: [request, review], or NoPermission
  nextId,       \* Translator.next_id: one counter for proposals and permissions
  read,         \* the document the agent was given last (serve_read)
  granted,      \* texts the agent may write itself and has not written yet
  answer        \* the last Permission answer sent, as <<request, decision>>

vars == <<buf, proposals, permission, nextId, read, granted, answer>>

NoPermission == [request |-> 0, review |-> 0]

-----------------------------------------------------------------------------
(***************************************************************************)
(* The line diff of the `similar` library: a longest common subsequence of *)
(* the two documents, and one replacement for every gap it leaves.         *)
(***************************************************************************)
Alignments(old, new) ==
  LET equal == {p \in (DOMAIN old) \X (DOMAIN new) : old[p[1]] = new[p[2]]}
  IN  {m \in SUBSET equal : \A p, q \in m : p # q => (p[1] < q[1] <=> p[2] < q[2]) /\ p[1] # q[1]}

LineDiff(old, new) ==
  LET all  == Alignments(old, new)
      best == CHOOSE m \in all : \A n \in all : Cardinality(n) <= Cardinality(m)
  IN  SetToSortSeq(best \cup {<<0, 0>>, <<Len(old) + 1, Len(new) + 1>>},
                   LAMBDA p, q : p[1] < q[1])

\* hunks_from_diff
HunksFromDiff(old, new) ==
  LET kept == LineDiff(old, new)
      gap(i) == [start |-> kept[i][1], end |-> kept[i + 1][1] - 1,
                 text |-> SubSeq(new, kept[i][2] + 1, kept[i + 1][2] - 1),
                 state |-> "Clean"]
      gaps == [i \in 1 .. Len(kept) - 1 |-> gap(i)]
  IN  SelectSeq(gaps, LAMBDA h : h.start < h.end \/ h.text # <<>>)

\* changeset_from_hunks: in document order, one change.
ChangeSetFromHunks(hunks, len) ==
  LET sorted == SortSeq(hunks, LAMBDA g, h : g.start < h.start
                                              \/ (g.start = h.start /\ g.end < h.end))
      at(i) == IF i = 1 THEN 0 ELSE sorted[i - 1].end
      step(ops, i) ==
        LET h == sorted[i]
        IN  AddInsert(AddDelete(AddRetain(ops, Max({h.start - at(i), 0})),
                                h.end - h.start), h.text)
  IN  Build(FoldLeftDomain(step, <<>>, sorted), len)

SameHunk(g, h) == g.start = h.start /\ g.end = h.end /\ g.text = h.text

\* Mutant: text written inside the range is overlooked.
DisturbedByDeletion(catchup, h) == Touches(catchup, h.start, h.end) = "PartlyDeleted"

\* Whether the human's edits reached into the range of a hunk
Disturbed(catchup, h) == Touches(catchup, h.start, h.end) # "Untouched"

\* rebase_hunks: carry hunks written against base onto current.
RebaseHunks(hunks, base, current) ==
  LET human   == HunksFromDiff(base, current)
      catchup == ChangeSetFromHunks(human, Len(base))
      rebase(h) ==
        CASE \E i \in DOMAIN human : SameHunk(human[i], h) -> [h EXCEPT !.state = "Satisfied"]
          [] ~(\E i \in DOMAIN human : SameHunk(human[i], h)) /\ Disturbed(catchup, h) ->
             [h EXCEPT !.state = "Conflicted"]
          [] OTHER -> [h EXCEPT !.start = MapPos(catchup, @, "After"),
                                !.end   = MapPos(catchup, @, "After")]
  IN  IF base = current THEN hunks ELSE [i \in DOMAIN hunks |-> rebase(hunks[i])]

\* EditProposal::refresh: from the immutable original, every time.
Refresh(p, current) ==
  [p EXCEPT !.hunks = RebaseHunks(HunksFromDiff(p.base, p.proposed), p.base, current)]

\* `gated` remembers for the properties that the proposal came with a permission.
Proposal(id, base, proposed, current, gated) ==
  Refresh([id |-> id, base |-> base, proposed |-> proposed, hunks |-> <<>>, gated |-> gated],
          current)

Applicable(p) == SelectSeq(p.hunks, LAMBDA h : h.state = "Clean")

-----------------------------------------------------------------------------
(***************************************************************************)
(* Model::sync_proposals, run at the end of every handler that may have    *)
(* changed a buffer: refresh every proposal, then repaint the markers.     *)
(***************************************************************************)
RemoveProposal(ds, id) == {d \in ds : d.proposal # id}

Markers(p) ==
  {[class |-> "hunk", proposal |-> p.id, start |-> h.start, end |-> h.end, state |-> h.state] :
     h \in ToSet(p.hunks)}

Refreshed(b, ps) == [i \in DOMAIN ps |-> Refresh(ps[i], b.text)]

\* Mutant: old markers are kept and ride along with the edits.
PaintedOver(b, ps) ==
  [b EXCEPT !.decorations = @ \cup UNION {Markers(p) : p \in ToSet(ps)}]

Repainted(b, ps) ==
  LET live == {ps[i].id : i \in DOMAIN ps}
  IN  [b EXCEPT !.decorations =
         {d \in @ : d.proposal \notin live} \cup UNION {Markers(p) : p \in ToSet(ps)}]

\* Nothing is refreshed or repainted when no proposal is left.
SyncProposals(b, ps) ==
  /\ proposals' = IF ps = <<>> THEN ps ELSE Refreshed(b, ps)
  /\ buf' = IF ps = <<>> THEN b ELSE Repainted(b, Refreshed(b, ps))

\* The drain of document sync ends the same handlers; it is EditorBuffer's subject.
Drained(b) == [b EXCEPT !.pending = <<>>]

-----------------------------------------------------------------------------
Init ==
  /\ \E t \in Origins : buf = FromText(t) /\ read = t
  /\ proposals = <<>>
  /\ permission = NoPermission
  /\ nextId = 1
  /\ granted = {}
  /\ answer = <<0, "none">>

Budget  == buf.version + nextId <= MaxMoves
Editing == buf.version < MaxVersion /\ Budget

\* The human replaces a range of lines, or inserts or deletes some.
HumanEdit(from, to, s) ==
  /\ Editing
  /\ from <= to /\ to <= Len(buf.text) /\ Len(buf.text) + Len(s) <= MaxLen
  /\ from < to \/ s # <<>>
  /\ ToSet(s) \cap ToSet(buf.text) = {}
  /\ SyncProposals(Drained(EditRange(buf, from, to, s, Keyboard)), proposals)
  /\ UNCHANGED <<permission, nextId, read, granted, answer>>

HumanUndo ==
  /\ Editing
  /\ buf.applied # <<>>
  /\ SyncProposals(Drained(Undo(buf)), proposals)
  /\ UNCHANGED <<permission, nextId, read, granted, answer>>

\* serve_read: the agent is given the buffer, unsaved edits included.
ServeRead ==
  /\ read' = buf.text
  /\ UNCHANGED <<buf, proposals, permission, nextId, granted, answer>>

\* The review on screen is the one the pending permission gates.
GatedReview == permission.review # 0

\* receive_proposal.  `old` is the text the agent states, or its absence (a
\* fs/write_text_file), for which the buffer stands in.  A copy of an edit that is
\* already under a gated review is dropped: same path, the only one here.
ReceiveProposal(old, new) ==
  /\ nextId' = nextId + 1
  /\ IF GatedReview
     THEN UNCHANGED <<buf, proposals>>
     ELSE SyncProposals(buf, Append(proposals, Proposal(nextId, old, new, buf.text, FALSE)))
  /\ UNCHANGED <<permission, read, granted, answer>>

\* review_for_permission, called by the PermissionRequested handler when the diff
\* could be placed; the model accepts one pending permission at a time.
ReviewForPermission(new) ==
  /\ permission = NoPermission
  /\ nextId' = nextId + 1
  /\ permission' = [request |-> nextId, review |-> nextId]
  /\ SyncProposals(buf, Append(proposals, Proposal(nextId, buf.text, new, buf.text, TRUE)))
  /\ UNCHANGED <<read, granted, answer>>

\* Mutant: some accepted hunks are enough.
PermissionForSome(accepted, total) == IF accepted > 0 THEN "AllowOnce" ELSE "RejectOnce"

\* permission_for_review: the protocol has no partial accept.
PermissionForReview(accepted, total) ==
  IF total > 0 /\ accepted = total THEN "AllowOnce" ELSE "RejectOnce"

\* Mutant: the accepted hunks are recorded as typing.
ApplyAsTyping(b, hunks) == Edit(b, ChangeSetFromHunks(hunks, Len(b.text)), Keyboard)

\* All hunks in one transaction of the agent's
ApplyHunks(b, hunks) == Edit(b, ChangeSetFromHunks(hunks, Len(b.text)), "Agent")

\* resolve_proposal on the oldest proposal when it is not a gated review.
ResolveProposal(accept) ==
  /\ proposals # <<>>
  /\ ~(GatedReview /\ Head(proposals).id = permission.review)
  /\ accept => Editing
  /\ LET p       == Head(proposals)
         clean   == Applicable(p)
         edited  == IF accept /\ clean # <<>> THEN ApplyHunks(buf, clean) ELSE buf
         applied == IF accept THEN Len(clean) ELSE 0
     IN  /\ Len(edited.text) <= MaxLen
         /\ SyncProposals(Drained([edited EXCEPT !.decorations = RemoveProposal(@, p.id)]),
                          Tail(proposals))
         /\ answer' = <<p.id, PermissionForReview(applied, Len(p.hunks))>>
  /\ UNCHANGED <<permission, nextId, read, granted>>

\* The proposals without the one of that id: ids are handed out once, so one at most goes.
Without(ps, id) ==
  IF \E k \in DOMAIN ps : ps[k].id = id
  THEN RemoveAt(ps, CHOOSE k \in DOMAIN ps : ps[k].id = id)
  ELSE ps

\* decide_permission: the gated review goes away with the prompt either way; the
\* agent makes the change itself once it is allowed to.
DecidePermission(decision) ==
  /\ permission # NoPermission
  /\ SyncProposals(buf, Without(proposals, permission.review))
  /\ answer' = <<permission.request, decision>>
  /\ granted' = IF decision = "AllowOnce"
                THEN granted \cup {proposals[i].proposed : i \in
                       {j \in DOMAIN proposals : proposals[j].id = permission.review}}
                ELSE granted
  /\ permission' = NoPermission
  /\ UNCHANGED <<nextId, read>>

\* reject_pending_permission: the turn was cancelled or failed with the prompt up.
\* The prompt is answered; the review it gated is left where it is.
CancelPermission ==
  /\ permission # NoPermission
  /\ answer' = <<permission.request, "Cancelled">>
  /\ permission' = NoPermission
  /\ UNCHANGED <<buf, proposals, nextId, read, granted>>

\* The agent writes what it was allowed to; the watcher reports it and a buffer
\* with nothing unsaved is replaced in place.
AgentWritesFile(t) ==
  /\ t \in granted
  /\ granted' = granted \ {t}
  /\ IF IsDirty(buf) THEN UNCHANGED <<buf, proposals>> ELSE SyncProposals(FromText(t), proposals)
  /\ UNCHANGED <<permission, nextId, read, answer>>

\* The human saves; the write is reported at once (EditorBuffer has the races).
Save ==
  /\ IsDirty(buf)
  /\ buf' = MarkSaved(buf, buf.version)
  /\ UNCHANGED <<proposals, permission, nextId, read, granted, answer>>

\* A later proposal touches fewer lines than the one before it.
Reach == MaxTouched + 1 - nextId

\* What an agent may make of a document: some lines dropped, and at most one of
\* its lines added in front of each line or at the end.
Rewrites(old) ==
  LET n == Len(old)
  IN  {new \in {FlattenSeq([i \in 1 .. 2 * n + 1 |->
                     IF i % 2 = 0 THEN (IF i \div 2 \in drop THEN <<>> ELSE <<old[i \div 2]>>)
                     ELSE IF (i + 1) \div 2 \in DOMAIN put THEN <<put[(i + 1) \div 2]>> ELSE <<>>]) :
                   drop \in {D \in SUBSET (1 .. n) : Cardinality(D) <= Reach},
                   put \in UNION {[D -> AgentLines] :
                                    D \in {E \in SUBSET (1 .. n + 1) : Cardinality(E) <= Reach}}} :
         /\ new # old /\ Len(new) <= MaxLen
         /\ Cardinality(ToSet(new)) = Len(new)}

\* Bound: the agent may still propose.
MoreIds == nextId <= MaxId /\ Budget

Next ==
  \/ \E from, to \in 0 .. MaxLen, s \in {<<>>} \cup {<<l>> : l \in HumanLines} : HumanEdit(from, to, s)
  \/ HumanUndo
  \/ ServeRead
  \/ MoreIds /\ \E old \in {read, buf.text} : \E new \in Rewrites(old) : ReceiveProposal(old, new)
  \/ MoreIds /\ \E new \in Rewrites(buf.text) : ReviewForPermission(new)
  \/ \E accept \in BOOLEAN : ResolveProposal(accept)
  \/ \E decision \in {"AllowOnce", "RejectOnce"} : DecidePermission(decision)
  \/ CancelPermission
  \/ \E t \in granted : AgentWritesFile(t)
  \/ Save

Spec == Init /\ [][Next]_vars

-----------------------------------------------------------------------------
TypeOK ==
  /\ buf.text \in Seq(Char) /\ Len(buf.text) <= MaxLen
  /\ \A i \in DOMAIN proposals :
       \A h \in ToSet(proposals[i].hunks) :
         h.state # "Conflicted" /\ h.state # "Satisfied" => 0 <= h.start /\ h.start <= h.end /\ h.end <= Len(buf.text)
  /\ permission = NoPermission \/ permission.request \in 1 .. MaxId
  /\ nextId \in 1 .. MaxId + 1

\* An accept step: the oldest proposal left, answered and not gated.
Accepting(p) ==
  /\ proposals # <<>> /\ p = Head(proposals)
  /\ ~(GatedReview /\ p.id = permission.review)
  /\ Len(proposals') = Len(proposals) - 1
  /\ answer'[1] = p.id

\* ADR-0006 section 4: "never silently destroy text the human wrote".  A line the
\* agent never saw survives the acceptance of its proposal.
AcceptKeepsUnseenLines ==
  [][\A p \in ToSet(proposals) : Accepting(p) =>
       \A l \in ToSet(buf.text) \ ToSet(p.base) : l \in ToSet(buf'.text)]_vars

\* What an acceptance may take with it: lines that stand at the end of a range it
\* replaces.  Any other line the agent never saw survives.
AcceptKeepsLinesApart ==
  [][\A p \in ToSet(proposals) : Accepting(p) =>
       \A i \in DOMAIN buf.text :
         /\ buf.text[i] \notin ToSet(p.base)
         /\ buf.text[i] \notin ToSet(buf'.text)
         => \E h \in ToSet(Applicable(p)) :
              /\ h.end >= i /\ h.start < i
              /\ \A j \in i .. h.end : buf.text[j] \notin ToSet(p.base)]_vars

\* With nothing changed underneath, accepting gives the proposed document exactly,
\* and however many hunks it had one undo takes the whole of it back.
AcceptIsExactAndOneStep ==
  [][\A p \in ToSet(proposals) : Accepting(p) /\ buf'.version # buf.version =>
       /\ p.base = buf.text => buf'.text = p.proposed
       /\ Undo(buf').text = buf.text]_vars

\* ADR-0016 section 2, "the client does not write": an edit that came with a
\* permission is the agent's to make, and accepting it never edits the buffer.
GatedEditIsTheAgents ==
  [][\A p \in ToSet(proposals) : Accepting(p) /\ p.gated => buf'.text = buf.text]_vars

\* A pending proposal reads the same in the pane and in the gutter: its markers
\* are its hunks, where the hunks are now.
MarkersAreHunks ==
  \A p \in ToSet(proposals) :
    {d \in buf.decorations : d.proposal = p.id} = Markers(p)

\* ADR-0007 section 8: the agent is told AllowOnce only when the whole of its edit
\* is in the buffer: all it adds is there and all it drops is gone.
AllowMeansMade(p) ==
  Accepting(p) /\ answer'[2] = "AllowOnce" =>
    /\ ToSet(p.proposed) \ ToSet(p.base) \subseteq ToSet(buf'.text)
    /\ (ToSet(p.base) \ ToSet(p.proposed)) \cap ToSet(buf'.text) = {}

\* The answer to a permission, by the human or by the end of the turn, leaves the
\* document alone whatever the review behind it says (decide_permission).
GatedReviewNotApplied ==
  permission # NoPermission /\ permission' = NoPermission =>
    buf'.text = buf.text /\ buf'.version = buf.version

\* What a permission is answered fits the document: an edit is allowed in full only
\* when the whole of it was made, and no answer to a permission, nor the end of its
\* turn, makes an edit for the agent (permission_for_review, decide_permission).  What
\* the human does afterwards with a review it left behind is not part of this, see
\* GatedEditIsTheAgents.
PermissionIsTheGate ==
  [][GatedReviewNotApplied /\ \A p \in ToSet(proposals) : AllowMeansMade(p)]_vars

=============================================================================
