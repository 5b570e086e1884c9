---------------------------- MODULE ReviewProofs ----------------------------
(***************************************************************************)
(* Proof that the gutter shows the proposals as the pane does, for any     *)
(* documents, any edits of the human's and the agent's and any number of   *)
(* proposals.  Nothing is assumed of the line diff: the argument is about  *)
(* who repaints, and about ids that are never handed out twice.            *)
(***************************************************************************)
EXTENDS Review, SequenceLemmas

\* A buffer has overlays, whatever else it is.
HasOverlays(b) == "decorations" \in DOMAIN b

\* Proposals have ids that were handed out, each its own.
IdsApart(ps, next) ==
  /\ \E S : ps \in Seq(S)
  /\ \A i \in DOMAIN ps : "id" \in DOMAIN ps[i] /\ ps[i].id \in Nat /\ ps[i].id < next
  /\ \A i, j \in DOMAIN ps : ps[i].id = ps[j].id => i = j

ReviewInv ==
  /\ HasOverlays(buf)
  /\ nextId \in Nat
  /\ IdsApart(proposals, nextId)
  /\ MarkersAreHunks

\* Every operation of a buffer leaves it one with overlays.
LEMMA BuffersHaveOverlays ==
  /\ \A t : HasOverlays(FromText(t))
  /\ \A b, cs, source : HasOverlays(b) => HasOverlays(Edit(b, cs, source))
  /\ \A b, from, to, s, source : HasOverlays(b) => HasOverlays(EditRange(b, from, to, s, source))
  /\ \A b : HasOverlays(b) => HasOverlays(Undo(b)) /\ HasOverlays(Drained(b))
  /\ \A b, ds : HasOverlays(b) => HasOverlays([b EXCEPT !.decorations = ds])
<1>1. \A t : HasOverlays(FromText(t))
  BY DEF HasOverlays, FromText
<1>2. \A b, cs : HasOverlays(b) => HasOverlays(Advance(b, cs))
  BY DEF HasOverlays, Advance
<1>3. \A b, ds : HasOverlays(b) => HasOverlays([b EXCEPT !.decorations = ds])
  BY DEF HasOverlays
<1>4. \A b, cs, source : HasOverlays(b) => HasOverlays(Edit(b, cs, source))
  <2>. SUFFICES ASSUME NEW b, NEW cs, NEW source, HasOverlays(b)
                PROVE  HasOverlays(Edit(b, cs, source))
    OBVIOUS
  <2>. DEFINE spent == SpendGroup(b, source)
              next  == Advance(spent, cs)
  <2>1. HasOverlays(spent)
    BY DEF HasOverlays, SpendGroup
  <2>2. HasOverlays(next)
    BY <1>2, <2>1
  <2>3. Edit(b, cs, source) = spent \/ \E ap :
          Edit(b, cs, source) = [next EXCEPT !.undone = <<>>, !.broken = FALSE,
                                             !.lastSource = source, !.applied = ap]
    BY DEF Edit
  <2>. HIDE DEF spent, next
  <2>. QED BY <2>1, <2>2, <2>3 DEF HasOverlays
<1>5. \A b, from, to, s, source : HasOverlays(b) => HasOverlays(EditRange(b, from, to, s, source))
  BY <1>4 DEF EditRange
<1>6. \A b : HasOverlays(b) => HasOverlays(Drained(b))
  BY DEF HasOverlays, Drained
<1>7. ASSUME NEW b, HasOverlays(b) PROVE HasOverlays(Undo(b))
  <2>1. Undo(b) = b \/ \E cs, ap, un :
          Undo(b) = [[Advance(b, cs) EXCEPT !.broken = TRUE, !.lastSource = NoSource]
                       EXCEPT !.applied = ap, !.undone = un]
    BY DEF Undo, Replay
  <2>. DEFINE u == Undo(b)
  <2>2. CASE u = b
    BY <1>7, <2>2
  <2>3. CASE u # b
    <3>1. PICK cs, ap, un : u = [[Advance(b, cs) EXCEPT !.broken = TRUE, !.lastSource = NoSource]
                                   EXCEPT !.applied = ap, !.undone = un]
      BY <2>1, <2>3
    <3>2. HasOverlays(Advance(b, cs))
      BY <1>2, <1>7
    <3>. HIDE DEF u
    <3>3. HasOverlays(u)
      BY <3>1, <3>2 DEF HasOverlays
    <3>. QED BY <3>3 DEF u
  <2>. QED BY <2>2, <2>3
<1>. QED BY <1>1, <1>3, <1>4, <1>5, <1>6, <1>7

\* A refreshed proposal is the same proposal.
LEMMA RefreshKeepsIds ==
  ASSUME NEW ps, NEW next, NEW b, IdsApart(ps, next)
  PROVE  /\ IdsApart(Refreshed(b, ps), next)
         /\ DOMAIN Refreshed(b, ps) = DOMAIN ps
         /\ \A i \in DOMAIN ps : Refreshed(b, ps)[i].id = ps[i].id
<1>. DEFINE rs == Refreshed(b, ps)
            R  == {Refresh(ps[i], b.text) : i \in DOMAIN ps}
<1>1. DOMAIN rs = DOMAIN ps /\ \A i \in DOMAIN ps : rs[i] = Refresh(ps[i], b.text)
  BY DEF Refreshed
<1>2. rs \in Seq(R)
  <2>1. PICK S : ps \in Seq(S)
    BY DEF IdsApart
  <2>2. Len(ps) \in Nat /\ DOMAIN ps = 1..Len(ps)
    BY <2>1
  <2>3. rs \in [1..Len(ps) -> R]
    BY <1>1, <2>2 DEF Refreshed
  <2>. HIDE DEF rs, R
  <2>. QED BY <2>2, <2>3, SeqDef
<1>. HIDE DEF rs, R
<1>3. \A i \in DOMAIN ps : "id" \in DOMAIN rs[i] /\ rs[i].id = ps[i].id
  <2>. TAKE i \in DOMAIN ps
  <2>1. "id" \in DOMAIN ps[i]
    BY DEF IdsApart
  <2>2. PICK hs : rs[i] = [ps[i] EXCEPT !.hunks = hs]
    BY <1>1 DEF Refresh
  <2>. QED BY <2>1, <2>2
<1>4. IdsApart(rs, next)
  BY <1>1, <1>2, <1>3 DEF IdsApart
<1>. QED BY <1>1, <1>3, <1>4 DEF rs

\* What is left of the proposals when one goes, and what there is when one comes.
LEMMA FewerProposals ==
  ASSUME NEW ps, NEW next \in Nat, IdsApart(ps, next)
  PROVE  /\ ps # <<>> => IdsApart(Tail(ps), next)
         /\ \A id : IdsApart(Without(ps, id), next)
         /\ IdsApart(ps, next + 1)
<1>1. PICK S : ps \in Seq(S)
  BY DEF IdsApart
<1>2. ASSUME ps # <<>> PROVE IdsApart(Tail(ps), next)
  <2>. DEFINE t == Tail(ps)
  <2>1. t \in Seq(S) /\ \A i \in DOMAIN t : i + 1 \in DOMAIN ps /\ t[i] = ps[i + 1] /\ i \in Nat
    BY <1>1, <1>2
  <2>. HIDE DEF t
  <2>2. \A i, j \in DOMAIN t : t[i].id = t[j].id => i = j
    <3>. TAKE i, j \in DOMAIN t
    <3>. HAVE t[i].id = t[j].id
    <3>1. i + 1 = j + 1
      BY <2>1 DEF IdsApart
    <3>. QED BY <2>1, <3>1
  <2>. QED BY <2>1, <2>2 DEF IdsApart, t
<1>3. ASSUME NEW id PROVE IdsApart(Without(ps, id), next)
  <2>1. CASE ~(\E k \in DOMAIN ps : ps[k].id = id)
    BY <2>1 DEF Without
  <2>2. CASE \E k \in DOMAIN ps : ps[k].id = id
    <3>. DEFINE k == CHOOSE j \in DOMAIN ps : ps[j].id = id
                t == RemoveAt(ps, k)
    <3>1. k \in DOMAIN ps /\ Without(ps, id) = t
      BY <2>2 DEF Without
    <3>. HIDE DEF k
    <3>2. t \in Seq(S) /\ \A i \in DOMAIN t :
            i + 1 \in DOMAIN ps /\ t[i] = IF i < k THEN ps[i] ELSE ps[i + 1]
      BY <1>1, <3>1, Removed
    <3>3. \A i \in DOMAIN t : i \in Nat /\ i \in DOMAIN ps
      <4>1. DOMAIN ps = 1..Len(ps) /\ DOMAIN t = 1..Len(t) /\ Len(ps) \in Nat /\ Len(t) \in Nat
        BY <1>1, <3>2
      <4>. HIDE DEF t
      <4>. QED BY <3>2, <4>1
    <3>. HIDE DEF t
    <3>4. \A i, j \in DOMAIN t : t[i].id = t[j].id => i = j
      <4>. TAKE i, j \in DOMAIN t
      <4>. HAVE t[i].id = t[j].id
      <4>. DEFINE was(n) == IF n < k THEN n ELSE n + 1
      <4>1. was(i) \in DOMAIN ps /\ was(j) \in DOMAIN ps /\ t[i] = ps[was(i)] /\ t[j] = ps[was(j)]
        BY <3>2, <3>3
      <4>2. was(i) = was(j)
        <5>. HIDE DEF was
        <5>. QED BY <4>1 DEF IdsApart
      <4>3. k \in Nat
        BY <1>1, <3>1
      <4>. QED BY <3>3, <4>2, <4>3
    <3>. QED BY <3>1, <3>2, <3>3, <3>4 DEF IdsApart
  <2>. QED BY <2>1, <2>2
<1>4. IdsApart(ps, next + 1)
  BY DEF IdsApart
<1>. QED BY <1>2, <1>3, <1>4

\* A new proposal takes the id that is next.
LEMMA OneMoreProposal ==
  ASSUME NEW ps, NEW next \in Nat, IdsApart(ps, next),
         NEW base, NEW proposed, NEW current, NEW gated
  PROVE  IdsApart(Append(ps, Proposal(next, base, proposed, current, gated)), next + 1)
<1>. DEFINE p == Proposal(next, base, proposed, current, gated)
            t == Append(ps, p)
<1>1. "id" \in DOMAIN p /\ p.id = next
  <2>. DEFINE blank == [id |-> next, base |-> base, proposed |-> proposed, hunks |-> <<>>,
                        gated |-> gated]
  <2>1. "id" \in DOMAIN blank /\ blank.id = next
    OBVIOUS
  <2>. HIDE DEF blank
  <2>2. PICK hs : p = [blank EXCEPT !.hunks = hs]
    BY DEF Proposal, Refresh, blank
  <2>. HIDE DEF p
  <2>. QED BY <2>1, <2>2
<1>. HIDE DEF p
<1>2. PICK S : ps \in Seq(S)
  BY DEF IdsApart
<1>3. ps \in Seq(S \cup {p})
  BY <1>2
<1>4. /\ t \in Seq(S \cup {p})
      /\ \A i \in DOMAIN t : (i \in DOMAIN ps /\ t[i] = ps[i]) \/ (i = Len(ps) + 1 /\ t[i] = p)
  BY <1>3
<1>. HIDE DEF t
<1>5. \A i \in DOMAIN t : "id" \in DOMAIN t[i] /\ t[i].id \in Nat /\ t[i].id < next + 1
  BY <1>1, <1>4 DEF IdsApart
<1>6. \A i, j \in DOMAIN t : t[i].id = t[j].id => i = j
  <2>1. \A i \in DOMAIN ps : ps[i].id # next
    BY DEF IdsApart
  <2>. QED BY <1>1, <1>4, <2>1 DEF IdsApart
<1>7. IdsApart(t, next + 1)
  BY <1>4, <1>5, <1>6 DEF IdsApart
<1>. QED BY <1>7 DEF p, t

\* Every overlay of a proposal that is left is repainted from its hunks (sync_proposals).
LEMMA SyncPaints ==
  ASSUME NEW b, NEW ps, HasOverlays(b), nextId' \in Nat, IdsApart(ps, nextId'),
         SyncProposals(b, ps)
  PROVE  ReviewInv'
<1>1. CASE ps = <<>>
  <2>1. buf' = b /\ proposals' = <<>>
    BY <1>1 DEF SyncProposals
  <2>2. MarkersAreHunks'
    BY <2>1 DEF MarkersAreHunks, ToSet
  <2>. QED BY <1>1, <2>1, <2>2 DEF ReviewInv
<1>2. CASE ps # <<>>
  <2>. DEFINE rs   == Refreshed(b, ps)
              live == {rs[i].id : i \in DOMAIN rs}
              old  == {d \in b.decorations : d.proposal \notin live}
              new  == UNION {Markers(p) : p \in ToSet(rs)}
  <2>1. proposals' = rs /\ buf' = [b EXCEPT !.decorations = old \cup new]
    BY <1>2 DEF SyncProposals, Repainted
  <2>2. IdsApart(rs, nextId')
    BY RefreshKeepsIds
  <2>. HIDE DEF rs
  <2>3. \A p : \A d \in Markers(p) : d.proposal = p.id
    BY DEF Markers
  <2>4. ToSet(rs) = {rs[i] : i \in DOMAIN rs}
    BY DEF ToSet
  <2>5. \A p, q \in ToSet(rs) : p.id = q.id => p = q
    BY <2>2, <2>4 DEF IdsApart
  <2>6. ASSUME NEW p \in ToSet(rs)
        PROVE  {d \in old \cup new : d.proposal = p.id} = Markers(p)
    <3>1. p.id \in live
      BY <2>4
    <3>2. ASSUME NEW d \in new, d.proposal = p.id PROVE d \in Markers(p)
      <4>1. PICK q \in ToSet(rs) : d \in Markers(q)
        OBVIOUS
      <4>2. q = p
        BY <2>3, <2>5, <3>2, <4>1
      <4>. QED BY <4>1, <4>2
    <3>3. Markers(p) \subseteq new
      OBVIOUS
    <3>. HIDE DEF new
    <3>4. \A d \in old : d.proposal # p.id
      BY <3>1
    <3>. HIDE DEF old
    <3>. QED BY <2>3, <3>2, <3>3, <3>4
  <2>. HIDE DEF old, new
  <2>7. HasOverlays(buf') /\ buf'.decorations = old \cup new
    BY <2>1 DEF HasOverlays
  <2>8. MarkersAreHunks'
    BY <2>1, <2>6, <2>7 DEF MarkersAreHunks
  <2>. QED BY <2>1, <2>2, <2>7, <2>8 DEF ReviewInv
<1>. QED BY <1>1, <1>2

\* A step that repaints nothing has nothing to repaint.
LEMMA NothingMoved ==
  ASSUME ReviewInv, UNCHANGED proposals, nextId' = nextId \/ nextId' = nextId + 1,
         HasOverlays(buf'), buf'.decorations = buf.decorations
  PROVE  ReviewInv'
<1>1. nextId' \in Nat /\ IdsApart(proposals', nextId')
  BY FewerProposals DEF ReviewInv
<1>. QED BY <1>1 DEF ReviewInv, MarkersAreHunks

\* Every step keeps the invariant.
LEMMA NextReview == ReviewInv /\ [Next]_vars => ReviewInv'
<1>. SUFFICES ASSUME ReviewInv, [Next]_vars PROVE ReviewInv'
  OBVIOUS
<1>. USE DEF ReviewInv
<1>1. ASSUME NEW from, NEW to, NEW s, HumanEdit(from, to, s) PROVE ReviewInv'
  BY <1>1, BuffersHaveOverlays, SyncPaints DEF HumanEdit
<1>2. CASE HumanUndo
  BY <1>2, BuffersHaveOverlays, SyncPaints DEF HumanUndo
<1>3. CASE ServeRead \/ CancelPermission \/ UNCHANGED vars
  BY <1>3, NothingMoved DEF ServeRead, CancelPermission, vars
<1>4. ASSUME NEW old, NEW new, ReceiveProposal(old, new) PROVE ReviewInv'
  <2>1. CASE GatedReview
    BY <1>4, <2>1, NothingMoved DEF ReceiveProposal
  <2>2. CASE ~GatedReview
    <3>. DEFINE ps == Append(proposals, Proposal(nextId, old, new, buf.text, FALSE))
    <3>1. nextId' = nextId + 1 /\ SyncProposals(buf, ps)
      BY <1>4, <2>2 DEF ReceiveProposal
    <3>2. IdsApart(ps, nextId + 1)
      BY OneMoreProposal, Zenon
    <3>. HIDE DEF ps
    <3>. QED BY <3>1, <3>2, SyncPaints
  <2>. QED BY <2>1, <2>2
<1>5. ASSUME NEW new, ReviewForPermission(new) PROVE ReviewInv'
  <2>. DEFINE ps == Append(proposals, Proposal(nextId, buf.text, new, buf.text, TRUE))
  <2>1. nextId' = nextId + 1 /\ SyncProposals(buf, ps)
    BY <1>5 DEF ReviewForPermission
  <2>2. IdsApart(ps, nextId + 1)
    BY OneMoreProposal, Zenon
  <2>. HIDE DEF ps
  <2>. QED BY <2>1, <2>2, SyncPaints
<1>6. ASSUME NEW accept \in BOOLEAN, ResolveProposal(accept) PROVE ReviewInv'
  <2>. DEFINE p      == Head(proposals)
              clean  == Applicable(p)
              edited == IF accept /\ clean # <<>> THEN ApplyHunks(buf, clean) ELSE buf
              after  == Drained([edited EXCEPT !.decorations = RemoveProposal(@, p.id)])
  <2>1. HasOverlays(edited)
    BY BuffersHaveOverlays DEF ApplyHunks
  <2>2. SyncProposals(after, Tail(proposals)) /\ nextId' = nextId /\ proposals # <<>>
    BY <1>6 DEF ResolveProposal
  <2>3. HasOverlays(after)
    <3>. HIDE DEF edited
    <3>. QED BY <2>1, BuffersHaveOverlays
  <2>. HIDE DEF after
  <2>. QED BY <2>2, <2>3, FewerProposals, SyncPaints
<1>7. ASSUME NEW decision, DecidePermission(decision) PROVE ReviewInv'
  <2>1. IdsApart(Without(proposals, permission.review), nextId') /\ nextId' \in Nat
    BY <1>7, FewerProposals DEF DecidePermission
  <2>. QED BY <1>7, <2>1, SyncPaints DEF DecidePermission
<1>8. ASSUME NEW t, AgentWritesFile(t) PROVE ReviewInv'
  <2>1. CASE IsDirty(buf)
    BY <1>8, <2>1, NothingMoved DEF AgentWritesFile
  <2>2. CASE ~IsDirty(buf)
    BY <1>8, <2>2, BuffersHaveOverlays, SyncPaints DEF AgentWritesFile
  <2>. QED BY <2>1, <2>2
<1>9. CASE Save
  <2>1. buf' = [[buf EXCEPT !.saved = buf.version] EXCEPT !.broken = TRUE]
    BY <1>9 DEF Save, MarkSaved, BreakGroup
  <2>2. HasOverlays(buf') /\ buf'.decorations = buf.decorations
    BY <2>1 DEF HasOverlays
  <2>. QED BY <1>9, <2>2, NothingMoved DEF Save
<1>. QED BY <1>1, <1>2, <1>3, <1>4, <1>5, <1>6, <1>7, <1>8, <1>9 DEF Next

\* There is no proposal to begin with.
LEMMA InitReview == Init => ReviewInv
<1>. SUFFICES ASSUME Init PROVE ReviewInv
  OBVIOUS
<1>1. HasOverlays(buf)
  BY BuffersHaveOverlays DEF Init
<1>2. proposals = <<>> /\ proposals \in Seq({}) /\ DOMAIN proposals = {} /\ nextId = 1
  BY DEF Init
<1>3. ToSet(proposals) = {}
  BY <1>2 DEF ToSet
<1>. QED BY <1>1, <1>2, <1>3 DEF ReviewInv, IdsApart, MarkersAreHunks

\* A pending proposal reads the same in the pane and in the gutter: its markers are its
\* hunks, where the hunks are now (Model::sync_proposals).
THEOREM MarkersFollowHunks == Spec => []MarkersAreHunks
<1>1. ReviewInv => MarkersAreHunks
  BY DEF ReviewInv
<1>. QED BY <1>1, InitReview, NextReview, PTL DEF Spec
=============================================================================
