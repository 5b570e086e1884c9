------------------------------ MODULE GitProofs ------------------------------
(***************************************************************************)
(* Proof that what Git is shown to be is the repository as it is, for any  *)
(* files, any number of keys, of changes by other programs and of requests *)
(* in the queue and answers under way: once nothing is under way a view    *)
(* that reads ready shows the repository, and whatever the model waits for *)
(* is under way.                                                           *)
(***************************************************************************)
EXTENDS GitSync, SequenceTheorems, TLAPS

\* A finite sequence, of whatever it holds.
IsSeq(s) == s \in Seq(Range(s))

Views == {"refresh", "diff", "branches"}
Ops == Views \cup Operations

\* The request of this kind that the model waits for, 0 for none.
Active(g, op) ==
  CASE op = "refresh" -> g.refresh
    [] op = "diff" -> g.diff
    [] op = "branches" -> g.branches
    [] OTHER -> g.operation
Slots == {"refresh", "diff", "branches", "stage"}
Slot(op) == IF op \in Operations THEN "stage" ELSE op

\* The type of the model's record.
GitTyped(g) ==
  g \in [load : {g.load}, snapshot : {g.snapshot}, refresh : Nat, diff : Nat,
         branches : Nat, operation : Nat, pending : BOOLEAN]

TypeInv ==
  /\ IsSeq(gitQueue) /\ IsSeq(gitEvents)
  /\ gitAsked \in Nat /\ told \in BOOLEAN /\ executed \in BOOLEAN
  /\ GitTyped(git)

\* The requests the model waits for are different ones, and were all asked.
ActiveApart ==
  /\ \A s \in Slots : Active(git, s) <= gitAsked
  /\ \A s, t \in Slots : Active(git, s) = Active(git, t) /\ Active(git, s) # 0 => s = t

\* Every request with the worker is the one the model waits for, and so is every answer.
QueueIsActive ==
  \A k \in DOMAIN gitQueue :
    /\ gitQueue[k].op \in Ops /\ gitQueue[k].id \in Nat \ {0}
    /\ gitQueue[k].id = Active(git, gitQueue[k].op)
EventsAreActive ==
  \A k \in DOMAIN gitEvents :
    /\ gitEvents[k].id \in Nat \ {0}
    /\ gitEvents[k].kind \in {"snapshot", "diff", "branches", "done", "failed"}
    /\ gitEvents[k].kind = "snapshot" => gitEvents[k].id = Active(git, "refresh")
    /\ gitEvents[k].kind = "diff" => gitEvents[k].id = Active(git, "diff")
    /\ gitEvents[k].kind = "branches" => gitEvents[k].id = Active(git, "branches")
    /\ gitEvents[k].kind = "done" \/ gitEvents[k].applied => gitEvents[k].id = Active(git, "stage")
    /\ gitEvents[k].kind = "failed" => \E s \in Slots : gitEvents[k].id = Active(git, s)

\* A request is asked or answered, and once.
AskedOnce ==
  \A j, k \in DOMAIN gitQueue : gitQueue[j].id = gitQueue[k].id => j = k
AnsweredOnce ==
  \A j, k \in DOMAIN gitEvents : gitEvents[j].id = gitEvents[k].id => j = k
AskedOrAnswered ==
  \A j \in DOMAIN gitQueue : \A k \in DOMAIN gitEvents : gitQueue[j].id # gitEvents[k].id

\* What the model waits for is under way.
UnderWay(id, queue, events) ==
  \/ \E k \in DOMAIN queue : queue[k].id = id
  \/ \E k \in DOMAIN events : events[k].id = id
WaitsAreUnderWay ==
  /\ \A s \in Slots : Active(git, s) # 0 => UnderWay(Active(git, s), gitQueue, gitEvents)
  /\ git.pending => Active(git, "refresh") # 0

\* An operation that was run is the request at the head.
RunIsAtHead ==
  executed => 1 \in DOMAIN gitQueue /\ gitQueue[1].op \in Operations

\* An answer that changes what is shown, and the last of them.
Shows(g, e) ==
  \/ e.kind \in {"snapshot", "done"}
  \/ e.kind = "failed" /\ (e.id = Active(g, "refresh") \/ e.applied)
LastShows(g, events, k) ==
  Shows(g, events[k]) /\ \A j \in DOMAIN events : k < j => ~Shows(g, events[j])
RefreshAsked == git.pending \/ \E k \in DOMAIN gitQueue : gitQueue[k].op = "refresh"

\* With no change to report and no refresh to come, the last answer that is shown is of
\* the repository as it is, or leaves the view marked; and with none so is the view.
NewsIsCurrent ==
  told /\ ~executed /\ ~RefreshAsked =>
    \/ \E k \in DOMAIN gitEvents :
         /\ LastShows(git, gitEvents, k)
         /\ gitEvents[k].kind # "failed" => gitEvents[k].data = Snapshot(repo)
    \/ /\ \A k \in DOMAIN gitEvents : ~Shows(git, gitEvents[k])
       /\ git.load = "ready" => git.snapshot = Snapshot(repo)

GitInv ==
  /\ TypeInv /\ ActiveApart /\ QueueIsActive /\ EventsAreActive
  /\ AskedOnce /\ AnsweredOnce /\ AskedOrAnswered
  /\ WaitsAreUnderWay /\ RunIsAtHead /\ NewsIsCurrent

-----------------------------------------------------------------------------
\* `new` is `old` with x appended; `new` is `old` without its first element.
Grown(new, old, x) ==
  /\ \A k \in DOMAIN new : \/ k \in Nat /\ k \in DOMAIN old /\ k < Len(old) + 1 /\ new[k] = old[k]
                           \/ k \in Nat /\ k = Len(old) + 1 /\ new[k] = x
  /\ \A k \in DOMAIN old : k \in Nat /\ k < Len(old) + 1 /\ k \in DOMAIN new /\ new[k] = old[k]
  /\ Len(old) + 1 \in Nat /\ Len(old) + 1 \in DOMAIN new /\ new[Len(old) + 1] = x
Shrunk(new, old) ==
  /\ 1 \in DOMAIN old /\ Head(old) = old[1]
  /\ \A k \in DOMAIN new : k \in Nat /\ 1 < k + 1 /\ k + 1 \in DOMAIN old /\ new[k] = old[k + 1]
  /\ \A k \in DOMAIN old : k \in Nat /\ (k # 1 => 1 < k /\ k - 1 \in DOMAIN new /\ new[k - 1] = old[k])

\* A sequence of members of any set is one of its own members.
LEMMA SeqOfItsRange ==
  ASSUME NEW S, NEW s \in Seq(S)
  PROVE  IsSeq(s)
<1>1. Len(s) \in Nat /\ DOMAIN s = 1 .. Len(s) /\ \A i \in 1 .. Len(s) : s[i] \in Range(s)
  BY DEF Range
<1>2. s = [i \in 1 .. Len(s) |-> s[i]]
  OBVIOUS
<1>3. [i \in 1 .. Len(s) |-> s[i]] \in Seq(Range(s))
  BY <1>1
<1>. QED BY <1>2, <1>3 DEF IsSeq

\* What appending to a sequence leaves in it, and where.
LEMMA AppendFacts ==
  ASSUME NEW s, IsSeq(s), NEW x
  PROVE  IsSeq(Append(s, x)) /\ Grown(Append(s, x), s, x)
<1>. DEFINE S == Range(s) \cup {x}
<1>1. s \in Seq(S) /\ x \in S
  <2>1. s \in Seq(Range(s))
    BY DEF IsSeq
  <2>2. \A i \in 1 .. Len(s) : s[i] \in S
    BY <2>1
  <2>. QED BY <2>1, <2>2
<1>. HIDE DEF S
<1>2. Append(s, x) \in Seq(S) /\ Grown(Append(s, x), s, x)
  BY <1>1 DEF Grown
<1>. QED BY <1>2, SeqOfItsRange

\* What the tail of a sequence keeps, and where.
LEMMA TailFacts ==
  ASSUME NEW s, IsSeq(s), s # <<>>
  PROVE  IsSeq(Tail(s)) /\ Shrunk(Tail(s), s)
<1>. DEFINE S == Range(s)
<1>1. s \in Seq(S)
  BY DEF IsSeq
<1>. HIDE DEF S
<1>2. Tail(s) \in Seq(S) /\ Shrunk(Tail(s), s)
  BY <1>1 DEF Shrunk
<1>. QED BY <1>2, SeqOfItsRange

\* Every request belongs to a slot, and only to it.
LEMMA SlotFacts ==
  /\ \A op \in Ops : Slot(op) \in Slots /\ \A g : Active(g, op) = Active(g, Slot(op))
  /\ \A s \in Slots : s \in Ops /\ Slot(s) = s
BY DEF Ops, Views, Operations, Slots, Slot, Active

\* The slots are the fields of the model's record.
LEMMA SlotValues ==
  ASSUME NEW g
  PROVE  /\ Active(g, "refresh") = g.refresh /\ Active(g, "diff") = g.diff
         /\ Active(g, "branches") = g.branches /\ Active(g, "stage") = g.operation
BY DEF Active

\* Every request and answer under way was asked.
LEMMA IdsAreAsked ==
  ASSUME GitInv
  PROVE  /\ \A s \in Slots : Active(git, s) \in Nat /\ Active(git, s) <= gitAsked
         /\ \A k \in DOMAIN gitQueue : gitQueue[k].id \in Nat /\ gitQueue[k].id <= gitAsked
         /\ \A k \in DOMAIN gitEvents : gitEvents[k].id \in Nat /\ gitEvents[k].id <= gitAsked
<1>1. \A s \in Slots : Active(git, s) \in Nat /\ Active(git, s) <= gitAsked
  BY DEF GitInv, TypeInv, GitTyped, Active, Slots, ActiveApart
<1>2. \A k \in DOMAIN gitQueue : gitQueue[k].id \in Nat /\ gitQueue[k].id <= gitAsked
  BY <1>1, SlotFacts DEF GitInv, QueueIsActive
<1>3. \A k \in DOMAIN gitEvents : gitEvents[k].id \in Nat /\ gitEvents[k].id <= gitAsked
  <2>. TAKE k \in DOMAIN gitEvents
  <2>1. \E s \in Slots : gitEvents[k].id = Active(git, s)
    BY DEF GitInv, EventsAreActive, Slots
  <2>. QED BY <1>1, <2>1
<1>. QED BY <1>1, <1>2, <1>3

gitState == <<git, gitAsked, gitQueue, executed, gitEvents, repo, told>>

\* The first snapshot is asked for when the workspace is opened.
LEMMA InitGit == GitInit => GitInv
<1>. SUFFICES ASSUME GitInit PROVE GitInv
  OBVIOUS
<1>. DEFINE r == [id |-> 1, op |-> "refresh", arg |-> 0]
<1>1. gitQueue = <<r>> /\ DOMAIN gitQueue = {1} /\ gitQueue[1] = r /\ gitEvents = <<>> /\ DOMAIN gitEvents = {}
  BY DEF GitInit
<1>2. IsSeq(gitQueue) /\ IsSeq(gitEvents)
  <2>1. <<r>> \in Seq({r}) /\ <<>> \in Seq({})
    OBVIOUS
  <2>. QED BY <1>1, <2>1, SeqOfItsRange
<1>3. \A s \in Slots : Active(git, s) = IF s = "refresh" THEN 1 ELSE 0
  BY DEF GitInit, Slots, Active
<1>4. r.op = "refresh" /\ r.id = 1
  OBVIOUS
<1>5. gitAsked = 1 /\ told = TRUE /\ executed = FALSE /\ git.pending = FALSE
  BY DEF GitInit
<1>6. TypeInv
  <2>1. GitTyped(git)
    BY DEF GitInit, GitTyped
  <2>. QED BY <1>2, <1>5, <2>1 DEF TypeInv
<1>7. ActiveApart /\ WaitsAreUnderWay
  BY <1>1, <1>3, <1>4, <1>5 DEF ActiveApart, WaitsAreUnderWay, UnderWay, Slots
<1>8. QueueIsActive
  BY <1>1, <1>3, <1>4 DEF QueueIsActive, Ops, Views, Slots
<1>9. RefreshAsked
  BY <1>1, <1>4 DEF RefreshAsked
<1>. QED BY <1>1, <1>5, <1>6, <1>7, <1>8, <1>9 DEF GitInv, EventsAreActive, AskedOnce, AnsweredOnce,
     AskedOrAnswered, RunIsAtHead, NewsIsCurrent

\* A step of the overlays alone.
LEMMA StutterGit ==
  ASSUME GitInv, UNCHANGED gitState
  PROVE  GitInv'
BY DEF gitState, GitInv, TypeInv, ActiveApart, QueueIsActive, EventsAreActive, AskedOnce, AnsweredOnce,
   AskedOrAnswered, WaitsAreUnderWay, UnderWay, RunIsAtHead, NewsIsCurrent, RefreshAsked, LastShows, Shows, GitTyped

\* A request into a free slot: of a refresh, or of what leaves the view alone.
LEMMA AskKeeps ==
  ASSUME GitInv, NEW op \in Ops, NEW arg, Ask(op, arg), Active(git, op) = 0, GitTyped(git'),
         UNCHANGED <<executed, gitEvents, repo>>, told' \in BOOLEAN,
         op # "refresh" => UNCHANGED told,
         \A s \in Slots : Active(git', s) = IF s = Slot(op) THEN gitAsked + 1 ELSE Active(git, s),
         git'.pending = git.pending,
         op # "refresh" => git'.load = git.load /\ git'.snapshot = git.snapshot
  PROVE  GitInv'
<1>. DEFINE r == [id |-> gitAsked + 1, op |-> op, arg |-> arg]
<1>0. gitAsked \in Nat /\ gitAsked' = gitAsked + 1 /\ gitQueue' = Append(gitQueue, r) /\ IsSeq(gitQueue)
  BY DEF Ask, GitInv, TypeInv
<1>1. r.id = gitAsked + 1 /\ r.op = op
  OBVIOUS
<1>. HIDE DEF r
<1>q. IsSeq(gitQueue') /\ Grown(gitQueue', gitQueue, r)
  BY <1>0, AppendFacts
<1>2. \A k \in DOMAIN gitQueue : gitQueue[k].id # gitAsked + 1
  BY <1>0, IdsAreAsked
<1>3. \A k \in DOMAIN gitEvents : gitEvents[k].id # gitAsked + 1
  BY <1>0, IdsAreAsked
<1>4. Slot(op) \in Slots /\ Active(git, Slot(op)) = 0
  BY SlotFacts
<1>5. TypeInv'
  BY <1>0, <1>q DEF GitInv, TypeInv, GitTyped
<1>6. ActiveApart'
  <2>1. \A s \in Slots : Active(git, s) \in Nat /\ Active(git, s) <= gitAsked
    BY IdsAreAsked
  <2>. QED BY <1>0, <2>1 DEF GitInv, ActiveApart
<1>7. QueueIsActive'
  <2>1. ASSUME NEW k \in DOMAIN gitQueue, gitQueue'[k] = gitQueue[k]
        PROVE  gitQueue'[k].id = Active(git', gitQueue'[k].op)
    <3>1. gitQueue[k].op \in Ops /\ gitQueue[k].id = Active(git, gitQueue[k].op) /\ gitQueue[k].id # 0
      BY DEF GitInv, QueueIsActive
    <3>. QED BY <2>1, <3>1, <1>4, SlotFacts
  <2>2. Active(git', op) = gitAsked + 1
    BY <1>4, SlotFacts
  <2>. QED BY <1>0, <1>1, <1>q, <2>1, <2>2 DEF GitInv, QueueIsActive, Grown
<1>8. EventsAreActive'
  <2>1. \A s \in Slots : Active(git, s) # 0 => Active(git', s) = Active(git, s)
    BY <1>4
  <2>. QED BY <2>1 DEF GitInv, EventsAreActive, Slots
<1>9. AskedOnce'
  BY <1>1, <1>2, <1>q DEF GitInv, AskedOnce, Grown
<1>10. AnsweredOnce'
  BY DEF GitInv, AnsweredOnce
<1>11. AskedOrAnswered'
  BY <1>1, <1>3, <1>q DEF GitInv, AskedOrAnswered, Grown
<1>12. WaitsAreUnderWay'
  <2>1. \A id : UnderWay(id, gitQueue, gitEvents) => UnderWay(id, gitQueue', gitEvents')
    BY <1>q DEF UnderWay, Grown
  <2>2. UnderWay(gitAsked + 1, gitQueue', gitEvents')
    BY <1>1, <1>q DEF UnderWay, Grown
  <2>3. git'.pending => Active(git', "refresh") # 0
    BY <1>0 DEF GitInv, WaitsAreUnderWay, Slots
  <2>. QED BY <1>4, <2>1, <2>2, <2>3 DEF GitInv, WaitsAreUnderWay
<1>13. RunIsAtHead'
  BY <1>q DEF GitInv, RunIsAtHead, Grown
<1>14. NewsIsCurrent'
  <2>1. CASE op = "refresh"
    <3>1. RefreshAsked'
      BY <1>1, <1>q, <2>1 DEF RefreshAsked, Grown
    <3>. QED BY <3>1 DEF NewsIsCurrent
  <2>2. CASE op # "refresh"
    <3>1. RefreshAsked => RefreshAsked'
      BY <1>q DEF RefreshAsked, Grown
    <3>2. Active(git', "refresh") = Active(git, "refresh")
      BY <2>2 DEF Slots, Slot, Operations
    <3>3. \A e : Shows(git', e) <=> Shows(git, e)
      BY <3>2 DEF Shows
    <3>. QED BY <2>2, <3>1, <3>3 DEF GitInv, NewsIsCurrent, LastShows
  <2>. QED BY <2>1, <2>2
<1>. QED BY <1>5, <1>6, <1>7, <1>8, <1>9, <1>10, <1>11, <1>12, <1>13, <1>14 DEF GitInv

\* A change that is reported is asked about, at once or when the refresh that is under
\* way is answered (request_git_refresh).
LEMMA RequestGitRefreshKeeps ==
  ASSUME GitInv, RequestGitRefresh(git), UNCHANGED <<executed, gitEvents, repo>>, told' \in BOOLEAN
  PROVE  GitInv'
<1>t. GitTyped(git)
  BY DEF GitInv, TypeInv, GitTyped
<1>1. CASE git.refresh # 0
  <2>1. git' = [git EXCEPT !.pending = TRUE] /\ UNCHANGED <<gitAsked, gitQueue>>
    BY <1>1 DEF RequestGitRefresh, AskNothing
  <2>2. /\ GitTyped(git') /\ git'.pending = TRUE /\ git'.refresh = git.refresh /\ git'.diff = git.diff
        /\ git'.branches = git.branches /\ git'.operation = git.operation
    BY <1>t, <2>1 DEF GitTyped
  <2>3. \A op : Active(git', op) = Active(git, op)
    BY <2>2 DEF Active
  <2>4. RefreshAsked'
    BY <2>2 DEF RefreshAsked
  <2>5. TypeInv'
    BY <2>1, <2>2 DEF GitInv, TypeInv, GitTyped
  <2>6. WaitsAreUnderWay'
    BY <1>1, <2>1, <2>3, SlotValues DEF GitInv, WaitsAreUnderWay, UnderWay
  <2>7. ActiveApart' /\ QueueIsActive' /\ EventsAreActive'
    BY <2>1, <2>3 DEF GitInv, ActiveApart, QueueIsActive, EventsAreActive
  <2>8. AskedOnce' /\ AnsweredOnce' /\ AskedOrAnswered' /\ RunIsAtHead'
    BY <2>1 DEF GitInv, AskedOnce, AnsweredOnce, AskedOrAnswered, RunIsAtHead
  <2>. QED BY <2>4, <2>5, <2>6, <2>7, <2>8 DEF GitInv, NewsIsCurrent
<1>2. CASE git.refresh = 0
  <2>1. git' = [git EXCEPT !.refresh = gitAsked + 1, !.load = "loading"] /\ Ask("refresh", 0)
    BY <1>2 DEF RequestGitRefresh
  <2>2. gitAsked + 1 \in Nat
    BY DEF GitInv, TypeInv
  <2>3. /\ GitTyped(git') /\ git'.pending = git.pending /\ git'.refresh = gitAsked + 1 /\ git'.diff = git.diff
        /\ git'.branches = git.branches /\ git'.operation = git.operation
    BY <1>t, <2>1, <2>2 DEF GitTyped
  <2>4. "refresh" \in Ops /\ Slot("refresh") = "refresh"
    BY DEF Ops, Views, Slot, Operations
  <2>5. \A s \in Slots : Active(git', s) = IF s = "refresh" THEN gitAsked + 1 ELSE Active(git, s)
    BY <2>3 DEF Active, Slots
  <2>6. Active(git, "refresh") = 0
    BY <1>2, SlotValues
  <2>. QED BY <2>1, <2>3, <2>4, <2>5, <2>6, AskKeeps
<1>. QED BY <1>1, <1>2

\* One operation at a time, another is refused (queue_git_operation).
LEMMA QueueGitOperationKeeps ==
  ASSUME GitInv, NEW op \in Operations, NEW arg, QueueGitOperation(op, arg),
         UNCHANGED <<executed, gitEvents, repo, told>>
  PROVE  GitInv'
<1>t. GitTyped(git) /\ gitAsked + 1 \in Nat /\ told \in BOOLEAN
  BY DEF GitInv, TypeInv, GitTyped
<1>1. CASE git.operation # 0
  BY <1>1, StutterGit DEF QueueGitOperation, AskNothing, gitState
<1>2. CASE git.operation = 0
  <2>1. git' = [git EXCEPT !.operation = gitAsked + 1] /\ Ask(op, arg)
    BY <1>2 DEF QueueGitOperation
  <2>2. /\ GitTyped(git') /\ git'.pending = git.pending /\ git'.refresh = git.refresh /\ git'.diff = git.diff
        /\ git'.branches = git.branches /\ git'.operation = gitAsked + 1
        /\ git'.load = git.load /\ git'.snapshot = git.snapshot
    BY <1>t, <2>1 DEF GitTyped
  <2>3. op \in Ops /\ Slot(op) = "stage" /\ Active(git, op) = 0
    BY <1>2 DEF Ops, Slot, Operations, Active
  <2>4. \A s \in Slots : Active(git', s) = IF s = "stage" THEN gitAsked + 1 ELSE Active(git, s)
    BY <2>2 DEF Active, Slots
  <2>. QED BY <1>t, <2>1, <2>2, <2>3, <2>4, AskKeeps
<1>. QED BY <1>1, <1>2

\* The diff of a row and the list of branches are asked for when none is under way.
LEMMA OverlayAsksKeep ==
  ASSUME GitInv, OpenSelectedGitDiff \/ RequestGitBranches
  PROVE  GitInv'
<1>t. GitTyped(git) /\ gitAsked + 1 \in Nat /\ told \in BOOLEAN
  BY DEF GitInv, TypeInv, GitTyped
<1>u. UNCHANGED <<executed, gitEvents, repo, told>>
  BY DEF OpenSelectedGitDiff, RequestGitBranches, Quiet, worldVars
<1>1. CASE OpenSelectedGitDiff
  <2>1. CASE UNCHANGED git /\ AskNothing
    BY <1>u, <2>1, StutterGit DEF AskNothing, gitState
  <2>2. CASE \E arg : git' = [git EXCEPT !.diff = gitAsked + 1] /\ Ask("diff", arg)
    <3>1. PICK arg : git' = [git EXCEPT !.diff = gitAsked + 1] /\ Ask("diff", arg)
      BY <2>2
    <3>2. /\ GitTyped(git') /\ git'.pending = git.pending /\ git'.refresh = git.refresh
          /\ git'.diff = gitAsked + 1 /\ git'.branches = git.branches /\ git'.operation = git.operation
          /\ git'.load = git.load /\ git'.snapshot = git.snapshot
      BY <1>t, <3>1 DEF GitTyped
    <3>3. "diff" \in Ops /\ Slot("diff") = "diff" /\ Active(git, "diff") = 0
      BY <1>1 DEF OpenSelectedGitDiff, Ops, Views, Slot, Operations, Active
    <3>4. \A s \in Slots : Active(git', s) = IF s = "diff" THEN gitAsked + 1 ELSE Active(git, s)
      BY <3>2 DEF Active, Slots
    <3>. QED BY <1>t, <1>u, <3>1, <3>2, <3>3, <3>4, AskKeeps
  <2>. QED BY <1>1, <2>1, <2>2 DEF OpenSelectedGitDiff
<1>2. CASE RequestGitBranches
  <2>1. git' = [git EXCEPT !.branches = gitAsked + 1] /\ Ask("branches", 0) /\ git.branches = 0
    BY <1>2 DEF RequestGitBranches
  <2>2. /\ GitTyped(git') /\ git'.pending = git.pending /\ git'.refresh = git.refresh
        /\ git'.diff = git.diff /\ git'.branches = gitAsked + 1 /\ git'.operation = git.operation
        /\ git'.load = git.load /\ git'.snapshot = git.snapshot
    BY <1>t, <2>1 DEF GitTyped
  <2>3. "branches" \in Ops /\ Slot("branches") = "branches" /\ Active(git, "branches") = 0
    BY <2>1 DEF Ops, Views, Slot, Operations, Active
  <2>4. \A s \in Slots : Active(git', s) = IF s = "branches" THEN gitAsked + 1 ELSE Active(git, s)
    BY <2>2 DEF Active, Slots
  <2>. QED BY <1>t, <1>u, <2>1, <2>2, <2>3, <2>4, AskKeeps
<1>. QED BY <1>1, <1>2

\* A change by another program is still to be reported.
LEMMA ChangesKeep ==
  ASSUME GitInv, NEW p \in Paths, ChangeFile(p) \/ CreateUntracked(p)
  PROVE  GitInv'
<1>1. told' = FALSE /\ UNCHANGED <<git, gitAsked, gitQueue, executed, gitEvents>>
  BY DEF ChangeFile, CreateUntracked, modelVars, gitWorkerVars
<1>. QED BY <1>1 DEF GitInv, TypeInv, ActiveApart, QueueIsActive, EventsAreActive, AskedOnce,
     AnsweredOnce, AskedOrAnswered, WaitsAreUnderWay, UnderWay, RunIsAtHead, NewsIsCurrent

\* The operation at the head is run: its answer, with a snapshot taken after it, is to come.
LEMMA ServeExecuteKeeps ==
  ASSUME GitInv, ServeExecute
  PROVE  GitInv'
<1>1. executed' = TRUE /\ UNCHANGED <<git, gitAsked, gitQueue, gitEvents, told>>
  BY DEF ServeExecute, modelVars
<1>2. 1 \in DOMAIN gitQueue /\ gitQueue[1].op \in Operations
  <2>1. gitQueue # <<>> /\ Head(gitQueue).op \in Operations /\ IsSeq(gitQueue)
    BY DEF ServeExecute, Serves, GitInv, TypeInv
  <2>. QED BY <2>1, TailFacts DEF Shrunk
<1>. QED BY <1>1, <1>2 DEF GitInv, TypeInv, ActiveApart, QueueIsActive, EventsAreActive, AskedOnce,
     AnsweredOnce, AskedOrAnswered, WaitsAreUnderWay, UnderWay, RunIsAtHead, NewsIsCurrent

\* The worker answers the request at the head: a refresh and an operation with the
\* repository as it is, or with a failure that marks the view if anything was changed.
LEMMA ReplyKeeps ==
  ASSUME GitInv, gitQueue # <<>>, NEW e, gitEvents' = Append(gitEvents, e), gitQueue' = Tail(gitQueue),
         UNCHANGED <<git, gitAsked, repo, told>>, executed' = FALSE, e.id = gitQueue[1].id,
         e.kind \in {"snapshot", "diff", "branches", "done", "failed"},
         e.kind = "snapshot" => gitQueue[1].op = "refresh" /\ e.data = Snapshot(repo),
         e.kind = "diff" => gitQueue[1].op = "diff",
         e.kind = "branches" => gitQueue[1].op = "branches",
         e.kind = "done" \/ e.applied => gitQueue[1].op \in Operations,
         e.kind = "done" => e.data = Snapshot(repo),
         gitQueue[1].op = "refresh" => e.kind \in {"snapshot", "failed"},
         executed => e.kind = "done" \/ (e.kind = "failed" /\ e.applied)
  PROVE  GitInv'
<1>0. IsSeq(gitQueue) /\ IsSeq(gitEvents)
  BY DEF GitInv, TypeInv
<1>q. IsSeq(gitQueue') /\ Shrunk(gitQueue', gitQueue)
  BY <1>0, TailFacts
<1>e. IsSeq(gitEvents') /\ Grown(gitEvents', gitEvents, e)
  BY <1>0, AppendFacts
<1>1. 1 \in DOMAIN gitQueue
  BY <1>q DEF Shrunk
<1>2. gitQueue[1].op \in Ops /\ e.id \in Nat \ {0} /\ e.id = Active(git, gitQueue[1].op)
  BY <1>1 DEF GitInv, QueueIsActive
<1>3. \A k \in DOMAIN gitEvents : gitEvents[k].id # e.id
  BY <1>1 DEF GitInv, AskedOrAnswered
<1>4. \A k \in DOMAIN gitQueue : k # 1 => gitQueue[k].id # e.id
  BY <1>1 DEF GitInv, AskedOnce
<1>5. TypeInv'
  BY <1>q, <1>e DEF GitInv, TypeInv
<1>6. ActiveApart'
  BY DEF GitInv, ActiveApart
<1>7. QueueIsActive'
  BY <1>q DEF GitInv, QueueIsActive, Shrunk
<1>8. EventsAreActive'
  <2>1. e.kind = "failed" => \E s \in Slots : e.id = Active(git, s)
    BY <1>2, SlotFacts
  <2>2. e.kind = "done" \/ e.applied => e.id = Active(git, "stage")
    BY <1>2 DEF Active, Operations
  <2>. QED BY <1>e, <1>2, <2>1, <2>2 DEF GitInv, EventsAreActive, Grown
<1>9. AskedOnce'
  <2>. SUFFICES ASSUME NEW j \in DOMAIN gitQueue', NEW k \in DOMAIN gitQueue', gitQueue'[j].id = gitQueue'[k].id
                PROVE  j = k
    BY DEF AskedOnce
  <2>1. /\ j \in Nat /\ j + 1 \in DOMAIN gitQueue /\ gitQueue'[j] = gitQueue[j + 1]
        /\ k \in Nat /\ k + 1 \in DOMAIN gitQueue /\ gitQueue'[k] = gitQueue[k + 1]
    BY <1>q DEF Shrunk
  <2>2. j + 1 = k + 1
    BY <2>1 DEF GitInv, AskedOnce
  <2>. QED BY <2>1, <2>2
<1>10. AnsweredOnce'
  BY <1>3, <1>e DEF GitInv, AnsweredOnce, Grown
<1>11. AskedOrAnswered'
  <2>. SUFFICES ASSUME NEW j \in DOMAIN gitQueue', NEW k \in DOMAIN gitEvents'
                PROVE  gitQueue'[j].id # gitEvents'[k].id
    BY DEF AskedOrAnswered
  <2>1. j \in Nat /\ j + 1 \in DOMAIN gitQueue /\ j + 1 # 1 /\ gitQueue'[j] = gitQueue[j + 1]
    BY <1>q DEF Shrunk
  <2>. QED BY <1>4, <1>e, <2>1 DEF GitInv, AskedOrAnswered, Grown
<1>12. WaitsAreUnderWay'
  <2>1. ASSUME NEW id, UnderWay(id, gitQueue, gitEvents) PROVE UnderWay(id, gitQueue', gitEvents')
    <3>1. CASE \E k \in DOMAIN gitEvents : gitEvents[k].id = id
      BY <1>e, <3>1 DEF UnderWay, Grown
    <3>2. CASE gitQueue[1].id = id
      BY <1>e, <3>2 DEF UnderWay, Grown
    <3>3. CASE \E k \in DOMAIN gitQueue : k # 1 /\ gitQueue[k].id = id
      <4>1. PICK k \in DOMAIN gitQueue : k # 1 /\ gitQueue[k].id = id
        BY <3>3
      <4>2. k - 1 \in DOMAIN gitQueue' /\ gitQueue'[k - 1] = gitQueue[k]
        BY <1>q, <4>1 DEF Shrunk
      <4>. QED BY <4>1, <4>2 DEF UnderWay
    <3>. QED BY <2>1, <3>1, <3>2, <3>3 DEF UnderWay
  <2>. QED BY <2>1 DEF GitInv, WaitsAreUnderWay
<1>13. RunIsAtHead'
  BY DEF RunIsAtHead
<1>14. NewsIsCurrent'
  <2>s. git' = git /\ \A x : Shows(git', x) <=> Shows(git, x)
    OBVIOUS
  <2>1. CASE Shows(git, e)
    <3>1. PICK n \in DOMAIN gitEvents' : gitEvents'[n] = e /\ n = Len(gitEvents) + 1
      BY <1>e DEF Grown
    <3>2. \A j \in DOMAIN gitEvents' : ~(n < j)
      BY <1>e, <3>1 DEF Grown
    <3>3. LastShows(git', gitEvents', n)
      BY <2>1, <2>s, <3>1, <3>2 DEF LastShows
    <3>4. e.kind # "failed" => e.data = Snapshot(repo)
      BY <2>1 DEF Shows
    <3>. QED BY <3>1, <3>3, <3>4 DEF NewsIsCurrent
  <2>2. CASE ~Shows(git, e)
    <3>1. ~executed
      BY <2>2 DEF Shows
    <3>2. gitQueue[1].op # "refresh"
      BY <1>2, <2>2 DEF Shows
    <3>3. RefreshAsked => RefreshAsked'
      BY <1>q, <3>2 DEF RefreshAsked, Shrunk
    <3>4. \A k \in DOMAIN gitEvents : 
            LastShows(git, gitEvents, k) =>
              k \in DOMAIN gitEvents' /\ gitEvents'[k] = gitEvents[k] /\ LastShows(git', gitEvents', k)
      BY <1>e, <2>2, <2>s DEF LastShows, Grown
    <3>5. (\A k \in DOMAIN gitEvents : ~Shows(git, gitEvents[k]))
            => (\A k \in DOMAIN gitEvents' : ~Shows(git', gitEvents'[k]))
      BY <1>e, <2>2, <2>s DEF Grown
    <3>. QED BY <3>1, <3>3, <3>4, <3>5 DEF GitInv, NewsIsCurrent
  <2>. QED BY <2>1, <2>2
<1>. QED BY <1>5, <1>6, <1>7, <1>8, <1>9, <1>10, <1>11, <1>12, <1>13, <1>14 DEF GitInv

\* Every step of the worker that ends in an answer.
LEMMA ServeKeeps ==
  ASSUME GitInv,
         ServeRefresh \/ ServeDiff \/ ServeBranches \/ ServeFailure \/ ServeSnapshot \/ ServeSnapshotFailure
  PROVE  GitInv'
<1>0. IsSeq(gitQueue)
  BY DEF GitInv, TypeInv
<1>1. UNCHANGED <<git, gitAsked, repo, told>> /\ gitQueue' = Tail(gitQueue)
  BY DEF ServeRefresh, ServeDiff, ServeBranches, ServeFailure, ServeSnapshot, ServeSnapshotFailure, Reply, modelVars
<1>2. gitQueue # <<>> /\ Head(gitQueue) = gitQueue[1]
  <2>1. gitQueue # <<>>
    BY <1>0, EmptySeq DEF ServeRefresh, ServeDiff, ServeBranches, ServeFailure, ServeSnapshot, ServeSnapshotFailure,
       Serves, GitInv, RunIsAtHead
  <2>. QED BY <1>0, <2>1, TailFacts DEF Shrunk
<1>3. executed' = FALSE
  BY DEF ServeRefresh, ServeDiff, ServeBranches, ServeFailure, ServeSnapshot, ServeSnapshotFailure,
     Serves, GitInv, TypeInv
<1>. DEFINE id == gitQueue[1].id
<1>4. CASE ServeRefresh
  <2>. DEFINE e == [Event("snapshot", id) EXCEPT !.data = Snapshot(repo)]
  <2>1. gitEvents' = Append(gitEvents, e) /\ gitQueue[1].op = "refresh" /\ ~executed
    BY <1>2, <1>4 DEF ServeRefresh, Reply, Serves
  <2>2. e.kind = "snapshot" /\ e.id = id /\ e.applied = FALSE /\ e.data = Snapshot(repo)
    BY DEF Event
  <2>. HIDE DEF e
  <2>. QED BY <1>1, <1>2, <1>3, <2>1, <2>2, ReplyKeeps
<1>5. CASE ServeDiff
  <2>. DEFINE e == [Event("diff", id) EXCEPT !.data = gitQueue[1].arg]
  <2>1. gitEvents' = Append(gitEvents, e) /\ gitQueue[1].op = "diff" /\ ~executed
    BY <1>2, <1>5 DEF ServeDiff, Reply, Serves
  <2>2. e.kind = "diff" /\ e.id = id /\ e.applied = FALSE
    BY DEF Event
  <2>. HIDE DEF e
  <2>. QED BY <1>1, <1>2, <1>3, <2>1, <2>2, ReplyKeeps
<1>6. CASE ServeBranches
  <2>. DEFINE e == Event("branches", id)
  <2>1. gitEvents' = Append(gitEvents, e) /\ gitQueue[1].op = "branches" /\ ~executed
    BY <1>2, <1>6 DEF ServeBranches, Reply, Serves
  <2>2. e.kind = "branches" /\ e.id = id /\ e.applied = FALSE
    BY DEF Event
  <2>. HIDE DEF e
  <2>. QED BY <1>1, <1>2, <1>3, <2>1, <2>2, ReplyKeeps
<1>7. CASE ServeFailure
  <2>. DEFINE e == Event("failed", id)
  <2>1. gitEvents' = Append(gitEvents, e) /\ ~executed
    BY <1>2, <1>7 DEF ServeFailure, Reply, Serves
  <2>2. e.kind = "failed" /\ e.id = id /\ e.applied = FALSE
    BY DEF Event
  <2>. HIDE DEF e
  <2>. QED BY <1>1, <1>2, <1>3, <2>1, <2>2, ReplyKeeps
<1>8. CASE ServeSnapshot
  <2>. DEFINE e == [Event("done", id) EXCEPT !.data = Snapshot(repo)]
  <2>1. gitEvents' = Append(gitEvents, e) /\ gitQueue[1].op \in Operations
    BY <1>2, <1>8 DEF ServeSnapshot, Reply, GitInv, RunIsAtHead
  <2>2. e.kind = "done" /\ e.id = id /\ e.applied = FALSE /\ e.data = Snapshot(repo)
    BY DEF Event
  <2>3. gitQueue[1].op # "refresh"
    BY <2>1 DEF Operations
  <2>. HIDE DEF e
  <2>. QED BY <1>1, <1>2, <1>3, <2>1, <2>2, <2>3, ReplyKeeps
<1>9. CASE ServeSnapshotFailure
  <2>. DEFINE e == [Event("failed", id) EXCEPT !.applied = TRUE]
  <2>1. gitEvents' = Append(gitEvents, e) /\ gitQueue[1].op \in Operations
    BY <1>2, <1>9 DEF ServeSnapshotFailure, Reply, GitInv, RunIsAtHead
  <2>2. e.kind = "failed" /\ e.id = id /\ e.applied = TRUE
    BY DEF Event
  <2>. HIDE DEF e
  <2>. QED BY <1>1, <1>2, <1>3, <2>1, <2>2, ReplyKeeps
<1>. QED BY <1>4, <1>5, <1>6, <1>7, <1>8, <1>9

\* An answer to what the model waits for is taken: the slot is free, and the view is
\* of what the answer carries, or marked, or as it was.
LEMMA TakeKeeps ==
  ASSUME GitInv, gitEvents # <<>>, NEW s \in Slots, Active(git, s) = gitEvents[1].id,
         gitEvents' = Tail(gitEvents), UNCHANGED <<gitAsked, gitQueue, executed, repo, told>>, GitTyped(git'),
         \A t \in Slots : Active(git', t) = IF t = s THEN 0 ELSE Active(git, t),
         git'.pending = git.pending, s = "refresh" => ~git.pending,
         Shows(git, gitEvents[1]) /\ git'.load = "ready" =>
           gitEvents[1].kind # "failed" /\ git'.snapshot = gitEvents[1].data,
         ~Shows(git, gitEvents[1]) => git'.load = git.load /\ git'.snapshot = git.snapshot
  PROVE  GitInv'
<1>0. IsSeq(gitEvents)
  BY DEF GitInv, TypeInv
<1>e. IsSeq(gitEvents') /\ Shrunk(gitEvents', gitEvents)
  BY <1>0, TailFacts
<1>1. 1 \in DOMAIN gitEvents /\ gitEvents[1].id # 0
  BY <1>e DEF Shrunk, GitInv, EventsAreActive
<1>2. \A k \in DOMAIN gitEvents : k # 1 => gitEvents[k].id # Active(git, s)
  BY <1>1 DEF GitInv, AnsweredOnce
<1>3. \A k \in DOMAIN gitQueue : gitQueue[k].id # Active(git, s)
  BY <1>1 DEF GitInv, AskedOrAnswered
<1>4. \A k \in DOMAIN gitEvents' :
        k \in Nat /\ k + 1 \in DOMAIN gitEvents /\ k + 1 # 1 /\ gitEvents'[k] = gitEvents[k + 1]
  BY <1>e DEF Shrunk
<1>5. TypeInv'
  BY <1>e DEF GitInv, TypeInv
<1>6. ActiveApart'
  <2>1. gitAsked \in Nat
    BY DEF GitInv, TypeInv
  <2>. QED BY <2>1 DEF GitInv, ActiveApart
<1>7. QueueIsActive'
  <2>. SUFFICES ASSUME NEW k \in DOMAIN gitQueue
                PROVE  gitQueue[k].id = Active(git', gitQueue[k].op)
    BY DEF GitInv, QueueIsActive
  <2>1. gitQueue[k].op \in Ops /\ gitQueue[k].id = Active(git, gitQueue[k].op)
    BY DEF GitInv, QueueIsActive
  <2>2. Slot(gitQueue[k].op) \in Slots /\ \A g : Active(g, gitQueue[k].op) = Active(g, Slot(gitQueue[k].op))
    BY <2>1, SlotFacts
  <2>. QED BY <1>3, <2>1, <2>2
<1>8. EventsAreActive'
  <2>1. ASSUME NEW k \in DOMAIN gitEvents, k # 1, NEW t \in Slots, gitEvents[k].id = Active(git, t)
        PROVE  gitEvents[k].id = Active(git', t)
    BY <1>2, <2>1
  <2>. QED BY <1>4, <2>1 DEF GitInv, EventsAreActive, Slots
<1>9. AskedOnce'
  BY DEF GitInv, AskedOnce
<1>10. AnsweredOnce'
  <2>. SUFFICES ASSUME NEW j \in DOMAIN gitEvents', NEW k \in DOMAIN gitEvents', gitEvents'[j].id = gitEvents'[k].id
                PROVE  j = k
    BY DEF AnsweredOnce
  <2>1. j \in Nat /\ k \in Nat /\ j + 1 = k + 1
    BY <1>4 DEF GitInv, AnsweredOnce
  <2>. QED BY <2>1
<1>11. AskedOrAnswered'
  BY <1>4 DEF GitInv, AskedOrAnswered
<1>12. WaitsAreUnderWay'
  <2>1. ASSUME NEW id, id # Active(git, s), UnderWay(id, gitQueue, gitEvents)
        PROVE  UnderWay(id, gitQueue', gitEvents')
    <3>1. CASE \E k \in DOMAIN gitQueue : gitQueue[k].id = id
      BY <3>1 DEF UnderWay
    <3>2. CASE \E k \in DOMAIN gitEvents : gitEvents[k].id = id
      <4>1. PICK k \in DOMAIN gitEvents : gitEvents[k].id = id
        BY <3>2
      <4>2. k - 1 \in DOMAIN gitEvents' /\ gitEvents'[k - 1] = gitEvents[k]
        BY <1>e, <2>1, <4>1 DEF Shrunk
      <4>. QED BY <4>1, <4>2 DEF UnderWay
    <3>. QED BY <2>1, <3>1, <3>2 DEF UnderWay
  <2>2. \A t \in Slots : t # s /\ Active(git, t) # 0 => Active(git, t) # Active(git, s)
    BY DEF GitInv, ActiveApart
  <2>3. git'.pending => Active(git', "refresh") # 0
    BY DEF GitInv, WaitsAreUnderWay, Slots
  <2>. QED BY <2>1, <2>2, <2>3 DEF GitInv, WaitsAreUnderWay
<1>13. RunIsAtHead'
  BY DEF GitInv, RunIsAtHead
<1>14. NewsIsCurrent'
  <2>. SUFFICES ASSUME told, ~executed, ~RefreshAsked
                PROVE  \/ \E k \in DOMAIN gitEvents' :
                            /\ LastShows(git', gitEvents', k)
                            /\ gitEvents'[k].kind # "failed" => gitEvents'[k].data = Snapshot(repo)
                       \/ /\ \A k \in DOMAIN gitEvents' : ~Shows(git', gitEvents'[k])
                          /\ git'.load = "ready" => git'.snapshot = Snapshot(repo)
    BY DEF NewsIsCurrent, RefreshAsked
  <2>1. \A k \in DOMAIN gitEvents : k # 1 => (Shows(git', gitEvents[k]) <=> Shows(git, gitEvents[k]))
    <3>. TAKE k \in DOMAIN gitEvents
    <3>1. k # 1 => (gitEvents[k].id = Active(git', "refresh") <=> gitEvents[k].id = Active(git, "refresh"))
      <4>1. gitEvents[k].id # 0 /\ "refresh" \in Slots
        BY DEF GitInv, EventsAreActive, Slots
      <4>. QED BY <1>2, <4>1
    <3>. QED BY <3>1 DEF Shows
  <2>2. CASE \E k \in DOMAIN gitEvents :
               /\ LastShows(git, gitEvents, k)
               /\ gitEvents[k].kind # "failed" => gitEvents[k].data = Snapshot(repo)
    <3>1. PICK k \in DOMAIN gitEvents :
                 /\ LastShows(git, gitEvents, k)
                 /\ gitEvents[k].kind # "failed" => gitEvents[k].data = Snapshot(repo)
      BY <2>2
    <3>2. CASE k = 1
      <4>1. \A j \in DOMAIN gitEvents' : ~Shows(git', gitEvents'[j])
        <5>. TAKE j \in DOMAIN gitEvents'
        <5>1. j + 1 \in DOMAIN gitEvents /\ j + 1 # 1 /\ gitEvents'[j] = gitEvents[j + 1] /\ 1 < j + 1
          BY <1>e DEF Shrunk
        <5>2. ~Shows(git, gitEvents[j + 1])
          BY <3>1, <3>2, <5>1 DEF LastShows
        <5>. QED BY <2>1, <5>1, <5>2
      <4>2. Shows(git, gitEvents[1])
        BY <3>1, <3>2 DEF LastShows
      <4>. QED BY <3>1, <3>2, <4>1, <4>2
    <3>3. CASE k # 1
      <4>1. k - 1 \in DOMAIN gitEvents' /\ gitEvents'[k - 1] = gitEvents[k] /\ k \in Nat
        BY <1>e, <3>3 DEF Shrunk
      <4>2. Shows(git', gitEvents'[k - 1])
        BY <2>1, <3>1, <3>3, <4>1 DEF LastShows
      <4>3. \A j \in DOMAIN gitEvents' : k - 1 < j => ~Shows(git', gitEvents'[j])
        <5>. SUFFICES ASSUME NEW j \in DOMAIN gitEvents', k - 1 < j PROVE ~Shows(git', gitEvents'[j])
          OBVIOUS
        <5>1. j + 1 \in DOMAIN gitEvents /\ j + 1 # 1 /\ gitEvents'[j] = gitEvents[j + 1] /\ k < j + 1
          BY <1>4, <4>1
        <5>2. ~Shows(git, gitEvents[j + 1])
          BY <3>1, <5>1 DEF LastShows
        <5>. QED BY <2>1, <5>1, <5>2
      <4>. QED BY <3>1, <4>1, <4>2, <4>3 DEF LastShows
    <3>. QED BY <3>2, <3>3
  <2>3. CASE /\ \A k \in DOMAIN gitEvents : ~Shows(git, gitEvents[k])
             /\ git.load = "ready" => git.snapshot = Snapshot(repo)
    <3>1. ~Shows(git, gitEvents[1])
      BY <1>1, <2>3
    <3>2. \A k \in DOMAIN gitEvents' : ~Shows(git', gitEvents'[k])
      BY <1>4, <2>1, <2>3
    <3>. QED BY <2>3, <3>1, <3>2
  <2>. QED BY <2>2, <2>3 DEF GitInv, NewsIsCurrent
<1>. QED BY <1>5, <1>6, <1>7, <1>8, <1>9, <1>10, <1>11, <1>12, <1>13, <1>14 DEF GitInv

\* The answer to a refresh is taken while another change was reported: a new one is
\* asked for in the same step (finish_git_refresh).
LEMMA TakeAndAskKeeps ==
  ASSUME GitInv, gitEvents # <<>>, Active(git, "refresh") = gitEvents[1].id,
         gitEvents' = Tail(gitEvents), Ask("refresh", 0), UNCHANGED <<executed, repo, told>>, GitTyped(git'),
         \A t \in Slots : Active(git', t) = IF t = "refresh" THEN gitAsked + 1 ELSE Active(git, t),
         git'.pending = FALSE
  PROVE  GitInv'
<1>. DEFINE r == [id |-> gitAsked + 1, op |-> "refresh", arg |-> 0]
<1>0. /\ gitAsked \in Nat /\ gitAsked' = gitAsked + 1 /\ gitQueue' = Append(gitQueue, r)
      /\ IsSeq(gitQueue) /\ IsSeq(gitEvents)
  BY DEF Ask, GitInv, TypeInv
<1>r. r.id = gitAsked + 1 /\ r.op = "refresh"
  OBVIOUS
<1>. HIDE DEF r
<1>q. IsSeq(gitQueue') /\ Grown(gitQueue', gitQueue, r)
  BY <1>0, AppendFacts
<1>e. IsSeq(gitEvents') /\ Shrunk(gitEvents', gitEvents)
  BY <1>0, TailFacts
<1>s. "refresh" \in Slots /\ "refresh" \in Ops
  BY DEF Slots, Ops, Views
<1>1. 1 \in DOMAIN gitEvents /\ gitEvents[1].id # 0
  BY <1>e DEF Shrunk, GitInv, EventsAreActive
<1>2. \A k \in DOMAIN gitEvents :
        gitEvents[k].id # gitAsked + 1 /\ (k # 1 => gitEvents[k].id # Active(git, "refresh"))
  BY <1>0, <1>1, IdsAreAsked DEF GitInv, AnsweredOnce
<1>3. \A k \in DOMAIN gitQueue : gitQueue[k].id # gitAsked + 1 /\ gitQueue[k].id # Active(git, "refresh")
  BY <1>0, <1>1, IdsAreAsked DEF GitInv, AskedOrAnswered
<1>4. \A k \in DOMAIN gitEvents' :
        k \in Nat /\ k + 1 \in DOMAIN gitEvents /\ k + 1 # 1 /\ gitEvents'[k] = gitEvents[k + 1]
  BY <1>e DEF Shrunk
<1>5. TypeInv'
  BY <1>0, <1>q, <1>e DEF GitInv, TypeInv
<1>6. ActiveApart'
  <2>1. \A s \in Slots : Active(git, s) \in Nat /\ Active(git, s) <= gitAsked
    BY IdsAreAsked
  <2>. QED BY <1>0, <2>1 DEF GitInv, ActiveApart
<1>7. QueueIsActive'
  <2>1. ASSUME NEW k \in DOMAIN gitQueue
        PROVE  gitQueue[k].id = Active(git', gitQueue[k].op)
    <3>1. gitQueue[k].op \in Ops /\ gitQueue[k].id = Active(git, gitQueue[k].op)
      BY DEF GitInv, QueueIsActive
    <3>2. Slot(gitQueue[k].op) \in Slots /\ \A g : Active(g, gitQueue[k].op) = Active(g, Slot(gitQueue[k].op))
      BY <3>1, SlotFacts
    <3>. QED BY <1>3, <3>1, <3>2
  <2>2. Active(git', "refresh") = gitAsked + 1
    BY <1>s
  <2>. QED BY <1>0, <1>r, <1>q, <1>s, <2>1, <2>2 DEF GitInv, QueueIsActive, Grown
<1>8. EventsAreActive'
  <2>1. ASSUME NEW k \in DOMAIN gitEvents, k # 1, NEW t \in Slots, gitEvents[k].id = Active(git, t)
        PROVE  gitEvents[k].id = Active(git', t)
    BY <1>2, <2>1
  <2>. QED BY <1>4, <2>1 DEF GitInv, EventsAreActive, Slots
<1>9. AskedOnce'
  BY <1>r, <1>3, <1>q DEF GitInv, AskedOnce, Grown
<1>10. AnsweredOnce'
  <2>. SUFFICES ASSUME NEW j \in DOMAIN gitEvents', NEW k \in DOMAIN gitEvents', gitEvents'[j].id = gitEvents'[k].id
                PROVE  j = k
    BY DEF AnsweredOnce
  <2>1. j \in Nat /\ k \in Nat /\ j + 1 = k + 1
    BY <1>4 DEF GitInv, AnsweredOnce
  <2>. QED BY <2>1
<1>11. AskedOrAnswered'
  <2>. SUFFICES ASSUME NEW j \in DOMAIN gitQueue', NEW k \in DOMAIN gitEvents'
                PROVE  gitQueue'[j].id # gitEvents'[k].id
    BY DEF AskedOrAnswered
  <2>. QED BY <1>r, <1>2, <1>4, <1>q DEF GitInv, AskedOrAnswered, Grown
<1>12. WaitsAreUnderWay'
  <2>1. ASSUME NEW id, id # Active(git, "refresh"), UnderWay(id, gitQueue, gitEvents)
        PROVE  UnderWay(id, gitQueue', gitEvents')
    <3>1. CASE \E k \in DOMAIN gitQueue : gitQueue[k].id = id
      BY <1>q, <3>1 DEF UnderWay, Grown
    <3>2. CASE \E k \in DOMAIN gitEvents : gitEvents[k].id = id
      <4>1. PICK k \in DOMAIN gitEvents : gitEvents[k].id = id
        BY <3>2
      <4>2. k - 1 \in DOMAIN gitEvents' /\ gitEvents'[k - 1] = gitEvents[k]
        BY <1>e, <2>1, <4>1 DEF Shrunk
      <4>. QED BY <4>1, <4>2 DEF UnderWay
    <3>. QED BY <2>1, <3>1, <3>2 DEF UnderWay
  <2>2. \A t \in Slots : t # "refresh" /\ Active(git, t) # 0 => Active(git, t) # Active(git, "refresh")
    BY <1>s DEF GitInv, ActiveApart
  <2>3. UnderWay(gitAsked + 1, gitQueue', gitEvents')
    BY <1>r, <1>q DEF UnderWay, Grown
  <2>. QED BY <2>1, <2>2, <2>3 DEF GitInv, WaitsAreUnderWay
<1>13. RunIsAtHead'
  BY <1>q DEF GitInv, RunIsAtHead, Grown
<1>14. NewsIsCurrent'
  <2>1. RefreshAsked'
    BY <1>r, <1>q DEF RefreshAsked, Grown
  <2>. QED BY <2>1 DEF NewsIsCurrent
<1>. QED BY <1>5, <1>6, <1>7, <1>8, <1>9, <1>10, <1>11, <1>12, <1>13, <1>14 DEF GitInv

\* The first answer under way.
LEMMA HeadOfEvents ==
  ASSUME GitInv, gitEvents # <<>>
  PROVE  /\ Head(gitEvents) = gitEvents[1] /\ gitEvents[1].id \in Nat \ {0}
         /\ gitEvents[1].kind = "snapshot" => gitEvents[1].id = git.refresh
         /\ gitEvents[1].kind = "diff" => gitEvents[1].id = git.diff
         /\ gitEvents[1].kind = "branches" => gitEvents[1].id = git.branches
         /\ gitEvents[1].kind = "done" \/ gitEvents[1].applied => gitEvents[1].id = git.operation
         /\ gitEvents[1].kind = "failed" => gitEvents[1].id \in {git.refresh, git.diff, git.branches, git.operation}
<1>1. 1 \in DOMAIN gitEvents /\ Head(gitEvents) = gitEvents[1]
  BY TailFacts DEF GitInv, TypeInv, Shrunk
<1>. QED BY <1>1, SlotValues DEF GitInv, EventsAreActive, Slots

\* The refresh is answered, with a snapshot or with a failure, and ends or begins anew.
LEMMA RefreshTaken ==
  ASSUME GitInv, gitEvents # <<>>, git.refresh = gitEvents[1].id, Took, NEW g, GitTyped(g),
         FinishGitRefresh(g), g.refresh = git.refresh, g.diff = git.diff, g.branches = git.branches,
         g.operation = git.operation, g.pending = git.pending, Shows(git, gitEvents[1]),
         g.load = "ready" => gitEvents[1].kind # "failed" /\ g.snapshot = gitEvents[1].data
  PROVE  GitInv'
<1>1. gitEvents' = Tail(gitEvents) /\ UNCHANGED <<executed, repo, told>>
  BY DEF Took, worldVars
<1>2. Active(git, "refresh") = gitEvents[1].id /\ "refresh" \in Slots /\ gitAsked + 1 \in Nat
  BY SlotValues DEF Slots, GitInv, TypeInv
<1>3. CASE g.pending
  <2>. DEFINE h == [g EXCEPT !.refresh = 0, !.pending = FALSE]
  <2>1. /\ GitTyped(h) /\ h.refresh = 0 /\ h.pending = FALSE /\ h.diff = git.diff
        /\ h.branches = git.branches /\ h.operation = git.operation
    BY DEF GitTyped
  <2>2. RequestGitRefresh(h)
    BY <1>3 DEF FinishGitRefresh
  <2>. HIDE DEF h
  <2>3. git' = [h EXCEPT !.refresh = gitAsked + 1, !.load = "loading"] /\ Ask("refresh", 0)
    BY <2>1, <2>2 DEF RequestGitRefresh
  <2>4. /\ GitTyped(git') /\ git'.refresh = gitAsked + 1 /\ git'.pending = FALSE /\ git'.diff = git.diff
        /\ git'.branches = git.branches /\ git'.operation = git.operation
    BY <1>2, <2>1, <2>3 DEF GitTyped
  <2>5. \A t \in Slots : Active(git', t) = IF t = "refresh" THEN gitAsked + 1 ELSE Active(git, t)
    BY <2>4 DEF Active, Slots
  <2>. QED BY <1>1, <1>2, <2>3, <2>4, <2>5, TakeAndAskKeeps
<1>4. CASE ~g.pending
  <2>1. git' = [g EXCEPT !.refresh = 0] /\ AskNothing
    BY <1>4 DEF FinishGitRefresh
  <2>2. /\ GitTyped(git') /\ git'.refresh = 0 /\ git'.pending = git.pending /\ git'.diff = git.diff
        /\ git'.branches = git.branches /\ git'.operation = git.operation
        /\ git'.load = g.load /\ git'.snapshot = g.snapshot
    BY <2>1 DEF GitTyped
  <2>3. \A t \in Slots : Active(git', t) = IF t = "refresh" THEN 0 ELSE Active(git, t)
    BY <2>2 DEF Active, Slots
  <2>. QED BY <1>1, <1>2, <1>4, <2>1, <2>2, <2>3, TakeKeeps DEF AskNothing
<1>. QED BY <1>3, <1>4

\* Another request is answered: its slot is free, and the view follows an operation's answer.
LEMMA OtherTaken ==
  ASSUME GitInv, gitEvents # <<>>, Took, AskNothing, NEW s \in Slots \ {"refresh"},
         Active(git, s) = gitEvents[1].id, GitTyped(git'),
         git'.refresh = git.refresh, git'.diff = IF s = "diff" THEN 0 ELSE git.diff,
         git'.branches = IF s = "branches" THEN 0 ELSE git.branches,
         git'.operation = IF s = "stage" THEN 0 ELSE git.operation, git'.pending = git.pending,
         Shows(git, gitEvents[1]) /\ git'.load = "ready" =>
           gitEvents[1].kind # "failed" /\ git'.snapshot = gitEvents[1].data,
         ~Shows(git, gitEvents[1]) => git'.load = git.load /\ git'.snapshot = git.snapshot
  PROVE  GitInv'
<1>1. gitEvents' = Tail(gitEvents) /\ UNCHANGED <<gitAsked, gitQueue, executed, repo, told>>
  BY DEF Took, worldVars, AskNothing
<1>2. \A t \in Slots : Active(git', t) = IF t = s THEN 0 ELSE Active(git, t)
  BY DEF Active, Slots
<1>. QED BY <1>1, <1>2, TakeKeeps

\* A snapshot is what the view shows from then on.
LEMMA OnSnapshotLoadedKeeps ==
  ASSUME GitInv, OnSnapshotLoaded
  PROVE  GitInv'
<1>. DEFINE e == gitEvents[1]
<1>1. gitEvents # <<>> /\ Took /\ e.kind = "snapshot" /\ Head(gitEvents) = e /\ git.refresh = e.id
  BY HeadOfEvents DEF OnSnapshotLoaded, OnGit
<1>. DEFINE g == [git EXCEPT !.snapshot = e.data, !.load = "ready"]
<1>2. FinishGitRefresh(g)
  BY <1>1 DEF OnSnapshotLoaded
<1>3. /\ GitTyped(g) /\ g.refresh = git.refresh /\ g.diff = git.diff /\ g.branches = git.branches
      /\ g.operation = git.operation /\ g.pending = git.pending /\ g.snapshot = e.data
  BY DEF GitInv, TypeInv, GitTyped
<1>4. Shows(git, e)
  BY <1>1 DEF Shows
<1>. HIDE DEF g
<1>. QED BY <1>1, <1>2, <1>3, <1>4, RefreshTaken

\* A diff is for its overlay.
LEMMA OnDiffLoadedKeeps ==
  ASSUME GitInv, OnDiffLoaded
  PROVE  GitInv'
<1>. DEFINE e == gitEvents[1]
<1>1. gitEvents # <<>> /\ Took /\ e.kind = "diff" /\ Head(gitEvents) = e /\ git.diff = e.id
  BY HeadOfEvents DEF OnDiffLoaded, OnGit
<1>2. git' = [git EXCEPT !.diff = 0] /\ AskNothing
  BY <1>1 DEF OnDiffLoaded
<1>3. /\ GitTyped(git') /\ git'.refresh = git.refresh /\ git'.diff = 0 /\ git'.branches = git.branches
      /\ git'.operation = git.operation /\ git'.pending = git.pending
      /\ git'.load = git.load /\ git'.snapshot = git.snapshot
  BY <1>2 DEF GitInv, TypeInv, GitTyped
<1>4. ~Shows(git, e)
  BY <1>1 DEF Shows
<1>5. Active(git, "diff") = e.id /\ "diff" \in Slots \ {"refresh"}
  BY <1>1, SlotValues DEF Slots
<1>. QED BY <1>1, <1>2, <1>3, <1>4, <1>5, OtherTaken

\* The branches are for theirs.
LEMMA OnBranchesLoadedKeeps ==
  ASSUME GitInv, OnBranchesLoaded
  PROVE  GitInv'
<1>. DEFINE e == gitEvents[1]
<1>1. gitEvents # <<>> /\ Took /\ e.kind = "branches" /\ Head(gitEvents) = e /\ git.branches = e.id
  BY HeadOfEvents DEF OnBranchesLoaded, OnGit
<1>2. git' = [git EXCEPT !.branches = 0] /\ AskNothing
  BY <1>1 DEF OnBranchesLoaded
<1>3. /\ GitTyped(git') /\ git'.refresh = git.refresh /\ git'.diff = git.diff /\ git'.branches = 0
      /\ git'.operation = git.operation /\ git'.pending = git.pending
      /\ git'.load = git.load /\ git'.snapshot = git.snapshot
  BY <1>2 DEF GitInv, TypeInv, GitTyped
<1>4. ~Shows(git, e)
  BY <1>1 DEF Shows
<1>5. Active(git, "branches") = e.id /\ "branches" \in Slots \ {"refresh"}
  BY <1>1, SlotValues DEF Slots
<1>. QED BY <1>1, <1>2, <1>3, <1>4, <1>5, OtherTaken

\* An operation that ended is followed by the snapshot taken after it.
LEMMA OnOperationFinishedKeeps ==
  ASSUME GitInv, OnOperationFinished
  PROVE  GitInv'
<1>. DEFINE e == gitEvents[1]
<1>1. gitEvents # <<>> /\ Took /\ e.kind = "done" /\ Head(gitEvents) = e /\ git.operation = e.id
  BY HeadOfEvents DEF OnOperationFinished, OnGit
<1>2. git' = [git EXCEPT !.operation = 0, !.snapshot = e.data, !.load = "ready"] /\ AskNothing
  BY <1>1 DEF OnOperationFinished
<1>3. /\ GitTyped(git') /\ git'.refresh = git.refresh /\ git'.diff = git.diff
      /\ git'.branches = git.branches /\ git'.operation = 0 /\ git'.pending = git.pending
      /\ git'.snapshot = e.data
  BY <1>2 DEF GitInv, TypeInv, GitTyped
<1>4. Shows(git, e)
  BY <1>1 DEF Shows
<1>5. Active(git, "stage") = e.id /\ "stage" \in Slots \ {"refresh"}
  BY <1>1, SlotValues DEF Slots
<1>. QED BY <1>1, <1>2, <1>3, <1>4, <1>5, OtherTaken

\* A failure marks the view when it was of a refresh, or of an operation that was run.
LEMMA OnGitFailedKeeps ==
  ASSUME GitInv, OnGitFailed
  PROVE  GitInv'
<1>. DEFINE e == gitEvents[1]
<1>1. /\ gitEvents # <<>> /\ Took /\ e.kind = "failed" /\ Head(gitEvents) = e /\ Failed(e)
      /\ e.id # 0 /\ (e.applied => e.id = git.operation)
      /\ e.id \in {git.refresh, git.diff, git.branches, git.operation}
  BY HeadOfEvents DEF OnGitFailed, OnGit
<1>t. GitTyped(git)
  BY DEF GitInv, TypeInv
<1>d. \A s, t \in Slots : Active(git, s) = e.id /\ Active(git, t) = e.id => s = t
  BY <1>1 DEF GitInv, ActiveApart
<1>v. /\ Active(git, "refresh") = git.refresh /\ Active(git, "diff") = git.diff
      /\ Active(git, "branches") = git.branches /\ Active(git, "stage") = git.operation
      /\ "refresh" \in Slots /\ "diff" \in Slots /\ "branches" \in Slots /\ "stage" \in Slots
  BY SlotValues DEF Slots
<1>. HIDE DEF e
<1>2. CASE git.refresh = e.id
  <2>0. git.diff # e.id /\ git.branches # e.id /\ git.operation # e.id
    BY <1>2, <1>d, <1>v
  <2>1. PICK gone \in BOOLEAN :
          FinishGitRefresh([git EXCEPT !.load =
            IF git.snapshot # NoSnapshot /\ ~gone THEN "stale" ELSE "unavailable"])
    BY <1>1, <1>2, <2>0 DEF Failed
  <2>. DEFINE g == [git EXCEPT !.load = IF git.snapshot # NoSnapshot /\ ~gone THEN "stale" ELSE "unavailable"]
  <2>2. /\ GitTyped(g) /\ g.refresh = git.refresh /\ g.diff = git.diff /\ g.branches = git.branches
        /\ g.operation = git.operation /\ g.pending = git.pending /\ g.load # "ready"
    BY <1>t DEF GitTyped
  <2>3. Shows(git, e)
    BY <1>1, <1>2, <1>v DEF Shows
  <2>4. FinishGitRefresh(g)
    BY <2>1
  <2>. HIDE DEF g
  <2>. QED BY <1>1, <1>2, <2>2, <2>3, <2>4, RefreshTaken DEF e
<1>3. CASE git.diff = e.id
  <2>1. git.refresh # e.id /\ git.branches # e.id /\ git.operation # e.id
    BY <1>3, <1>d, <1>v
  <2>2. git' = [git EXCEPT !.diff = 0] /\ AskNothing
    BY <1>1, <1>3, <2>1 DEF Failed
  <2>3. /\ GitTyped(git') /\ git'.refresh = git.refresh /\ git'.diff = 0 /\ git'.branches = git.branches
        /\ git'.operation = git.operation /\ git'.pending = git.pending
        /\ git'.load = git.load /\ git'.snapshot = git.snapshot
    BY <1>t, <2>2 DEF GitTyped
  <2>4. ~Shows(git, e)
    BY <1>1, <1>v, <2>1 DEF Shows
  <2>. QED BY <1>1, <1>3, <1>v, <2>2, <2>3, <2>4, OtherTaken DEF e
<1>4. CASE git.branches = e.id
  <2>1. git.refresh # e.id /\ git.diff # e.id /\ git.operation # e.id
    BY <1>4, <1>d, <1>v
  <2>2. git' = [git EXCEPT !.branches = 0] /\ AskNothing
    BY <1>1, <1>4, <2>1 DEF Failed
  <2>3. /\ GitTyped(git') /\ git'.refresh = git.refresh /\ git'.diff = git.diff /\ git'.branches = 0
        /\ git'.operation = git.operation /\ git'.pending = git.pending
        /\ git'.load = git.load /\ git'.snapshot = git.snapshot
    BY <1>t, <2>2 DEF GitTyped
  <2>4. ~Shows(git, e)
    BY <1>1, <1>v, <2>1 DEF Shows
  <2>. QED BY <1>1, <1>4, <1>v, <2>2, <2>3, <2>4, OtherTaken DEF e
<1>5. CASE git.operation = e.id
  <2>1. git.refresh # e.id /\ git.diff # e.id /\ git.branches # e.id
    BY <1>5, <1>d, <1>v
  <2>. DEFINE load == IF ~e.applied THEN git.load
                      ELSE IF git.snapshot # NoSnapshot THEN "stale" ELSE "unavailable"
  <2>2. git' = [git EXCEPT !.operation = 0, !.load = load] /\ AskNothing
    BY <1>1, <1>5, <2>1 DEF Failed
  <2>3. /\ GitTyped(git') /\ git'.refresh = git.refresh /\ git'.diff = git.diff
        /\ git'.branches = git.branches /\ git'.operation = 0 /\ git'.pending = git.pending
        /\ git'.load = load /\ git'.snapshot = git.snapshot
    BY <1>t, <2>2 DEF GitTyped
  <2>4. (Shows(git, e) => e.applied) /\ (~Shows(git, e) => ~e.applied)
    BY <1>1, <1>v, <2>1 DEF Shows
  <2>5. (Shows(git, e) => load # "ready") /\ (~Shows(git, e) => load = git.load)
    BY <2>4
  <2>. HIDE DEF load
  <2>. QED BY <1>1, <1>5, <1>v, <2>2, <2>3, <2>5, OtherTaken DEF e
<1>. QED BY <1>1, <1>2, <1>3, <1>4, <1>5

-----------------------------------------------------------------------------
\* Every step keeps the invariant.
LEMMA NextGit ==
  ASSUME GitInv, [GitNext]_gitVars
  PROVE  GitInv'
<1>t. told \in BOOLEAN
  BY DEF GitInv, TypeInv
<1>0. CASE UNCHANGED gitVars
  BY <1>0, StutterGit DEF gitVars, modelVars, worldVars, gitWorkerVars, gitState
<1>1. CASE MoveCursor(1) \/ MoveCursor(-1) \/ CloseTop \/ PromptGitCommit
  BY <1>1, StutterGit DEF MoveCursor, CloseTop, PromptGitCommit, AskNothing, Quiet, worldVars, gitState
<1>2. CASE ShowGitStatus
  BY <1>t, <1>2, RequestGitRefreshKeeps DEF ShowGitStatus, Quiet, worldVars
<1>3. CASE StageSelectedGitRow
  <2>1. UNCHANGED <<executed, gitEvents, repo, told>>
    BY <1>3 DEF StageSelectedGitRow, Quiet, worldVars
  <2>2. RequestGitRefresh(git) \/ \E op \in Operations : \E arg : QueueGitOperation(op, arg)
    BY <1>3 DEF StageSelectedGitRow, Operations
  <2>. QED BY <1>t, <2>1, <2>2, RequestGitRefreshKeeps, QueueGitOperationKeeps
<1>4. CASE UnstageSelectedGitRow \/ ConfirmCommit \/ CheckoutSelected \/ RemoteOperation
  <2>1. UNCHANGED <<executed, gitEvents, repo, told>>
    BY <1>4 DEF UnstageSelectedGitRow, ConfirmCommit, CheckoutSelected, RemoteOperation, Quiet, worldVars
  <2>2. \E op \in Operations : \E arg : QueueGitOperation(op, arg)
    BY <1>4 DEF UnstageSelectedGitRow, ConfirmCommit, CheckoutSelected, RemoteOperation, Operations
  <2>. QED BY <2>1, <2>2, QueueGitOperationKeeps
<1>5. CASE OpenSelectedGitDiff \/ RequestGitBranches
  BY <1>5, OverlayAsksKeep
<1>6. CASE \E p \in Paths : ChangeFile(p) \/ CreateUntracked(p)
  BY <1>6, ChangesKeep
<1>7. CASE OnChanged
  BY <1>7, RequestGitRefreshKeeps DEF OnChanged
<1>8. CASE ServeExecute
  BY <1>8, ServeExecuteKeeps
<1>9. CASE ServeRefresh \/ ServeDiff \/ ServeBranches \/ ServeFailure \/ ServeSnapshot \/ ServeSnapshotFailure
  BY <1>9, ServeKeeps
<1>10. CASE OnSnapshotLoaded \/ OnDiffLoaded \/ OnBranchesLoaded \/ OnOperationFinished \/ OnGitFailed
  BY <1>10, OnSnapshotLoadedKeeps, OnDiffLoadedKeeps, OnBranchesLoadedKeeps, OnOperationFinishedKeeps,
     OnGitFailedKeeps
<1>. QED BY <1>0, <1>1, <1>2, <1>3, <1>4, <1>5, <1>6, <1>7, <1>8, <1>9, <1>10 DEF GitNext

\* With nothing under way a view that reads ready is of the repository as it is.
LEMMA IdleViewIsCurrent ==
  ASSUME GitInv
  PROVE  ReadyGitViewIsCurrent
<1>. SUFFICES ASSUME GitIdle, git.load = "ready"
              PROVE  git.snapshot = Snapshot(repo)
  BY DEF ReadyGitViewIsCurrent
<1>1. told /\ DOMAIN gitQueue = {} /\ DOMAIN gitEvents = {}
  BY DEF GitIdle
<1>2. ~executed
  BY <1>1 DEF GitInv, RunIsAtHead
<1>3. ~git.pending
  BY <1>1 DEF GitInv, WaitsAreUnderWay, UnderWay, Slots
<1>. QED BY <1>1, <1>2, <1>3 DEF GitInv, NewsIsCurrent, RefreshAsked

\* Every request the model holds as active is with the worker or on its way back.
LEMMA WaitsReachTheWorker ==
  ASSUME GitInv
  PROVE  ActiveGitIsUnderWay
<1>. DEFINE underWay == {r.id : r \in Range(gitQueue)} \union {e.id : e \in Range(gitEvents)}
<1>1. ASSUME NEW id, UnderWay(id, gitQueue, gitEvents)
      PROVE  id \in underWay
  <2>1. CASE \E k \in DOMAIN gitQueue : gitQueue[k].id = id
    BY <2>1 DEF Range
  <2>2. CASE \E k \in DOMAIN gitEvents : gitEvents[k].id = id
    BY <2>2 DEF Range
  <2>. QED BY <1>1, <2>1, <2>2 DEF UnderWay
<1>2. \A s \in Slots : Active(git, s) # 0 => Active(git, s) \in underWay
  BY <1>1 DEF GitInv, WaitsAreUnderWay
<1>. HIDE DEF underWay
<1>3. {git.refresh, git.diff, git.branches, git.operation} \ {0} \subseteq underWay
  BY <1>2, SlotValues DEF Slots
<1>4. git.pending => git.refresh # 0
  BY SlotValues DEF GitInv, WaitsAreUnderWay
<1>. QED BY <1>3, <1>4 DEF ActiveGitIsUnderWay, underWay

\* What Git is shown to be is the repository as it is once nothing is under way, and
\* every request the model waits for is under way, so that no guard of the kind "a Git
\* operation is already running" stays for ever (on_git_event, request_git_refresh,
\* finish_git_refresh, queue_git_operation, and the worker's execute-then-snapshot).
THEOREM GitViewsStayCurrent == GitInit /\ [][GitNext]_gitVars => []GitViewsAreCurrent
<1>1. GitInv => GitViewsAreCurrent
  BY IdleViewIsCurrent, WaitsReachTheWorker DEF GitViewsAreCurrent
<1>. QED BY <1>1, InitGit, NextGit, PTL

=============================================================================
