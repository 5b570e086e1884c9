-------------------------- MODULE TerminalsProofs --------------------------
(***************************************************************************)
(* Proofs about Terminals, for any number of tabs, restarts, task runs and *)
(* requests under way: the worker and the model act on the same process,   *)
(* a tab tells what its process did, and a cancelled task is being ended.  *)
(* Proofs about CopyMode, for grids of any size and moves of any length: a *)
(* copy key marks the cells from its anchor to its cursor.                 *)
(***************************************************************************)
EXTENDS Terminals, CopyMode, SequenceLemmas

\* What the model says of a process: it is the present one of a tab that has not
\* released it. What it has heard of: no tab or process with a higher number.
Current(t, g) ==
  \E i \in DOMAIN terminals : terminals[i].id = t /\ terminals[i].gen = g /\ ~terminals[i].released
Known(t, g) ==
  t <= opened /\ \A i \in DOMAIN terminals : terminals[i].id = t => g <= terminals[i].gen

\* Types, as far as the proofs need them; a tab is found by its id.
Kinds ==
  /\ terminals \in Seq(Session) /\ active \in 0..Len(terminals) /\ opened \in 0..MaxTerminals
  /\ runs \in Seq(Run) /\ requests \in Seq(Request) /\ events \in Seq(Event)
  /\ live \in [Ids -> 0..MaxGen] /\ proc \in [Ids -> [Gens -> Proc]]
Distinct == \A i, j \in DOMAIN terminals : terminals[i].id = terminals[j].id => i = j

\* Nothing is under way about a tab or a process that was never asked for.
Mentioned(t, g) ==
  \/ \E i \in DOMAIN requests : requests[i].t = t /\ requests[i].g = g
  \/ \E k \in DOMAIN events : events[k].t = t /\ events[k].g = g
  \/ live[t] = g
  \/ proc[t][g] # NoProc
AllKnown ==
  /\ \A i \in DOMAIN terminals : terminals[i].id <= opened
  /\ \A i \in DOMAIN runs : runs[i].terminal <= opened
  /\ \A t \in Ids, g \in Gens : Mentioned(t, g) => Known(t, g)

\* Request j releases process g of tab t.
Releases(j, t, g) == requests[j].op = "release" /\ requests[j].t = t /\ requests[j].g = g

\* A request about a later process of a tab, and a spawn, come after the release of the
\* process the service holds ...
LiveFits ==
  \A i \in DOMAIN requests :
    LET t == requests[i].t
    IN live[t] # 0 =>
         /\ live[t] <= requests[i].g
         /\ live[t] < requests[i].g \/ requests[i].op = "spawn" =>
              \E j \in DOMAIN requests : j < i /\ Releases(j, t, live[t])

\* ... and of every process that will have been spawned by then.
SpawnFits ==
  \A k, i \in DOMAIN requests :
    k < i /\ requests[k].op = "spawn" /\ requests[k].t = requests[i].t =>
      /\ requests[k].g <= requests[i].g
      /\ requests[k].g < requests[i].g \/ requests[i].op = "spawn" =>
           \E j \in DOMAIN requests : k < j /\ j < i /\ Releases(j, requests[k].t, requests[k].g)

\* A process that is held, and one that will be spawned, is the present one of its tab or
\* will be released.
LiveEnds ==
  \A t \in Ids : live[t] # 0 =>
    Current(t, live[t]) \/ \E j \in DOMAIN requests : Releases(j, t, live[t])
SpawnEnds ==
  \A k \in DOMAIN requests : requests[k].op = "spawn" =>
    \/ Current(requests[k].t, requests[k].g)
    \/ \E j \in DOMAIN requests : k < j /\ Releases(j, requests[k].t, requests[k].g)

RequestsFit == LiveFits /\ SpawnFits /\ LiveEnds /\ SpawnEnds

\* A process to be spawned has left no trace yet, and nothing is asked of it before.
Unborn(t, g) ==
  /\ proc[t][g] = NoProc /\ live[t] # g
  /\ \A k \in DOMAIN events : ~(events[k].t = t /\ events[k].g = g)
  /\ \A i \in DOMAIN terminals : terminals[i].id = t /\ terminals[i].gen = g => terminals[i].status = "starting"
SpawnsAreNew ==
  \A k \in DOMAIN requests : requests[k].op = "spawn" =>
    /\ Unborn(requests[k].t, requests[k].g)
    /\ \A j \in DOMAIN requests : j < k /\ requests[j].t = requests[k].t => requests[j].g < requests[k].g

\* The exit protocol of reader and waiter: a reader that may still publish holds the
\* waiter back, and Exited is published last.
ThreadsInOrder ==
  \A t \in Ids, g \in Gens :
    LET p == proc[t][g]
    IN /\ p.active => p.waiter = "waiting"
       /\ p.reader = "holding" => p.waiter \in {"waiting", "draining"}
EventsTellTheTruth ==
  \A k \in DOMAIN events :
    LET e == events[k]
        p == proc[e.t][e.g]
    IN /\ e.kind = "exited" => p.waiter = "done"
       /\ e.kind = "spawned" => p.waiter # "none"
ExitIsLast ==
  \A k \in DOMAIN events : events[k].kind = "output" =>
    /\ \A j \in DOMAIN events :
         j < k /\ events[j].kind = "exited" => ~(events[j].t = events[k].t /\ events[j].g = events[k].g)
    /\ \A i \in DOMAIN terminals :
         terminals[i].id = events[k].t /\ terminals[i].gen = events[k].g => terminals[i].status # "exited"

TruthOK == ThreadsInOrder /\ EventsTellTheTruth /\ TabShowsItsProcess /\ ExitIsLast

\* Only what the model has let go of is released.
ReleasesAreMeant ==
  /\ \A i \in DOMAIN requests : requests[i].op = "release" => ~Current(requests[i].t, requests[i].g)
  /\ \A t \in Ids, g \in Gens : proc[t][g].released => ~Current(t, g)

\* Spawned is the first event of a process.
SpawnedIsFirst ==
  \A k \in DOMAIN events : events[k].kind = "spawned" =>
    /\ \A j \in DOMAIN events : j < k => ~(events[j].t = events[k].t /\ events[j].g = events[k].g)
    /\ \A i \in DOMAIN terminals :
         terminals[i].id = events[k].t /\ terminals[i].gen = events[k].g => terminals[i].status = "starting"

\* A run is unfinished while its first process starts, and finished when it has exited.
RunsFollowTheirTabs ==
  \A r \in DOMAIN runs, i \in DOMAIN terminals :
    terminals[i].id = runs[r].terminal /\ terminals[i].gen = 1 =>
      /\ terminals[i].status = "starting" => Unfinished(runs[r])
      /\ terminals[i].status = "exited" => ~Unfinished(runs[r])

\* The end of process g of tab t is under way to the loop.
EndReported(t, g) ==
  \E j \in DOMAIN events : events[j].t = t /\ events[j].g = g /\ events[j].kind \in {"exited", "failed"}

\* The process of an unfinished run is held, or to be spawned, or its end is reported.
RunsAreServed ==
  \A r \in DOMAIN runs :
    LET t == runs[r].terminal
    IN Unfinished(runs[r]) /\ Current(t, 1) /\ live[t] = 0 =>
         \/ \E j \in DOMAIN requests : requests[j].op = "spawn" /\ requests[j].t = t /\ requests[j].g = 1
         \/ EndReported(t, 1)

\* CancelIsUnderWay, of tabs found by their place
CancelServed ==
  \A r \in DOMAIN runs :
    LET t == runs[r].terminal
    IN Unfinished(runs[r]) /\ runs[r].cancel /\ Current(t, 1) =>
         \/ \E j \in DOMAIN requests : requests[j].op = "kill" /\ requests[j].t = t /\ requests[j].g = 1
         \/ proc[t][1].doomed \/ proc[t][1].waiter \in {"draining", "holding"}
         \/ EndReported(t, 1)

CancelOK == ReleasesAreMeant /\ SpawnedIsFirst /\ RunsFollowTheirTabs /\ RunsAreServed /\ CancelServed

TabsInv == Kinds /\ Distinct /\ AllKnown /\ RequestsFit /\ SpawnsAreNew
TruthInv == TabsInv /\ TruthOK
CancelInv == TabsInv /\ CancelOK

----------------------------------------------------------------------------

\* Tabs and processes are numbered by naturals.
LEMMA Numbers == MaxTerminals \in Nat /\ MaxGen \in Nat /\ Ids \subseteq Nat /\ Gens \subseteq Nat
  BY BoundsAreNumbers DEF Ids, Gens

\* What the kinds of the variables say of the fields of a tab, a request, an event and a run.
LEMMA Fields ==
  ASSUME Kinds
  PROVE  /\ \A i \in DOMAIN terminals :
              /\ terminals[i] \in Session
              /\ terminals[i].id \in Ids /\ terminals[i].gen \in Gens
              /\ terminals[i].status \in Statuses /\ terminals[i].released \in BOOLEAN
              /\ terminals[i].shown \in SUBSET Gens
         /\ \A i \in DOMAIN requests :
              /\ requests[i] \in Request
              /\ requests[i].op \in {"spawn", "write", "resize", "kill", "release"}
              /\ requests[i].t \in Ids /\ requests[i].g \in Gens
         /\ \A i \in DOMAIN events :
              /\ events[i] \in Event
              /\ events[i].kind \in {"spawned", "output", "exited", "failed"}
              /\ events[i].t \in Ids /\ events[i].g \in Gens
         /\ \A i \in DOMAIN runs :
              /\ runs[i] \in Run
              /\ runs[i].terminal \in Ids /\ runs[i].status \in RunStatuses
              /\ runs[i].cancel \in BOOLEAN
         /\ \A t \in Ids : live[t] \in 0..MaxGen
         /\ \A t \in Ids, g \in Gens : proc[t][g] \in Proc
         /\ opened \in Nat
<1>. USE DEF Kinds
<1>1. \A i \in DOMAIN terminals : terminals[i] \in Session
  OBVIOUS
<1>2. \A i \in DOMAIN requests : requests[i] \in Request
  OBVIOUS
<1>3. \A i \in DOMAIN events : events[i] \in Event
  OBVIOUS
<1>4. \A i \in DOMAIN runs : runs[i] \in Run
  OBVIOUS
<1>5. \A t \in Ids, g \in Gens : proc[t][g] \in Proc
  OBVIOUS
<1>6. opened \in Nat /\ \A t \in Ids : live[t] \in 0..MaxGen
  BY Numbers
<1>. HIDE DEF Kinds
<1>7. \A i \in DOMAIN terminals :
        /\ terminals[i].id \in Ids /\ terminals[i].gen \in Gens
        /\ terminals[i].status \in Statuses /\ terminals[i].released \in BOOLEAN
        /\ terminals[i].shown \in SUBSET Gens
  BY <1>1 DEF Session
<1>8. \A i \in DOMAIN requests :
        /\ requests[i].op \in {"spawn", "write", "resize", "kill", "release"}
        /\ requests[i].t \in Ids /\ requests[i].g \in Gens
  BY <1>2 DEF Request
<1>9. \A i \in DOMAIN events :
        /\ events[i].kind \in {"spawned", "output", "exited", "failed"}
        /\ events[i].t \in Ids /\ events[i].g \in Gens
  BY <1>3 DEF Event
<1>10. \A i \in DOMAIN runs :
         /\ runs[i].terminal \in Ids /\ runs[i].status \in RunStatuses
         /\ runs[i].cancel \in BOOLEAN
  BY <1>4 DEF Run
<1>. QED BY <1>1, <1>2, <1>3, <1>4, <1>5, <1>6, <1>7, <1>8, <1>9, <1>10

\* Everything under way is about a tab and a process the model has already numbered.
LEMMA WhatIsKnown ==
  ASSUME Kinds, AllKnown
  PROVE  /\ \A i \in DOMAIN terminals : terminals[i].id <= opened
         /\ \A i \in DOMAIN runs : runs[i].terminal <= opened
         /\ \A i \in DOMAIN requests : Known(requests[i].t, requests[i].g)
         /\ \A k \in DOMAIN events : Known(events[k].t, events[k].g)
         /\ \A t \in Ids : live[t] # 0 => Known(t, live[t])
         /\ \A t \in Ids, g \in Gens : proc[t][g] # NoProc => Known(t, g)
<1>1. \A t \in Ids : live[t] # 0 => live[t] \in Gens
  BY Fields, Numbers DEF Gens
<1>. QED BY <1>1, Fields DEF AllKnown, Mentioned

----------------------------------------------------------------------------
(***************************************************************************)
(* What commands do, as far as the invariants are concerned: they let go   *)
(* of processes, or ask for one.                                           *)
(***************************************************************************)

\* Requests X are about tabs that are open, and ask for no process; a tab that is no
\* longer there, or is released now, has asked for the release of its process.
LetGo(X) ==
  /\ X \in Seq(Request) /\ requests' = requests \o X
  /\ UNCHANGED <<opened, live, proc, events>>
  /\ terminals' \in Seq(Session) /\ Distinct' /\ active' \in 0..Len(terminals')
  /\ \A x \in DOMAIN X :
       /\ X[x].op # "spawn"
       /\ \E i \in DOMAIN terminals : X[x].t = terminals[i].id /\ X[x].g = terminals[i].gen
       /\ X[x].op = "release" =>
            \A i \in DOMAIN terminals' : terminals'[i].id = X[x].t => terminals'[i].released
  /\ \A i \in DOMAIN terminals' : \E j \in DOMAIN terminals :
       /\ terminals'[i].id = terminals[j].id /\ terminals'[i].gen = terminals[j].gen
       /\ terminals'[i].status = terminals[j].status /\ terminals'[i].shown = terminals[j].shown
       /\ terminals[j].released => terminals'[i].released
  /\ \A j \in DOMAIN terminals :
       \/ terminals[j].released
       \/ \E i \in DOMAIN terminals' :
            /\ terminals'[i].id = terminals[j].id /\ terminals'[i].gen = terminals[j].gen
            /\ ~terminals'[i].released
       \/ \E x \in DOMAIN X : X[x].op = "release" /\ X[x].t = terminals[j].id /\ X[x].g = terminals[j].gen

\* Process g of tab t is asked for, after requests Y about its predecessor; the tab is new
\* or starts afresh.
Starts(t, g, Y) ==
  /\ t \in Ids /\ g \in Gens /\ ~Known(t, g)
  /\ Y \in Seq(Request)
  /\ requests' = (requests \o Y) \o <<[op |-> "spawn", t |-> t, g |-> g]>>
  /\ UNCHANGED <<live, proc, events>>
  /\ opened <= opened' /\ t <= opened' /\ opened' \in 0..MaxTerminals
  /\ terminals' \in Seq(Session) /\ Distinct' /\ active' \in 0..Len(terminals')
  /\ \A y \in DOMAIN Y : Y[y].op \in {"kill", "release"} /\ Y[y].t = t /\ Y[y].g = g - 1
  /\ \A h \in Nat : Known(t, h) => h < g
  /\ \A h \in Gens : Current(t, h) => h = g - 1 /\ \E y \in DOMAIN Y : Y[y].op = "release"
  /\ \E i \in DOMAIN terminals' :
       terminals'[i].id = t /\ terminals'[i].gen = g /\ ~terminals'[i].released
  /\ \A i \in DOMAIN terminals' :
       \/ /\ terminals'[i].id = t /\ terminals'[i].gen = g /\ terminals'[i].status = "starting"
          /\ terminals'[i].shown = {} /\ ~terminals'[i].released
       \/ terminals'[i].id # t /\ \E j \in DOMAIN terminals : terminals'[i] = terminals[j]
  /\ \A j \in DOMAIN terminals :
       terminals[j].id # t => \E i \in DOMAIN terminals' : terminals'[i] = terminals[j]

\* Runs stay, except that run k may be marked for cancellation when its process is
\* killed.
RunsMarked(X) ==
  \/ runs' = runs
  \/ \E k \in DOMAIN runs :
       /\ runs' = [runs EXCEPT ![k].cancel = TRUE]
       /\ \A i \in DOMAIN terminals : terminals[i].id = runs[k].terminal =>
            \E x \in DOMAIN X : X[x].op = "kill" /\ X[x].t = terminals[i].id /\ X[x].g = terminals[i].gen

\* Runs stay or are forgotten, except for one on the new tab.
RunsAttached(t, g) ==
  /\ runs' \in Seq(Run)
  /\ \A r \in DOMAIN runs' :
       \/ \E q \in DOMAIN runs : runs'[r] = runs[q]
       \/ runs'[r].terminal = t /\ g = 1 /\ runs'[r].status = "starting" /\ ~runs'[r].cancel

\* What is known stays known, and what is no longer the present process does not become
\* it again.
LEMMA LetGoKnows ==
  ASSUME Kinds, Distinct, NEW X, LetGo(X)
  PROVE  /\ \A t, g : Known(t, g) => Known(t, g)'
         /\ \A t, g : Current(t, g)' => Current(t, g)
         /\ \A t, g : Current(t, g) =>
              Current(t, g)' \/ \E x \in DOMAIN X : X[x].op = "release" /\ X[x].t = t /\ X[x].g = g
<1>1. \A t, g : Known(t, g) => Known(t, g)'
  BY DEF LetGo, Known
<1>2. \A t, g : Current(t, g)' => Current(t, g)
  BY DEF LetGo, Current
<1>3. \A t, g : Current(t, g) =>
        Current(t, g)' \/ \E x \in DOMAIN X : X[x].op = "release" /\ X[x].t = t /\ X[x].g = g
  BY DEF LetGo, Current
<1>. QED BY <1>1, <1>2, <1>3

\* Starting a process numbers it: what was known stays known, and only its own tab changes.
LEMMA StartsKnows ==
  ASSUME Kinds, Distinct, NEW t, NEW g, NEW Y, Starts(t, g, Y)
  PROVE  /\ \A u, h \in Nat : Known(u, h) => Known(u, h)'
         /\ Known(t, g)' /\ Current(t, g)'
         /\ \A u, h : Current(u, h)' => (u = t /\ h = g) \/ (u # t /\ Current(u, h))
         /\ \A u, h : Current(u, h) /\ u # t => Current(u, h)'
         /\ \A h \in Int : h <= g => Known(t, h)'
<1>1. t \in Nat /\ g \in Nat /\ opened \in Nat /\ opened' \in Nat
  BY BoundsAreNumbers DEF Kinds, Starts, Ids, Gens
<1>2. \A i \in DOMAIN terminals : terminals[i].gen \in Nat /\ terminals[i].id \in Nat
  BY Fields, Numbers
<1>3. \A u, h \in Nat : Known(u, h) => Known(u, h)'
  <2>. TAKE u, h \in Nat
  <2>1. CASE u = t
    BY <1>1, <1>2, <2>1 DEF Starts, Known
  <2>2. CASE u # t
    <3>1. \A i \in DOMAIN terminals' : terminals'[i].id = u => \E j \in DOMAIN terminals : terminals'[i] = terminals[j]
      BY <2>2 DEF Starts
    <3>2. opened <= opened'
      BY DEF Starts
    <3>. QED BY <1>1, <3>1, <3>2 DEF Known
  <2>. QED BY <2>1, <2>2
<1>4. \A h \in Int : h <= g => Known(t, h)'
  BY <1>1, <1>2 DEF Starts, Known
<1>5. Current(t, g)'
  BY DEF Starts, Current
<1>6. \A u, h : Current(u, h)' => (u = t /\ h = g) \/ (u # t /\ Current(u, h))
  BY DEF Starts, Current
<1>7. \A u, h : Current(u, h) /\ u # t => Current(u, h)'
  BY DEF Starts, Current
<1>. QED BY <1>1, <1>3, <1>4, <1>5, <1>6, <1>7

----------------------------------------------------------------------------
(***************************************************************************)
(* Commands keep the order of the requests.                                *)
(***************************************************************************)

\* Requests after those that were there
LEMMA Appended ==
  ASSUME NEW S, NEW a \in Seq(S), NEW b \in Seq(S), NEW c, c = a \o b
  PROVE  /\ c \in Seq(S)
         /\ \A i \in DOMAIN a : i \in DOMAIN c /\ c[i] = a[i]
         /\ \A x \in DOMAIN b : Len(a) + x \in DOMAIN c /\ c[Len(a) + x] = b[x]
         /\ \A i \in DOMAIN c : i \in DOMAIN a \/ (i - Len(a) \in DOMAIN b /\ c[i] = b[i - Len(a)])
         /\ \A i \in DOMAIN a : i \in Nat /\ 1 <= i /\ i <= Len(a)
         /\ \A x \in DOMAIN b : x \in Nat /\ 1 <= x
         /\ DOMAIN c \subseteq Nat /\ Len(a) \in Nat
  OBVIOUS

\* Letting go of a process keeps the request queue fit: its release is queued with it.
LEMMA LetGoRequests ==
  ASSUME TabsInv, NEW X, LetGo(X)
  PROVE  RequestsFit' /\ SpawnsAreNew'
<1>. DEFINE n == Len(requests)
<1>1. /\ \A i \in DOMAIN requests : i \in DOMAIN requests' /\ requests'[i] = requests[i]
      /\ \A x \in DOMAIN X : n + x \in DOMAIN requests' /\ requests'[n + x] = X[x]
      /\ \A i \in DOMAIN requests' :
           i \in DOMAIN requests \/ (i - n \in DOMAIN X /\ requests'[i] = X[i - n])
      /\ \A i \in DOMAIN requests : i \in Nat /\ 1 <= i /\ i <= n
      /\ \A x \in DOMAIN X : x \in Nat /\ 1 <= x
      /\ DOMAIN requests' \subseteq Nat /\ n \in Nat
  <2>1. requests \in Seq(Request) /\ X \in Seq(Request) /\ requests' = requests \o X
    BY DEF TabsInv, Kinds, LetGo
  <2>. QED BY <2>1, Appended
<1>. HIDE DEF n
<1>0. UNCHANGED <<live, proc, events>>
  BY DEF LetGo
<1>2. \A i \in DOMAIN requests' : requests'[i].op = "spawn" => i \in DOMAIN requests
  BY <1>1 DEF LetGo
<1>3. \A i \in DOMAIN requests' : i \in DOMAIN requests \/ (i > n /\ i - n \in DOMAIN X /\ requests'[i] = X[i - n])
  BY <1>1
<1>4. /\ \A t, g : Current(t, g)' => Current(t, g)
      /\ \A t, g : Current(t, g) =>
           Current(t, g)' \/ \E x \in DOMAIN X : X[x].op = "release" /\ X[x].t = t /\ X[x].g = g
  BY LetGoKnows DEF TabsInv
<1>5. \A t, g : Current(t, g) => Current(t, g)' \/ \E j \in DOMAIN requests' : j > n /\ Releases(j, t, g)'
  <2>. TAKE t, g
  <2>1. CASE \E x \in DOMAIN X : X[x].op = "release" /\ X[x].t = t /\ X[x].g = g
    <3>1. PICK x \in DOMAIN X : X[x].op = "release" /\ X[x].t = t /\ X[x].g = g
      BY <2>1
    <3>2. n + x \in DOMAIN requests' /\ requests'[n + x] = X[x] /\ n + x > n
      BY <1>1
    <3>. QED BY <3>1, <3>2 DEF Releases
  <2>. QED BY <1>4, <2>1
<1>6. \A j \in DOMAIN requests : \A t, g : Releases(j, t, g) => j \in DOMAIN requests' /\ Releases(j, t, g)'
  BY <1>1 DEF Releases
<1>7. LiveEnds'
  <2>. SUFFICES ASSUME NEW t \in Ids, NEW g, g = live[t], g # 0
                PROVE  Current(t, g)' \/ \E j \in DOMAIN requests' : Releases(j, t, g)'
    BY DEF LiveEnds, LetGo, Releases, Current
  <2>1. Current(t, g) \/ \E j \in DOMAIN requests : Releases(j, t, g)
    BY DEF TabsInv, RequestsFit, LiveEnds
  <2>. QED BY <1>5, <1>6, <2>1
<1>8. SpawnEnds'
  <2>. SUFFICES ASSUME NEW k \in DOMAIN requests', requests'[k].op = "spawn",
                       NEW t, NEW g, t = requests'[k].t, g = requests'[k].g
                PROVE  Current(t, g)' \/ \E j \in DOMAIN requests' : k < j /\ Releases(j, t, g)'
    BY DEF SpawnEnds, Releases, Current
  <2>1. k \in DOMAIN requests /\ requests'[k] = requests[k] /\ k <= n
    BY <1>1, <1>2
  <2>2. Current(t, g) \/ \E j \in DOMAIN requests : k < j /\ Releases(j, t, g)
    BY <2>1 DEF TabsInv, RequestsFit, SpawnEnds
  <2>3. \A j \in DOMAIN requests' : j > n => k < j
    BY <1>1, <2>1
  <2>. QED BY <1>5, <1>6, <2>2, <2>3
\* A new request is about the present process of its tab; an older process is on its way out.
<1>9. ASSUME NEW x \in DOMAIN X
      PROVE  /\ \A g \in Gens : Current(X[x].t, g) => g = X[x].g
             /\ \A g \in Nat : Known(X[x].t, g) => g <= X[x].g
  <2>1. PICK i \in DOMAIN terminals : X[x].t = terminals[i].id /\ X[x].g = terminals[i].gen
    BY <1>9 DEF LetGo
  <2>. QED BY <2>1 DEF Current, Known, TabsInv, Distinct
<1>10. LiveFits'
  <2>. SUFFICES ASSUME NEW i \in DOMAIN requests', NEW t, NEW g, t = requests'[i].t, g = live[t], g # 0
                PROVE  /\ g <= requests'[i].g
                       /\ g < requests'[i].g \/ requests'[i].op = "spawn" =>
                            \E j \in DOMAIN requests' : j < i /\ Releases(j, t, g)'
    BY <1>0 DEF LiveFits, Releases
  <2>1. CASE i \in DOMAIN requests
    <3>1. requests'[i] = requests[i]
      BY <1>1, <2>1
    <3>2. /\ g <= requests[i].g
          /\ g < requests[i].g \/ requests[i].op = "spawn" =>
               \E j \in DOMAIN requests : j < i /\ Releases(j, t, g)
      BY <2>1, <3>1 DEF TabsInv, RequestsFit, LiveFits
    <3>. QED BY <1>6, <3>1, <3>2
  <2>2. CASE i > n /\ i - n \in DOMAIN X /\ requests'[i] = X[i - n]
    <3>1. t \in Ids /\ g \in Gens /\ g \in Nat
      <4>1. t \in Ids
        BY <2>2, Fields DEF LetGo, TabsInv, Request
      <4>. QED BY <4>1, Fields, Numbers DEF TabsInv, Gens
    <3>2. Known(t, g) /\ (Current(t, g) \/ \E j \in DOMAIN requests : Releases(j, t, g))
      BY <3>1, WhatIsKnown DEF TabsInv, RequestsFit, LiveEnds
    <3>3. g <= requests'[i].g /\ requests'[i].op # "spawn"
      BY <1>9, <2>2, <3>1, <3>2 DEF LetGo
    <3>4. ASSUME g < requests'[i].g PROVE \E j \in DOMAIN requests : Releases(j, t, g)
      <4>1. ~Current(t, g)
        BY <1>9, <2>2, <3>1, <3>4
      <4>. QED BY <3>2, <4>1
    <3>5. \A j \in DOMAIN requests : j < i
      BY <1>1, <2>2
    <3>. QED BY <1>6, <3>3, <3>4, <3>5
  <2>. QED BY <1>3, <2>1, <2>2
<1>11. SpawnFits'
  <2>. SUFFICES ASSUME NEW k \in DOMAIN requests', NEW i \in DOMAIN requests', k < i,
                       requests'[k].op = "spawn", NEW t, NEW g, t = requests'[k].t, g = requests'[k].g,
                       t = requests'[i].t
                PROVE  /\ g <= requests'[i].g
                       /\ g < requests'[i].g \/ requests'[i].op = "spawn" =>
                            \E j \in DOMAIN requests' : k < j /\ j < i /\ Releases(j, t, g)'
    BY DEF SpawnFits, Releases
  <2>0. k \in DOMAIN requests /\ requests'[k] = requests[k]
    BY <1>1, <1>2
  <2>1. CASE i \in DOMAIN requests
    <3>1. requests'[i] = requests[i]
      BY <1>1, <2>1
    <3>2. /\ g <= requests[i].g
          /\ g < requests[i].g \/ requests[i].op = "spawn" =>
               \E j \in DOMAIN requests : k < j /\ j < i /\ Releases(j, t, g)
      BY <2>0, <2>1, <3>1 DEF TabsInv, RequestsFit, SpawnFits
    <3>. QED BY <1>6, <3>1, <3>2
  <2>2. CASE i > n /\ i - n \in DOMAIN X /\ requests'[i] = X[i - n]
    <3>1. t \in Ids /\ g \in Gens /\ g \in Nat
      BY <2>0, Fields, Numbers DEF TabsInv
    <3>2. Known(t, g) /\ (Current(t, g) \/ \E j \in DOMAIN requests : k < j /\ Releases(j, t, g))
      BY <2>0, WhatIsKnown DEF TabsInv, RequestsFit, SpawnEnds
    <3>3. g <= requests'[i].g /\ requests'[i].op # "spawn"
      BY <1>9, <2>2, <3>1, <3>2 DEF LetGo
    <3>4. ASSUME g < requests'[i].g PROVE \E j \in DOMAIN requests : k < j /\ Releases(j, t, g)
      <4>1. ~Current(t, g)
        BY <1>9, <2>2, <3>1, <3>4
      <4>. QED BY <3>2, <4>1
    <3>5. \A j \in DOMAIN requests : j < i
      BY <1>1, <2>2
    <3>. QED BY <1>6, <3>3, <3>4, <3>5
  <2>. QED BY <1>3, <2>1, <2>2
<1>12. \A t, g : Unborn(t, g) => Unborn(t, g)'
  BY DEF Unborn, LetGo
<1>13. SpawnsAreNew'
  <2>. SUFFICES ASSUME NEW k \in DOMAIN requests', requests'[k].op = "spawn",
                       NEW t, NEW g, t = requests'[k].t, g = requests'[k].g
                PROVE  /\ Unborn(t, g)'
                       /\ \A j \in DOMAIN requests' : j < k /\ requests'[j].t = t => requests'[j].g < g
    BY DEF SpawnsAreNew, Unborn
  <2>1. k \in DOMAIN requests /\ requests'[k] = requests[k] /\ k <= n
    BY <1>1, <1>2
  <2>2. \A j \in DOMAIN requests' : j < k => j \in DOMAIN requests /\ requests'[j] = requests[j]
    BY <1>1, <1>3, <2>1
  <2>3. /\ Unborn(t, g)
        /\ \A j \in DOMAIN requests : j < k /\ requests[j].t = t => requests[j].g < g
    BY <2>1 DEF TabsInv, SpawnsAreNew
  <2>. QED BY <1>12, <2>2, <2>3
<1>. QED BY <1>7, <1>8, <1>10, <1>11, <1>13 DEF RequestsFit

\* Starting a process keeps the request queue fit: its spawn comes after the release of the
\* one before it.
LEMMA StartsRequests ==
  ASSUME TabsInv, NEW t, NEW g, NEW Y, Starts(t, g, Y)
  PROVE  requests' \in Seq(Request) /\ RequestsFit' /\ SpawnsAreNew'
<1>. DEFINE n == Len(requests)
            m == Len(requests \o Y)
            spawn == [op |-> "spawn", t |-> t, g |-> g]
<1>0. UNCHANGED <<live, proc, events>> /\ t \in Ids /\ g \in Gens /\ g \in Nat
  BY Numbers DEF Starts
<1>1. requests \in Seq(Request) /\ Y \in Seq(Request) /\ requests' = (requests \o Y) \o <<spawn>>
  BY DEF TabsInv, Kinds, Starts
<1>2. spawn \in Request /\ spawn.op = "spawn" /\ spawn.t = t /\ spawn.g = g
  BY <1>0 DEF Request
<1>. HIDE DEF spawn
<1>3. requests \o Y \in Seq(Request) /\ <<spawn>> \in Seq(Request)
  BY <1>1, <1>2
<1>4. /\ \A i \in DOMAIN requests : i \in DOMAIN (requests \o Y) /\ (requests \o Y)[i] = requests[i]
      /\ \A y \in DOMAIN Y : n + y \in DOMAIN (requests \o Y) /\ (requests \o Y)[n + y] = Y[y]
      /\ \A i \in DOMAIN (requests \o Y) :
           i \in DOMAIN requests \/ (i - n \in DOMAIN Y /\ (requests \o Y)[i] = Y[i - n])
      /\ \A i \in DOMAIN requests : i \in Nat /\ 1 <= i /\ i <= n
      /\ \A y \in DOMAIN Y : y \in Nat /\ 1 <= y
      /\ n \in Nat
  BY <1>1, Appended
<1>5. /\ requests' \in Seq(Request)
      /\ \A i \in DOMAIN (requests \o Y) : i \in DOMAIN requests' /\ requests'[i] = (requests \o Y)[i]
      /\ \A x \in DOMAIN <<spawn>> : m + x \in DOMAIN requests' /\ requests'[m + x] = <<spawn>>[x]
      /\ \A i \in DOMAIN requests' : i \in DOMAIN (requests \o Y)
                                     \/ (i - m \in DOMAIN <<spawn>> /\ requests'[i] = <<spawn>>[i - m])
      /\ \A i \in DOMAIN (requests \o Y) : i \in Nat /\ 1 <= i /\ i <= m
      /\ DOMAIN requests' \subseteq Nat /\ m \in Nat
  BY <1>1, <1>3, Appended
<1>6. DOMAIN <<spawn>> = {1} /\ <<spawn>>[1] = spawn
  OBVIOUS
<1>. HIDE DEF m, n
<1>7. m + 1 \in DOMAIN requests' /\ requests'[m + 1] = spawn
  BY <1>5, <1>6
<1>8. \A i \in DOMAIN requests : i \in DOMAIN requests' /\ requests'[i] = requests[i] /\ i <= n /\ i <= m
  BY <1>4, <1>5
<1>9. \A y \in DOMAIN Y : n + y \in DOMAIN requests' /\ requests'[n + y] = Y[y] /\ n + y <= m /\ n + y > n
  BY <1>4, <1>5
<1>10. \A i \in DOMAIN requests' :
         \/ i \in DOMAIN requests
         \/ i - n \in DOMAIN Y /\ requests'[i] = Y[i - n] /\ i > n /\ i <= m
         \/ i = m + 1
  <2>. TAKE i \in DOMAIN requests'
  <2>1. CASE i \in DOMAIN (requests \o Y)
    BY <1>4, <1>5, <2>1
  <2>2. CASE i - m \in DOMAIN <<spawn>>
    BY <1>5, <1>6, <2>2
  <2>. QED BY <1>5, <2>1, <2>2
<1>11. n <= m /\ m \in Nat /\ n \in Nat
  <2>1. m = n + Len(Y) /\ Len(Y) \in Nat
    BY <1>1 DEF m, n
  <2>. QED BY <1>4, <1>5, <2>1
<1>. HIDE DEF spawn
<1>12. \A i \in DOMAIN requests' :
         requests'[i].op = "spawn" => i \in DOMAIN requests \/ (i = m + 1 /\ requests'[i] = spawn)
  <2>1. \A y \in DOMAIN Y : Y[y].op # "spawn"
    BY DEF Starts
  <2>. QED BY <1>7, <1>10, <2>1
<1>13. \A j \in DOMAIN requests : \A u, h : Releases(j, u, h) => j \in DOMAIN requests' /\ Releases(j, u, h)'
  BY <1>8 DEF Releases
\* The process that was the present one is released before the new one is spawned.
<1>14. \A u, h : Current(u, h) /\ u \in Ids /\ h \in Gens =>
         Current(u, h)' \/ (u = t /\ \E j \in DOMAIN requests' : j > n /\ j <= m /\ Releases(j, u, h)')
  <2>. TAKE u, h
  <2>. SUFFICES ASSUME Current(u, h), u = t, h \in Gens
                PROVE  \E j \in DOMAIN requests' : j > n /\ j <= m /\ Releases(j, u, h)'
    BY StartsKnows DEF TabsInv
  <2>1. PICK y \in DOMAIN Y : Y[y].op = "release" /\ h = g - 1
    BY DEF Starts
  <2>2. Y[y].t = t /\ Y[y].g = g - 1
    BY DEF Starts
  <2>. QED BY <1>9, <2>1, <2>2 DEF Releases
<1>15. \A u, h : Known(u, h) /\ u = t /\ h \in Nat => h < g
  BY DEF Starts
<1>16. LiveEnds'
  <2>. SUFFICES ASSUME NEW u \in Ids, NEW h, h = live[u], h # 0
                PROVE  Current(u, h)' \/ \E j \in DOMAIN requests' : Releases(j, u, h)'
    BY <1>0 DEF LiveEnds, Releases, Current
  <2>1. Current(u, h) \/ \E j \in DOMAIN requests : Releases(j, u, h)
    BY DEF TabsInv, RequestsFit, LiveEnds
  <2>2. h \in Gens
    BY Fields, Numbers DEF TabsInv, Gens
  <2>. QED BY <1>13, <1>14, <2>1, <2>2
<1>17. SpawnEnds'
  <2>. SUFFICES ASSUME NEW k \in DOMAIN requests', requests'[k].op = "spawn",
                       NEW u, NEW h, u = requests'[k].t, h = requests'[k].g
                PROVE  Current(u, h)' \/ \E j \in DOMAIN requests' : k < j /\ Releases(j, u, h)'
    BY DEF SpawnEnds, Releases, Current
  <2>1. CASE k \in DOMAIN requests
    <3>1. requests'[k] = requests[k] /\ k <= n
      BY <1>8, <2>1
    <3>2. Current(u, h) \/ \E j \in DOMAIN requests : k < j /\ Releases(j, u, h)
      BY <2>1, <3>1 DEF TabsInv, RequestsFit, SpawnEnds
    <3>3. u \in Ids /\ h \in Gens
      BY <2>1, <3>1, Fields DEF TabsInv
    <3>4. \A j \in DOMAIN requests' : j > n => k < j
      BY <1>4, <1>5, <2>1, <3>1
    <3>. QED BY <1>13, <1>14, <3>2, <3>3, <3>4
  <2>2. CASE k = m + 1 /\ requests'[k] = spawn
    BY <1>2, <2>2, StartsKnows DEF TabsInv
  <2>. QED BY <1>12, <2>1, <2>2
\* What was under way for the tab is about processes before the new one.
<1>18. \A i \in DOMAIN requests : requests[i].t = t => requests[i].g < g
  BY <1>15, Fields, Numbers, WhatIsKnown DEF TabsInv
<1>19. \A i \in DOMAIN requests' : requests'[i].t = t => i = m + 1 \/ requests'[i].g < g
  <2>1. \A y \in DOMAIN Y : Y[y].g < g
    BY <1>0 DEF Starts
  <2>. QED BY <1>8, <1>10, <1>18, <2>1
<1>20. LiveFits'
  <2>. SUFFICES ASSUME NEW i \in DOMAIN requests', NEW u, NEW h, u = requests'[i].t, h = live[u], h # 0
                PROVE  /\ h <= requests'[i].g
                       /\ h < requests'[i].g \/ requests'[i].op = "spawn" =>
                            \E j \in DOMAIN requests' : j < i /\ Releases(j, u, h)'
    BY <1>0 DEF LiveFits, Releases
  <2>1. CASE i \in DOMAIN requests
    <3>1. requests'[i] = requests[i]
      BY <1>8, <2>1
    <3>2. /\ h <= requests[i].g
          /\ h < requests[i].g \/ requests[i].op = "spawn" =>
               \E j \in DOMAIN requests : j < i /\ Releases(j, u, h)
      BY <2>1, <3>1 DEF TabsInv, RequestsFit, LiveFits
    <3>. QED BY <1>13, <3>1, <3>2
  <2>2. CASE u = t /\ i \notin DOMAIN requests
    <3>1. h \in Gens /\ h \in Nat
      BY <1>0, <2>2, Fields, Numbers DEF TabsInv, Gens
    <3>2. Known(t, h) /\ (Current(t, h) \/ \E j \in DOMAIN requests : Releases(j, t, h))
      BY <1>0, <2>2, WhatIsKnown DEF TabsInv, RequestsFit, LiveEnds
    <3>3. h < g
      BY <1>15, <3>1, <3>2
    <3>4. CASE i - n \in DOMAIN Y /\ requests'[i] = Y[i - n] /\ i > n
      <4>1. requests'[i].g = g - 1 /\ requests'[i].op # "spawn"
        BY <3>4 DEF Starts
      <4>2. ASSUME h < g - 1 PROVE \E j \in DOMAIN requests : Releases(j, t, h)
        <5>1. h # g - 1
          BY <1>0, <3>1, <4>2
        <5>2. ~Current(t, h)
          BY <3>1, <5>1 DEF Starts
        <5>. QED BY <3>2, <5>2
      <4>3. \A j \in DOMAIN requests : j < i
        BY <1>4, <1>5, <3>4
      <4>. QED BY <1>0, <1>13, <2>2, <3>1, <3>3, <4>1, <4>2, <4>3
    <3>5. CASE i = m + 1
      <4>1. requests'[i].g = g
        BY <1>2, <1>7, <3>5
      <4>2. \E j \in DOMAIN requests' : j <= m /\ Releases(j, t, h)'
        BY <1>0, <1>8, <1>13, <1>14, <3>1, <3>2, <3>3, StartsKnows DEF TabsInv
      <4>3. \A j \in DOMAIN requests' : j <= m => j < i
        BY <1>5, <3>5
      <4>. QED BY <1>0, <2>2, <3>1, <3>3, <4>1, <4>2, <4>3
    <3>. QED BY <1>10, <2>2, <3>4, <3>5
  <2>3. i \notin DOMAIN requests => u = t
    <3>1. \A y \in DOMAIN Y : Y[y].t = t
      BY DEF Starts
    <3>. QED BY <1>2, <1>7, <1>10, <3>1
  <2>. QED BY <2>1, <2>2, <2>3
<1>21. SpawnFits'
  <2>. SUFFICES ASSUME NEW k \in DOMAIN requests', NEW i \in DOMAIN requests', k < i,
                       requests'[k].op = "spawn", NEW u, NEW h, u = requests'[k].t, h = requests'[k].g,
                       u = requests'[i].t
                PROVE  /\ h <= requests'[i].g
                       /\ h < requests'[i].g \/ requests'[i].op = "spawn" =>
                            \E j \in DOMAIN requests' : k < j /\ j < i /\ Releases(j, u, h)'
    BY DEF SpawnFits, Releases
  <2>0. k \in DOMAIN requests /\ requests'[k] = requests[k]
    <3>1. k # m + 1
      BY <1>5, <1>8, <1>10, <1>11
    <3>. QED BY <1>8, <1>12, <3>1
  <2>1. CASE i \in DOMAIN requests
    <3>1. requests'[i] = requests[i]
      BY <1>8, <2>1
    <3>2. /\ h <= requests[i].g
          /\ h < requests[i].g \/ requests[i].op = "spawn" =>
               \E j \in DOMAIN requests : k < j /\ j < i /\ Releases(j, u, h)
      BY <2>0, <2>1, <3>1 DEF TabsInv, RequestsFit, SpawnFits
    <3>. QED BY <1>13, <3>1, <3>2
  <2>2. CASE u = t /\ i \notin DOMAIN requests
    <3>1. h \in Gens /\ h \in Nat
      BY <2>0, Fields, Numbers DEF TabsInv
    <3>2. Known(t, h) /\ (Current(t, h) \/ \E j \in DOMAIN requests : k < j /\ Releases(j, t, h))
      BY <2>0, <2>2, WhatIsKnown DEF TabsInv, RequestsFit, SpawnEnds
    <3>3. h < g
      BY <1>15, <3>1, <3>2
    <3>4. CASE i - n \in DOMAIN Y /\ requests'[i] = Y[i - n] /\ i > n
      <4>1. requests'[i].g = g - 1 /\ requests'[i].op # "spawn"
        BY <3>4 DEF Starts
      <4>2. ASSUME h < g - 1 PROVE \E j \in DOMAIN requests : k < j /\ Releases(j, t, h)
        BY <1>0, <3>1, <3>2, <4>2 DEF Starts
      <4>3. \A j \in DOMAIN requests : j < i
        BY <1>4, <1>5, <3>4
      <4>. QED BY <1>0, <1>13, <2>2, <3>1, <3>3, <4>1, <4>2, <4>3
    <3>5. CASE i = m + 1
      <4>1. requests'[i].g = g
        BY <1>2, <1>7, <3>5
      <4>2. \E j \in DOMAIN requests' : k < j /\ j <= m /\ Releases(j, t, h)'
        <5>1. \A j \in DOMAIN requests' : j > n => k < j
          BY <1>5, <1>8, <1>11, <2>0
        <5>2. ~Current(t, h)'
          BY <1>0, <3>1, <3>3, StartsKnows DEF TabsInv
        <5>. QED BY <1>0, <1>8, <1>13, <1>14, <3>1, <3>2, <5>1, <5>2
      <4>3. \A j \in DOMAIN requests' : j <= m => j < i
        BY <1>5, <3>5
      <4>. QED BY <1>0, <2>2, <3>1, <3>3, <4>1, <4>2, <4>3
    <3>. QED BY <1>10, <2>2, <3>4, <3>5
  <2>3. i \notin DOMAIN requests => u = t
    <3>1. \A y \in DOMAIN Y : Y[y].t = t
      BY DEF Starts
    <3>. QED BY <1>2, <1>7, <1>10, <3>1
  <2>. QED BY <2>1, <2>2, <2>3
<1>22. Unborn(t, g)'
  <2>1. proc[t][g] = NoProc /\ live[t] # g
    <3>1. ~Known(t, g) /\ g # 0
      BY <1>0 DEF Starts, Gens
    <3>. QED BY <1>0, <3>1, WhatIsKnown DEF TabsInv
  <2>2. \A k \in DOMAIN events : ~(events[k].t = t /\ events[k].g = g)
    BY WhatIsKnown DEF Starts, TabsInv
  <2>3. \A i \in DOMAIN terminals' : terminals'[i].id = t /\ terminals'[i].gen = g
          => terminals'[i].status = "starting"
    BY DEF Starts
  <2>. QED BY <1>0, <2>1, <2>2, <2>3 DEF Unborn
<1>23. \A u, h : Unborn(u, h) => Unborn(u, h)' \/ u = t
  BY <1>0 DEF Unborn, Starts
<1>24. SpawnsAreNew'
  <2>. SUFFICES ASSUME NEW k \in DOMAIN requests', requests'[k].op = "spawn",
                       NEW u, NEW h, u = requests'[k].t, h = requests'[k].g
                PROVE  /\ Unborn(u, h)'
                       /\ \A j \in DOMAIN requests' : j < k /\ requests'[j].t = u => requests'[j].g < h
    BY DEF SpawnsAreNew, Unborn
  <2>1. CASE k \in DOMAIN requests
    <3>1. requests'[k] = requests[k] /\ k <= n
      BY <1>8, <2>1
    <3>2. \A j \in DOMAIN requests' : j < k => j \in DOMAIN requests /\ requests'[j] = requests[j]
      BY <1>5, <1>8, <1>10, <1>11, <2>1, <3>1
    <3>3. /\ Unborn(u, h)
          /\ \A j \in DOMAIN requests : j < k /\ requests[j].t = u => requests[j].g < h
      BY <2>1, <3>1 DEF TabsInv, SpawnsAreNew
    <3>4. u = t => Unborn(u, h)'
      <4>. SUFFICES ASSUME u = t PROVE Unborn(u, h)'
        OBVIOUS
      <4>1. h < g /\ h \in Nat
        BY <1>18, <2>1, <3>1, Fields, Numbers DEF TabsInv
      <4>2. \A i \in DOMAIN terminals' : ~(terminals'[i].id = u /\ terminals'[i].gen = h)
        <5>1. h # g
          BY <1>0, <4>1
        <5>2. \A i \in DOMAIN terminals' : terminals'[i].id = t => terminals'[i].gen = g
          BY DEF Starts
        <5>. QED BY <5>1, <5>2
      <4>. QED BY <1>0, <3>3, <4>2 DEF Unborn
    <3>. QED BY <1>23, <3>2, <3>3, <3>4
  <2>2. CASE k = m + 1 /\ requests'[k] = spawn
    <3>1. \A j \in DOMAIN requests' : j < k => j # m + 1
      BY <1>5, <2>2
    <3>. QED BY <1>2, <1>19, <1>22, <2>2, <3>1
  <2>. QED BY <1>12, <2>1, <2>2
<1>. QED BY <1>5, <1>16, <1>17, <1>20, <1>21, <1>24 DEF RequestsFit

\* The invariant of tabs and requests, over commands that let go of processes
LEMMA LetGoKeeps ==
  ASSUME TabsInv, NEW X, LetGo(X), RunsMarked(X)
  PROVE  TabsInv'
<1>1. UNCHANGED <<opened, live, proc, events>> /\ requests' = requests \o X /\ X \in Seq(Request)
  BY DEF LetGo
<1>2. \A t, g : Known(t, g) => Known(t, g)'
  BY LetGoKnows DEF TabsInv
<1>3. runs' \in Seq(Run) /\ \A r \in DOMAIN runs' : r \in DOMAIN runs /\ runs'[r].terminal = runs[r].terminal
  <2>1. CASE runs' = runs
    BY <2>1 DEF TabsInv, Kinds
  <2>2. CASE \E k \in DOMAIN runs : runs' = [runs EXCEPT ![k].cancel = TRUE]
    <3>1. PICK k \in DOMAIN runs : runs' = [runs EXCEPT ![k].cancel = TRUE]
      BY <2>2
    <3>2. runs \in Seq(Run) /\ runs[k] \in Run
      BY Fields DEF TabsInv, Kinds
    <3>3. [runs[k] EXCEPT !.cancel = TRUE] \in Run /\ [runs[k] EXCEPT !.cancel = TRUE].terminal = runs[k].terminal
      BY <3>2 DEF Run
    <3>4. runs' \in Seq(Run)
      BY <3>1, <3>2, <3>3
    <3>5. \A r \in DOMAIN runs' : r \in DOMAIN runs /\ (r # k => runs'[r] = runs[r])
                                  /\ (r = k => runs'[r] = [runs[k] EXCEPT !.cancel = TRUE])
      BY <3>1, <3>2
    <3>. QED BY <3>3, <3>4, <3>5
  <2>. QED BY <2>1, <2>2 DEF RunsMarked
<1>4. Kinds'
  <2>1. requests' \in Seq(Request)
    BY <1>1 DEF TabsInv, Kinds
  <2>. QED BY <1>1, <1>3, <2>1 DEF TabsInv, Kinds, LetGo
<1>5. AllKnown'
  <2>1. \A i \in DOMAIN terminals' : terminals'[i].id <= opened'
    BY <1>1, WhatIsKnown DEF TabsInv, LetGo
  <2>2. ASSUME NEW t \in Ids, NEW g \in Gens, Mentioned(t, g)' PROVE Known(t, g)
    <3>1. \A x \in DOMAIN X : X[x].t = t /\ X[x].g = g => Known(t, g)
      <4>. SUFFICES ASSUME NEW x \in DOMAIN X, X[x].t = t, X[x].g = g PROVE Known(t, g)
        OBVIOUS
      <4>1. PICK i \in DOMAIN terminals : t = terminals[i].id /\ g = terminals[i].gen
        BY DEF LetGo
      <4>2. terminals[i].id <= opened
        BY <4>1, WhatIsKnown DEF TabsInv
      <4>. QED BY <4>1, <4>2, Fields, Numbers DEF Known, TabsInv, Distinct
    <3>2. \A i \in DOMAIN requests' :
            \/ i \in DOMAIN requests /\ requests'[i] = requests[i]
            \/ \E x \in DOMAIN X : requests'[i] = X[x]
      <4>1. requests \in Seq(Request)
        BY DEF TabsInv, Kinds
      <4>. QED BY <1>1, <4>1, Appended
    <3>3. Mentioned(t, g) \/ \E x \in DOMAIN X : X[x].t = t /\ X[x].g = g
      BY <1>1, <2>2, <3>2 DEF Mentioned
    <3>. QED BY <3>1, <3>3 DEF TabsInv, AllKnown
  <2>3. \A i \in DOMAIN runs' : runs'[i].terminal <= opened'
    BY <1>1, <1>3, WhatIsKnown DEF TabsInv
  <2>. QED BY <1>2, <2>1, <2>2, <2>3 DEF AllKnown
<1>6. Distinct'
  BY DEF LetGo
<1>. QED BY <1>4, <1>5, <1>6, LetGoRequests DEF TabsInv

\* The invariant of tabs and requests, over commands that ask for a process
LEMMA StartsKeeps ==
  ASSUME TabsInv, NEW t, NEW g, NEW Y, Starts(t, g, Y), RunsAttached(t, g)
  PROVE  TabsInv'
<1>1. UNCHANGED <<live, proc, events>> /\ opened <= opened' /\ t <= opened' /\ opened' \in Nat
      /\ t \in Ids /\ t \in Nat /\ g \in Nat
  BY Numbers DEF Starts
<1>2. \A u, h \in Nat : Known(u, h) => Known(u, h)'
  BY StartsKnows DEF TabsInv
<1>3. Kinds'
  <2>1. requests' \in Seq(Request)
    BY StartsRequests
  <2>2. runs' \in Seq(Run)
    BY DEF RunsAttached
  <2>. QED BY <1>1, <2>1, <2>2 DEF Starts, TabsInv, Kinds
<1>4. AllKnown'
  <2>0. \A i \in DOMAIN terminals : terminals[i].id \in Nat /\ terminals[i].id <= opened /\ opened \in Nat
    BY WhatIsKnown, Fields, Numbers DEF TabsInv
  <2>1. \A i \in DOMAIN terminals' : terminals'[i].id <= opened'
    <3>1. \A j \in DOMAIN terminals : terminals[j].id <= opened'
      BY <1>1, <2>0
    <3>2. \A i \in DOMAIN terminals' : terminals'[i].id = t \/ \E j \in DOMAIN terminals : terminals'[i] = terminals[j]
      BY DEF Starts
    <3>. QED BY <1>1, <3>1, <3>2
  <2>2. ASSUME NEW u \in Ids, NEW h \in Gens, Mentioned(u, h)' PROVE Known(u, h)'
    <3>. DEFINE spawn == [op |-> "spawn", t |-> t, g |-> g]
    <3>1. requests \in Seq(Request) /\ Y \in Seq(Request) /\ requests' = (requests \o Y) \o <<spawn>>
      BY DEF TabsInv, Kinds, Starts
    <3>2. spawn.t = t /\ spawn.g = g /\ spawn \in Request
      BY DEF Request, Starts
    <3>. HIDE DEF spawn
    <3>3. \A i \in DOMAIN requests' :
            \/ i \in DOMAIN requests /\ requests'[i] = requests[i]
            \/ \E y \in DOMAIN Y : requests'[i] = Y[y]
            \/ requests'[i] = spawn
      <4>1. requests \o Y \in Seq(Request) /\ <<spawn>> \in Seq(Request)
        BY <3>1, <3>2
      <4>2. \A i \in DOMAIN (requests \o Y) :
              \/ i \in DOMAIN requests /\ (requests \o Y)[i] = requests[i]
              \/ \E y \in DOMAIN Y : (requests \o Y)[i] = Y[y]
        BY <3>1, Appended
      <4>3. \A i \in DOMAIN requests' :
              \/ i \in DOMAIN (requests \o Y) /\ requests'[i] = (requests \o Y)[i]
              \/ \E x \in DOMAIN <<spawn>> : requests'[i] = <<spawn>>[x]
        BY <3>1, <4>1, Appended
      <4>4. \A x \in DOMAIN <<spawn>> : <<spawn>>[x] = spawn
        OBVIOUS
      <4>. QED BY <4>2, <4>3, <4>4
    <3>4. \A f \in Int : f <= g => Known(t, f)'
      BY StartsKnows DEF TabsInv
    <3>5. \A y \in DOMAIN Y : Y[y].t = t /\ Y[y].g = g - 1
      BY DEF Starts
    <3>6. Mentioned(u, h) \/ (u = t /\ (h = g \/ h = g - 1))
      BY <1>1, <2>2, <3>2, <3>3, <3>5 DEF Mentioned
    <3>7. Mentioned(u, h) => Known(u, h)'
      BY <1>2, Numbers DEF TabsInv, AllKnown
    <3>. QED BY <1>1, <3>4, <3>6, <3>7, Numbers
  <2>3. \A i \in DOMAIN runs' : runs'[i].terminal <= opened'
    <3>1. \A q \in DOMAIN runs : runs[q].terminal \in Nat /\ runs[q].terminal <= opened
      BY WhatIsKnown, Fields, Numbers DEF TabsInv
    <3>2. \A q \in DOMAIN runs : runs[q].terminal <= opened'
      BY <1>1, <3>1, Fields DEF TabsInv
    <3>3. \A r \in DOMAIN runs' : runs'[r].terminal = t \/ \E q \in DOMAIN runs : runs'[r] = runs[q]
      BY DEF RunsAttached
    <3>. QED BY <1>1, <3>2, <3>3
  <2>. QED BY <2>1, <2>2, <2>3 DEF AllKnown
<1>5. Distinct'
  BY DEF Starts
<1>. QED BY <1>3, <1>4, <1>5, StartsRequests DEF TabsInv

----------------------------------------------------------------------------
(***************************************************************************)
(* Commands and what tabs and runs say                                     *)
(***************************************************************************)
LEMMA LetGoTruth ==
  ASSUME TruthInv, NEW X, LetGo(X)
  PROVE  TruthOK'
<1>1. UNCHANGED <<events, proc>>
  BY DEF LetGo
<1>2. \A i \in DOMAIN terminals' : \E j \in DOMAIN terminals :
        /\ terminals'[i].id = terminals[j].id /\ terminals'[i].gen = terminals[j].gen
        /\ terminals'[i].status = terminals[j].status /\ terminals'[i].shown = terminals[j].shown
  BY DEF LetGo
<1>3. ThreadsInOrder' /\ EventsTellTheTruth'
  BY <1>1 DEF TruthInv, TruthOK, ThreadsInOrder, EventsTellTheTruth
<1>4. ExitIsLast'
  BY <1>1, <1>2 DEF TruthInv, TruthOK, ExitIsLast
<1>5. TabShowsItsProcess'
  <2>1. DOMAIN terminals' = 1..Len(terminals') /\ DOMAIN terminals = 1..Len(terminals)
    BY DEF LetGo, TruthInv, TabsInv, Kinds
  <2>. QED BY <1>1, <1>2, <2>1 DEF TruthInv, TruthOK, TabShowsItsProcess
<1>. QED BY <1>3, <1>4, <1>5 DEF TruthOK

\* A tab that starts again shows nothing yet, so it cannot contradict its process.
LEMMA StartsTruth ==
  ASSUME TruthInv, NEW t, NEW g, NEW Y, Starts(t, g, Y)
  PROVE  TruthOK'
<1>1. UNCHANGED <<events, proc>>
  BY DEF Starts
<1>2. \A i \in DOMAIN terminals' :
        \/ terminals'[i].status = "starting" /\ terminals'[i].shown = {}
        \/ \E j \in DOMAIN terminals : terminals'[i] = terminals[j]
  BY DEF Starts
<1>3. ThreadsInOrder' /\ EventsTellTheTruth'
  BY <1>1 DEF TruthInv, TruthOK, ThreadsInOrder, EventsTellTheTruth
<1>4. ExitIsLast'
  BY <1>1, <1>2 DEF TruthInv, TruthOK, ExitIsLast
<1>5. TabShowsItsProcess'
  <2>1. DOMAIN terminals' = 1..Len(terminals') /\ DOMAIN terminals = 1..Len(terminals)
    BY DEF Starts, TruthInv, TabsInv, Kinds
  <2>. QED BY <1>1, <1>2, <2>1 DEF TruthInv, TruthOK, TabShowsItsProcess
<1>. QED BY <1>3, <1>4, <1>5 DEF TruthOK

\* Letting go of a process keeps the promise to cancelled runs: it marks what it ends.
LEMMA LetGoCancel ==
  ASSUME CancelInv, NEW X, LetGo(X), RunsMarked(X)
  PROVE  CancelOK'
<1>1. UNCHANGED <<live, events, proc>> /\ requests' = requests \o X
      /\ requests \in Seq(Request) /\ X \in Seq(Request)
  BY DEF LetGo, CancelInv, TabsInv, Kinds
<1>2. /\ \A i \in DOMAIN requests : i \in DOMAIN requests' /\ requests'[i] = requests[i]
      /\ \A i \in DOMAIN requests' :
           (i \in DOMAIN requests /\ requests'[i] = requests[i]) \/ \E x \in DOMAIN X : requests'[i] = X[x]
      /\ \A x \in DOMAIN X : \E i \in DOMAIN requests' : requests'[i] = X[x]
  <2>1. requests' = requests \o X /\ requests \in Seq(Request) /\ X \in Seq(Request)
    BY <1>1
  <2>. DEFINE c == requests'
  <2>2. c = requests \o X
    BY <2>1
  <2>. HIDE DEF c
  <2>3. \A i \in DOMAIN requests : i \in DOMAIN c /\ c[i] = requests[i]
    BY <2>1, <2>2, Appended
  <2>4. \A i \in DOMAIN c : (i \in DOMAIN requests /\ c[i] = requests[i]) \/ \E x \in DOMAIN X : c[i] = X[x]
    BY <2>1, <2>2, Appended
  <2>5. \A x \in DOMAIN X : \E i \in DOMAIN c : c[i] = X[x]
    <3>1. \A x \in DOMAIN X : Len(requests) + x \in DOMAIN c /\ c[Len(requests) + x] = X[x]
      BY <2>1, <2>2, Appended
    <3>. QED BY <3>1
  <2>. QED BY <2>3, <2>4, <2>5 DEF c
<1>3. \A u, h : Current(u, h)' => Current(u, h)
  BY LetGoKnows DEF CancelInv, TabsInv
<1>4. \A i \in DOMAIN terminals' : \E j \in DOMAIN terminals :
        /\ terminals'[i].id = terminals[j].id /\ terminals'[i].gen = terminals[j].gen
        /\ terminals'[i].status = terminals[j].status
  BY DEF LetGo
<1>5. \A r \in DOMAIN runs' :
        /\ r \in DOMAIN runs /\ runs'[r].terminal = runs[r].terminal /\ runs'[r].status = runs[r].status
        /\ \/ runs'[r].cancel = runs[r].cancel
           \/ \A i \in DOMAIN terminals : terminals[i].id = runs[r].terminal =>
                \E x \in DOMAIN X : X[x].op = "kill" /\ X[x].t = terminals[i].id /\ X[x].g = terminals[i].gen
  <2>1. CASE runs' = runs
    BY <2>1
  <2>2. CASE runs' # runs
    <3>1. PICK k \in DOMAIN runs :
            /\ runs' = [runs EXCEPT ![k].cancel = TRUE]
            /\ \A i \in DOMAIN terminals : terminals[i].id = runs[k].terminal =>
                 \E x \in DOMAIN X : X[x].op = "kill" /\ X[x].t = terminals[i].id /\ X[x].g = terminals[i].gen
      BY <2>2 DEF RunsMarked
    <3>2. runs \in Seq(Run) /\ runs[k] \in Run
      BY Fields DEF CancelInv, TabsInv, Kinds
    <3>. DEFINE m == [runs[k] EXCEPT !.cancel = TRUE]
    <3>3. m.terminal = runs[k].terminal /\ m.status = runs[k].status
      BY <3>2 DEF Run
    <3>4. \A r \in DOMAIN runs' : r \in DOMAIN runs /\ (r # k => runs'[r] = runs[r]) /\ (r = k => runs'[r] = m)
      BY <3>1, <3>2
    <3>. HIDE DEF m
    <3>. QED BY <3>1, <3>3, <3>4
  <2>. QED BY <2>1, <2>2
<1>6. ReleasesAreMeant'
  <2>1. \A x \in DOMAIN X : X[x].op = "release" => ~Current(X[x].t, X[x].g)'
    BY DEF LetGo, Current
  <2>2. ASSUME NEW i \in DOMAIN requests', requests'[i].op = "release",
               NEW u, NEW h, u = requests'[i].t, h = requests'[i].g
        PROVE  ~Current(u, h)'
    <3>1. CASE i \in DOMAIN requests /\ requests'[i] = requests[i]
      BY <1>3, <2>2, <3>1 DEF CancelInv, CancelOK, ReleasesAreMeant
    <3>2. CASE \E x \in DOMAIN X : requests'[i] = X[x]
      BY <2>1, <2>2, <3>2 DEF Current
    <3>. QED BY <1>2, <3>1, <3>2
  <2>3. \A u \in Ids, h \in Gens : proc'[u][h].released => ~Current(u, h)'
    BY <1>1, <1>3 DEF CancelInv, CancelOK, ReleasesAreMeant
  <2>. QED BY <2>2, <2>3 DEF ReleasesAreMeant, Current
<1>7. SpawnedIsFirst'
  BY <1>1, <1>4 DEF CancelInv, CancelOK, SpawnedIsFirst
<1>8. RunsFollowTheirTabs'
  BY <1>4, <1>5 DEF CancelInv, CancelOK, RunsFollowTheirTabs, Unfinished
<1>9. RunsAreServed'
  <2>. SUFFICES ASSUME NEW r \in DOMAIN runs', NEW u, u = runs'[r].terminal,
                       Unfinished(runs'[r]), Current(u, 1)', live'[u] = 0
                PROVE  \/ \E j \in DOMAIN requests' : requests'[j].op = "spawn" /\ requests'[j].t = u /\ requests'[j].g = 1
                       \/ EndReported(u, 1)'
    BY DEF RunsAreServed, EndReported, Unfinished, Current
  <2>0. live[u] = 0 /\ (EndReported(u, 1) => EndReported(u, 1)')
    BY <1>1 DEF EndReported
  <2>1. r \in DOMAIN runs /\ u = runs[r].terminal /\ Current(u, 1) /\ Unfinished(runs[r])
    BY <1>3, <1>5 DEF Unfinished
  <2>2. \/ \E j \in DOMAIN requests : requests[j].op = "spawn" /\ requests[j].t = u /\ requests[j].g = 1
        \/ EndReported(u, 1)
    BY <2>0, <2>1 DEF CancelInv, CancelOK, RunsAreServed
  <2>. QED BY <1>2, <2>0, <2>2
<1>10. CancelServed'
  <2>. SUFFICES ASSUME NEW r \in DOMAIN runs', NEW u, u = runs'[r].terminal,
                       Unfinished(runs'[r]), runs'[r].cancel, Current(u, 1)'
                PROVE  \/ \E j \in DOMAIN requests' : requests'[j].op = "kill" /\ requests'[j].t = u /\ requests'[j].g = 1
                       \/ proc'[u][1].doomed \/ proc'[u][1].waiter \in {"draining", "holding"}
                       \/ EndReported(u, 1)'
    BY DEF CancelServed, EndReported, Unfinished, Current
  <2>0. proc' = proc /\ (EndReported(u, 1) => EndReported(u, 1)')
    BY <1>1 DEF EndReported
  <2>1. r \in DOMAIN runs /\ u = runs[r].terminal /\ Current(u, 1) /\ Unfinished(runs[r])
    BY <1>3, <1>5 DEF Unfinished
  <2>2. CASE runs[r].cancel
    <3>1. \/ \E j \in DOMAIN requests : requests[j].op = "kill" /\ requests[j].t = u /\ requests[j].g = 1
          \/ proc[u][1].doomed \/ proc[u][1].waiter \in {"draining", "holding"}
          \/ EndReported(u, 1)
      BY <2>1, <2>2 DEF CancelInv, CancelOK, CancelServed
    <3>. QED BY <1>2, <2>0, <3>1
  <2>3. CASE ~runs[r].cancel
    <3>1. PICK i \in DOMAIN terminals : terminals[i].id = u /\ terminals[i].gen = 1
      BY <2>1 DEF Current
    <3>2. \E x \in DOMAIN X : X[x].op = "kill" /\ X[x].t = u /\ X[x].g = 1
      BY <1>5, <2>1, <2>3, <3>1
    <3>. QED BY <1>2, <3>2
  <2>. QED BY <2>2, <2>3
<1>. QED BY <1>6, <1>7, <1>8, <1>9, <1>10 DEF CancelOK

\* A new process keeps the promise to cancelled runs: its run is attached to it.
LEMMA StartsCancel ==
  ASSUME CancelInv, NEW t, NEW g, NEW Y, Starts(t, g, Y), RunsAttached(t, g)
  PROVE  CancelOK'
<1>1. UNCHANGED <<live, events, proc>> /\ t \in Ids /\ g \in Gens /\ t \in Nat /\ g \in Nat
  BY Numbers DEF Starts
<1>. DEFINE spawn == [op |-> "spawn", t |-> t, g |-> g]
<1>2. spawn.op = "spawn" /\ spawn.t = t /\ spawn.g = g /\ spawn \in Request
  BY <1>1 DEF Request
<1>3. requests' = (requests \o Y) \o <<spawn>> /\ requests \in Seq(Request) /\ Y \in Seq(Request)
  BY DEF Starts, CancelInv, TabsInv, Kinds
<1>. HIDE DEF spawn
<1>4. /\ \A i \in DOMAIN requests : \E j \in DOMAIN requests' : requests'[j] = requests[i]
      /\ \A i \in DOMAIN requests' : \/ i \in DOMAIN requests /\ requests'[i] = requests[i]
                                     \/ \E y \in DOMAIN Y : requests'[i] = Y[y]
                                     \/ requests'[i] = spawn
      /\ \E j \in DOMAIN requests' : requests'[j] = spawn
  <2>1. requests \o Y \in Seq(Request) /\ <<spawn>> \in Seq(Request) /\ DOMAIN <<spawn>> = {1} /\ <<spawn>>[1] = spawn
    BY <1>2, <1>3
  <2>2. /\ \A i \in DOMAIN requests : i \in DOMAIN (requests \o Y) /\ (requests \o Y)[i] = requests[i]
        /\ \A i \in DOMAIN (requests \o Y) :
             (i \in DOMAIN requests /\ (requests \o Y)[i] = requests[i]) \/ \E y \in DOMAIN Y : (requests \o Y)[i] = Y[y]
    BY <1>3, Appended
  <2>3. /\ \A i \in DOMAIN (requests \o Y) : i \in DOMAIN requests' /\ requests'[i] = (requests \o Y)[i]
        /\ \A i \in DOMAIN requests' :
             (i \in DOMAIN (requests \o Y) /\ requests'[i] = (requests \o Y)[i])
             \/ \E x \in DOMAIN <<spawn>> : requests'[i] = <<spawn>>[x]
        /\ \A x \in DOMAIN <<spawn>> : \E i \in DOMAIN requests' : requests'[i] = <<spawn>>[x]
    <3>. DEFINE a == requests \o Y
                b == <<spawn>>
                c == requests'
    <3>1. c = a \o b /\ a \in Seq(Request) /\ b \in Seq(Request)
      BY <1>3, <2>1
    <3>. HIDE DEF a, b, c
    <3>2. \A i \in DOMAIN a : i \in DOMAIN c /\ c[i] = a[i]
      BY <3>1, Appended
    <3>3. \A i \in DOMAIN c : (i \in DOMAIN a /\ c[i] = a[i]) \/ \E x \in DOMAIN b : c[i] = b[x]
      BY <3>1, Appended
    <3>4. \A x \in DOMAIN b : \E i \in DOMAIN c : c[i] = b[x]
      <4>1. \A x \in DOMAIN b : Len(a) + x \in DOMAIN c /\ c[Len(a) + x] = b[x]
        BY <3>1, Appended
      <4>. QED BY <4>1
    <3>. QED BY <3>2, <3>3, <3>4 DEF a, b, c
  <2>. QED BY <2>1, <2>2, <2>3
<1>5. \A u, h : Current(u, h)' => (u = t /\ h = g) \/ (u # t /\ Current(u, h))
  BY StartsKnows DEF CancelInv, TabsInv
<1>6. ~Known(t, g)
  BY DEF Starts
<1>7. ReleasesAreMeant'
  <2>1. ASSUME NEW i \in DOMAIN requests', requests'[i].op = "release",
               NEW u, NEW h, u = requests'[i].t, h = requests'[i].g
        PROVE  ~Current(u, h)'
    <3>1. CASE i \in DOMAIN requests /\ requests'[i] = requests[i]
      <4>1. ~Current(u, h) /\ Known(u, h)
        BY <2>1, <3>1, WhatIsKnown DEF CancelInv, CancelOK, ReleasesAreMeant, TabsInv
      <4>. QED BY <1>5, <1>6, <4>1
    <3>2. CASE \E y \in DOMAIN Y : requests'[i] = Y[y]
      <4>1. u = t /\ h = g - 1
        BY <2>1, <3>2 DEF Starts
      <4>. QED BY <1>1, <1>5, <4>1
    <3>. QED BY <1>2, <1>4, <2>1, <3>1, <3>2
  <2>2. \A u \in Ids, h \in Gens : proc'[u][h].released => ~Current(u, h)'
    <3>. SUFFICES ASSUME NEW u \in Ids, NEW h \in Gens, proc[u][h].released PROVE ~Current(u, h)'
      BY <1>1
    <3>1. proc[u][h] # NoProc
      BY DEF NoProc
    <3>2. Known(u, h) /\ ~Current(u, h)
      BY <3>1, WhatIsKnown DEF CancelInv, CancelOK, ReleasesAreMeant, TabsInv
    <3>. QED BY <1>5, <1>6, <3>2
  <2>. QED BY <2>1, <2>2 DEF ReleasesAreMeant, Current
<1>8. SpawnedIsFirst'
  <2>1. \A i \in DOMAIN terminals' :
          terminals'[i].status = "starting" \/ \E j \in DOMAIN terminals : terminals'[i] = terminals[j]
    BY DEF Starts
  <2>. QED BY <1>1, <2>1 DEF CancelInv, CancelOK, SpawnedIsFirst
\* A run that is there already is on another tab, when the process is the first of its tab.
<1>9. \A q \in DOMAIN runs : runs[q].terminal = t => g # 1
  <2>. SUFFICES ASSUME NEW q \in DOMAIN runs, runs[q].terminal = t, g = 1 PROVE FALSE
    OBVIOUS
  <2>1. t <= opened
    BY WhatIsKnown DEF CancelInv, TabsInv
  <2>2. \A i \in DOMAIN terminals : g <= terminals[i].gen
    BY Fields DEF CancelInv, TabsInv, Gens
  <2>. QED BY <1>6, <2>1, <2>2 DEF Known
<1>10. \A r \in DOMAIN runs' :
         \/ \E q \in DOMAIN runs : runs'[r] = runs[q]
         \/ /\ runs'[r].terminal = t /\ g = 1 /\ ~runs'[r].cancel
            /\ runs'[r].status = "starting" /\ Unfinished(runs'[r])
  BY DEF RunsAttached, Unfinished
<1>11. RunsFollowTheirTabs'
  <2>. SUFFICES ASSUME NEW r \in DOMAIN runs', NEW i \in DOMAIN terminals',
                       terminals'[i].id = runs'[r].terminal, terminals'[i].gen = 1
                PROVE  /\ terminals'[i].status = "starting" => Unfinished(runs'[r])
                       /\ terminals'[i].status = "exited" => ~Unfinished(runs'[r])
    BY DEF RunsFollowTheirTabs, Unfinished
  <2>1. CASE \E q \in DOMAIN runs : runs'[r] = runs[q]
    <3>1. PICK q \in DOMAIN runs : runs'[r] = runs[q]
      BY <2>1
    <3>2. \E j \in DOMAIN terminals : terminals'[i] = terminals[j]
      BY <1>9, <3>1 DEF Starts
    <3>. QED BY <3>1, <3>2 DEF CancelInv, CancelOK, RunsFollowTheirTabs
  <2>2. CASE runs'[r].terminal = t /\ Unfinished(runs'[r])
    BY <2>2 DEF Starts
  <2>. QED BY <1>10, <2>1, <2>2
<1>12. RunsAreServed'
  <2>. SUFFICES ASSUME NEW r \in DOMAIN runs', NEW u, u = runs'[r].terminal,
                       Unfinished(runs'[r]), Current(u, 1)', live[u] = 0
                PROVE  \/ \E j \in DOMAIN requests' : requests'[j].op = "spawn" /\ requests'[j].t = u /\ requests'[j].g = 1
                       \/ EndReported(u, 1)
    BY <1>1 DEF RunsAreServed, EndReported, Unfinished, Current
  <2>1. CASE \E q \in DOMAIN runs : runs'[r] = runs[q]
    <3>1. PICK q \in DOMAIN runs : runs'[r] = runs[q]
      BY <2>1
    <3>2. Current(u, 1)
      BY <1>5, <1>9, <3>1
    <3>3. \/ \E j \in DOMAIN requests : requests[j].op = "spawn" /\ requests[j].t = u /\ requests[j].g = 1
          \/ EndReported(u, 1)
      BY <3>1, <3>2 DEF CancelInv, CancelOK, RunsAreServed
    <3>. QED BY <1>4, <3>3
  <2>2. CASE runs'[r].terminal = t /\ g = 1
    BY <1>2, <1>4, <2>2
  <2>. QED BY <1>10, <2>1, <2>2
<1>13. CancelServed'
  <2>. SUFFICES ASSUME NEW r \in DOMAIN runs', NEW u, u = runs'[r].terminal,
                       Unfinished(runs'[r]), runs'[r].cancel, Current(u, 1)'
                PROVE  \/ \E j \in DOMAIN requests' : requests'[j].op = "kill" /\ requests'[j].t = u /\ requests'[j].g = 1
                       \/ proc[u][1].doomed \/ proc[u][1].waiter \in {"draining", "holding"}
                       \/ EndReported(u, 1)
    BY <1>1 DEF CancelServed, EndReported, Unfinished, Current
  <2>1. PICK q \in DOMAIN runs : runs'[r] = runs[q]
    BY <1>10
  <2>2. Current(u, 1)
    BY <1>5, <1>9, <2>1
  <2>3. \/ \E j \in DOMAIN requests : requests[j].op = "kill" /\ requests[j].t = u /\ requests[j].g = 1
        \/ proc[u][1].doomed \/ proc[u][1].waiter \in {"draining", "holding"}
        \/ EndReported(u, 1)
    BY <2>1, <2>2 DEF CancelInv, CancelOK, CancelServed
  <2>. QED BY <1>4, <2>3
<1>. QED BY <1>7, <1>8, <1>11, <1>12, <1>13 DEF CancelOK

----------------------------------------------------------------------------
(***************************************************************************)
(* The worker                                                              *)
(***************************************************************************)

\* A request is served: it was the oldest, and the others move up.
LEMMA Served1 ==
  ASSUME Kinds, requests # <<>>, requests' = Tail(requests)
  PROVE  /\ requests' \in Seq(Request) /\ 1 \in DOMAIN requests /\ Head(requests) = requests[1]
         /\ \A i \in DOMAIN requests' : i + 1 \in DOMAIN requests /\ requests'[i] = requests[i + 1] /\ i \in Nat /\ i >= 1
         /\ \A i \in DOMAIN requests : i \in Nat /\ (i = 1 \/ (i - 1 \in DOMAIN requests' /\ requests'[i - 1] = requests[i] /\ i > 1))
<1>1. requests \in Seq(Request)
  BY DEF Kinds
<1>. QED BY <1>1

\* The oldest request meets the process it is about, or none.
LEMMA HeadMeets ==
  ASSUME Kinds, RequestsFit, requests # <<>>
  PROVE  /\ live[requests[1].t] # 0 => live[requests[1].t] = requests[1].g /\ requests[1].op # "spawn"
         /\ 1 \in DOMAIN requests
<1>1. 1 \in DOMAIN requests /\ \A j \in DOMAIN requests : ~(j < 1)
  BY DEF Kinds
<1>2. requests[1].t \in Ids /\ requests[1].g \in Nat /\ live[requests[1].t] \in Nat
  <2>1. requests[1].t \in Ids /\ requests[1].g \in Gens
    BY <1>1, Fields
  <2>2. live[requests[1].t] \in 0..MaxGen
    BY <2>1, Fields
  <2>3. requests[1].g \in Nat
    BY <2>1, Numbers
  <2>4. \A n \in 0..MaxGen : n \in Nat
    BY Numbers
  <2>. QED BY <2>1, <2>2, <2>3, <2>4
<1>. QED BY <1>1, <1>2 DEF RequestsFit, LiveFits

\* An event is published.
LEMMA Published ==
  ASSUME NEW S, NEW a \in Seq(S), NEW e \in S, NEW c, c = Append(a, e)
  PROVE  /\ c \in Seq(S)
         /\ \A k \in DOMAIN a : k \in DOMAIN c /\ c[k] = a[k]
         /\ \E k \in DOMAIN c : c[k] = e
         /\ \A k \in DOMAIN c : (k \in DOMAIN a /\ c[k] = a[k]) \/ c[k] = e
         /\ \A j, k \in DOMAIN c : j < k => j \in DOMAIN a
<1>1. Len(a) + 1 \in DOMAIN c /\ c[Len(a) + 1] = e
  OBVIOUS
<1>. QED BY <1>1

\* The service does as request op about process g of tab t asks, or fails to: it holds the
\* process no more after a release, and may have ended it; a failure is reported, and so is
\* every spawn that did not succeed and every kill that did not end its process.
Handles(op, t, g) ==
  /\ requests # <<>> /\ requests' = Tail(requests)
  /\ requests[1].op = op /\ requests[1].t = t /\ requests[1].g = g
  /\ UNCHANGED <<terminals, active, opened, runs>>
  /\ live' = live \/ (op = "release" /\ live' = [live EXCEPT ![t] = 0])
  /\ op = "release" => live'[t] = 0
  /\ \/ proc' = proc
     \/ /\ live[t] # 0 /\ live[t] = g
        /\ \E p \in Proc :
             /\ proc' = [proc EXCEPT ![t][g] = p]
             /\ p.waiter = proc[t][g].waiter /\ p.reader = proc[t][g].reader
             /\ p.active => proc[t][g].active
             /\ p.released => proc[t][g].released \/ op = "release"
             /\ proc[t][g].doomed => p.doomed
  /\ \/ /\ events' = events /\ op # "spawn"
        /\ op = "kill" => live[t] = 0 \/ proc'[t][g].doomed
     \/ events' = Append(events, Evt("failed", t, g, FALSE))

\* What a handled request leaves as it was
LEMMA HandlesFacts ==
  ASSUME TabsInv, NEW op, NEW t, NEW g, Handles(op, t, g)
  PROVE  /\ t \in Ids /\ g \in Gens /\ g \in Nat /\ 1 \in DOMAIN requests
         /\ requests' \in Seq(Request) /\ events' \in Seq(Event)
         /\ live' \in [Ids -> 0..MaxGen] /\ proc' \in [Ids -> [Gens -> Proc]]
         /\ \A u \in Ids, h \in Gens :
              /\ live'[u] = h => live[u] = h
              /\ proc'[u][h] = proc[u][h] \/ (u = t /\ h = g /\ live[t] = g)
              /\ proc'[u][h].waiter = proc[u][h].waiter /\ proc'[u][h].reader = proc[u][h].reader
              /\ proc'[u][h].active => proc[u][h].active
              /\ proc'[u][h].released => proc[u][h].released \/ (u = t /\ h = g /\ op = "release")
              /\ proc[u][h].doomed => proc'[u][h].doomed
         /\ \A k \in DOMAIN events : k \in DOMAIN events' /\ events'[k] = events[k]
         /\ \A k \in DOMAIN events' :
              \/ k \in DOMAIN events /\ events'[k] = events[k]
              \/ events'[k].kind = "failed" /\ events'[k].t = t /\ events'[k].g = g
         /\ \A j, k \in DOMAIN events' : j < k => j \in DOMAIN events
         /\ op = "spawn" => EndReported(t, g)'
         /\ op = "kill" => live[t] = 0 \/ proc'[t][g].doomed \/ EndReported(t, g)'
<1>1. t \in Ids /\ g \in Gens /\ g \in Nat /\ 1 \in DOMAIN requests /\ requests' \in Seq(Request)
  <2>1. Kinds
    BY DEF TabsInv
  <2>2. requests' \in Seq(Request) /\ 1 \in DOMAIN requests
    BY <2>1, Served1 DEF Handles
  <2>. QED BY <2>1, <2>2, Fields, Numbers DEF Handles
<1>. DEFINE e == Evt("failed", t, g, FALSE)
<1>2. e \in Event /\ e.kind = "failed" /\ e.t = t /\ e.g = g
  BY <1>1 DEF Evt, Event
<1>3. events \in Seq(Event) /\ live \in [Ids -> 0..MaxGen] /\ proc \in [Ids -> [Gens -> Proc]]
  BY DEF TabsInv, Kinds
<1>4. events' = events \/ events' = Append(events, e)
  BY DEF Handles
<1>. HIDE DEF e
<1>5. /\ events' \in Seq(Event)
      /\ \A k \in DOMAIN events : k \in DOMAIN events' /\ events'[k] = events[k]
      /\ \A k \in DOMAIN events' : (k \in DOMAIN events /\ events'[k] = events[k]) \/ events'[k] = e
      /\ \A j, k \in DOMAIN events' : j < k => j \in DOMAIN events
      /\ events' # events => \E k \in DOMAIN events' : events'[k] = e
  BY <1>2, <1>3, <1>4, Published
<1>6. events' # events => EndReported(t, g)'
  BY <1>2, <1>5 DEF EndReported
<1>7. live' \in [Ids -> 0..MaxGen] /\ \A u \in Ids, h \in Gens : live'[u] = h => live[u] = h
  <2>1. CASE live' = live
    BY <1>3, <2>1
  <2>2. CASE live' = [live EXCEPT ![t] = 0]
    <3>1. \A h \in Gens : h # 0
      BY Numbers DEF Gens
    <3>2. live' \in [Ids -> 0..MaxGen] /\ \A u \in Ids : live'[u] = IF u = t THEN 0 ELSE live[u]
      BY <1>1, <1>3, <2>2, Numbers
    <3>. QED BY <3>1, <3>2
  <2>. QED BY <2>1, <2>2 DEF Handles
<1>8. /\ proc' \in [Ids -> [Gens -> Proc]]
      /\ \A u \in Ids, h \in Gens :
           /\ proc'[u][h] = proc[u][h] \/ (u = t /\ h = g /\ live[t] = g)
           /\ proc'[u][h].waiter = proc[u][h].waiter /\ proc'[u][h].reader = proc[u][h].reader
           /\ proc'[u][h].active => proc[u][h].active
           /\ proc'[u][h].released => proc[u][h].released \/ (u = t /\ h = g /\ op = "release")
           /\ proc[u][h].doomed => proc'[u][h].doomed
  <2>1. CASE proc' = proc
    BY <1>3, <2>1
  <2>2. CASE proc' # proc
    <3>1. PICK p \in Proc :
            /\ proc' = [proc EXCEPT ![t][g] = p] /\ live[t] = g
            /\ p.waiter = proc[t][g].waiter /\ p.reader = proc[t][g].reader
            /\ p.active => proc[t][g].active
            /\ p.released => proc[t][g].released \/ op = "release"
            /\ proc[t][g].doomed => p.doomed
      BY <2>2 DEF Handles
    <3>2. proc' \in [Ids -> [Gens -> Proc]]
      BY <1>1, <1>3, <3>1
    <3>3. \A u \in Ids, h \in Gens : proc'[u][h] = IF u = t /\ h = g THEN p ELSE proc[u][h]
      BY <1>1, <1>3, <3>1
    <3>. QED BY <3>1, <3>2, <3>3
  <2>. QED BY <2>1, <2>2
<1>9. op = "spawn" => EndReported(t, g)'
  <2>. SUFFICES ASSUME op = "spawn" PROVE EndReported(t, g)'
    OBVIOUS
  <2>1. events' = Append(events, e)
    BY DEF Handles, e
  <2>2. \E k \in DOMAIN events' : events'[k] = e
    BY <1>2, <1>3, <2>1, Published
  <2>. QED BY <1>2, <2>2 DEF EndReported
<1>10. op = "kill" => live[t] = 0 \/ proc'[t][g].doomed \/ EndReported(t, g)'
  <2>1. CASE events' = Append(events, e)
    <3>1. \E k \in DOMAIN events' : events'[k] = e
      BY <1>2, <1>3, <2>1, Published
    <3>. QED BY <1>2, <3>1 DEF EndReported
  <2>2. CASE events' # Append(events, e)
    BY <2>2 DEF Handles, e
  <2>. QED BY <2>1, <2>2
<1>11. \A k \in DOMAIN events' :
         \/ k \in DOMAIN events /\ events'[k] = events[k]
         \/ events'[k].kind = "failed" /\ events'[k].t = t /\ events'[k].g = g
  BY <1>2, <1>5
<1>. QED BY <1>1, <1>5, <1>7, <1>8, <1>9, <1>10, <1>11

\* The service handles the first request: the queue that is left fits the processes it holds.
LEMMA HandlesTabs ==
  ASSUME TabsInv, NEW op, NEW t, NEW g, Handles(op, t, g)
  PROVE  TabsInv'
<1>1. /\ t \in Ids /\ g \in Gens /\ g \in Nat /\ 1 \in DOMAIN requests
      /\ requests' \in Seq(Request) /\ events' \in Seq(Event)
      /\ live' \in [Ids -> 0..MaxGen] /\ proc' \in [Ids -> [Gens -> Proc]]
      /\ \A u \in Ids, h \in Gens :
           /\ live'[u] = h => live[u] = h
           /\ proc'[u][h] = proc[u][h] \/ (u = t /\ h = g /\ live[t] = g)
      /\ \A k \in DOMAIN events' :
           \/ k \in DOMAIN events /\ events'[k] = events[k]
           \/ events'[k].kind = "failed" /\ events'[k].t = t /\ events'[k].g = g
  BY HandlesFacts
<1>2. /\ UNCHANGED <<terminals, active, opened, runs>>
      /\ requests[1].op = op /\ requests[1].t = t /\ requests[1].g = g
      /\ op = "release" => live'[t] = 0
  BY DEF Handles
<1>3. /\ \A i \in DOMAIN requests' : i + 1 \in DOMAIN requests /\ requests'[i] = requests[i + 1] /\ i \in Nat /\ i >= 1
      /\ \A i \in DOMAIN requests : i \in Nat /\ (i = 1 \/ (i - 1 \in DOMAIN requests' /\ requests'[i - 1] = requests[i] /\ i > 1))
  BY Served1 DEF TabsInv, Handles
<1>4. Kinds'
  BY <1>1, <1>2 DEF TabsInv, Kinds
<1>5. Distinct'
  BY <1>2 DEF TabsInv, Distinct
<1>6. \A u, h : (Known(u, h)' <=> Known(u, h)) /\ (Current(u, h)' <=> Current(u, h))
  BY <1>2 DEF Known, Current
<1>7. AllKnown'
  <2>1. ASSUME NEW u \in Ids, NEW h \in Gens, Mentioned(u, h)' PROVE Mentioned(u, h)
    <3>1. u = t /\ h = g => Mentioned(u, h)
      BY <1>1, <1>2 DEF Mentioned
    <3>. QED BY <1>1, <1>3, <2>1, <3>1 DEF Mentioned
  <2>. QED BY <1>2, <1>6, <2>1 DEF AllKnown, TabsInv
\* The release of a process that is still held, or will be spawned, is not the one served.
<1>8. ASSUME NEW i \in DOMAIN requests, i # 1, NEW u, NEW h, NEW j \in DOMAIN requests, j < i, j # 1, Releases(j, u, h)
      PROVE  i - 1 \in DOMAIN requests' /\ j - 1 \in DOMAIN requests' /\ j - 1 < i - 1 /\ Releases(j - 1, u, h)'
  BY <1>3, <1>8 DEF Releases
<1>9. ASSUME NEW u \in Ids, NEW h, h = live'[u], h # 0 PROVE h = live[u] /\ ~Releases(1, u, h)
  <2>1. h \in Gens
    BY <1>1, <1>9, Numbers DEF Gens
  <2>. QED BY <1>1, <1>2, <1>9, <2>1 DEF Releases
<1>10. \A i \in DOMAIN requests' : requests'[i].t \in Ids
  BY <1>3, Fields DEF TabsInv
<1>11. LiveFits'
  <2>. SUFFICES ASSUME NEW i \in DOMAIN requests', NEW u, NEW h, u = requests'[i].t, h = live'[u], h # 0
                PROVE  /\ h <= requests'[i].g
                       /\ h < requests'[i].g \/ requests'[i].op = "spawn" =>
                            \E j \in DOMAIN requests' : j < i /\ Releases(j, u, h)'
    BY DEF LiveFits, Releases
  <2>1. h = live[u] /\ ~Releases(1, u, h)
    BY <1>9, <1>10
  <2>2. i + 1 \in DOMAIN requests /\ requests'[i] = requests[i + 1] /\ i + 1 # 1 /\ (i + 1) - 1 = i
    BY <1>3
  <2>3. /\ h <= requests[i + 1].g
        /\ h < requests[i + 1].g \/ requests[i + 1].op = "spawn" =>
             \E j \in DOMAIN requests : j < i + 1 /\ Releases(j, u, h)
    BY <2>1, <2>2 DEF TabsInv, RequestsFit, LiveFits
  <2>4. (\E j \in DOMAIN requests : j < i + 1 /\ Releases(j, u, h)) =>
          \E j \in DOMAIN requests' : j < i /\ Releases(j, u, h)'
    BY <1>8, <2>1, <2>2
  <2>. QED BY <2>2, <2>3, <2>4
<1>12. SpawnFits'
  <2>. SUFFICES ASSUME NEW k \in DOMAIN requests', NEW i \in DOMAIN requests', k < i,
                       requests'[k].op = "spawn", NEW u, NEW h, u = requests'[k].t, h = requests'[k].g,
                       u = requests'[i].t
                PROVE  /\ h <= requests'[i].g
                       /\ h < requests'[i].g \/ requests'[i].op = "spawn" =>
                            \E j \in DOMAIN requests' : k < j /\ j < i /\ Releases(j, u, h)'
    BY DEF SpawnFits, Releases
  <2>1. /\ k + 1 \in DOMAIN requests /\ requests'[k] = requests[k + 1]
        /\ i + 1 \in DOMAIN requests /\ requests'[i] = requests[i + 1]
        /\ k + 1 < i + 1 /\ k \in Nat /\ k >= 1 /\ i \in Nat /\ i + 1 # 1 /\ (i + 1) - 1 = i
    BY <1>3
  <2>2. /\ h <= requests[i + 1].g
        /\ h < requests[i + 1].g \/ requests[i + 1].op = "spawn" =>
             \E j \in DOMAIN requests : k + 1 < j /\ j < i + 1 /\ Releases(j, u, h)
    BY <2>1 DEF TabsInv, RequestsFit, SpawnFits
  <2>3. (\E j \in DOMAIN requests : k + 1 < j /\ j < i + 1 /\ Releases(j, u, h)) =>
          \E j \in DOMAIN requests' : k < j /\ j < i /\ Releases(j, u, h)'
    <3>. SUFFICES ASSUME NEW j \in DOMAIN requests, k + 1 < j, j < i + 1, Releases(j, u, h)
                  PROVE  \E f \in DOMAIN requests' : k < f /\ f < i /\ Releases(f, u, h)'
      OBVIOUS
    <3>1. j \in Nat /\ j # 1 /\ k < j - 1
      BY <1>3, <2>1
    <3>. QED BY <1>8, <2>1, <3>1
  <2>. QED BY <2>1, <2>2, <2>3
<1>13. LiveEnds'
  <2>. SUFFICES ASSUME NEW u \in Ids, NEW h, h = live'[u], h # 0
                PROVE  Current(u, h)' \/ \E j \in DOMAIN requests' : Releases(j, u, h)'
    BY DEF LiveEnds, Releases, Current
  <2>1. h = live[u] /\ ~Releases(1, u, h)
    BY <1>9
  <2>2. Current(u, h) \/ \E j \in DOMAIN requests : Releases(j, u, h)
    BY <2>1 DEF TabsInv, RequestsFit, LiveEnds
  <2>3. ASSUME NEW j \in DOMAIN requests, Releases(j, u, h)
        PROVE  \E f \in DOMAIN requests' : Releases(f, u, h)'
    <3>1. j - 1 \in DOMAIN requests' /\ requests'[j - 1] = requests[j]
      BY <1>3, <2>1, <2>3
    <3>. QED BY <2>3, <3>1 DEF Releases
  <2>. QED BY <1>6, <2>2, <2>3
<1>14. SpawnEnds'
  <2>. SUFFICES ASSUME NEW k \in DOMAIN requests', requests'[k].op = "spawn",
                       NEW u, NEW h, u = requests'[k].t, h = requests'[k].g
                PROVE  Current(u, h)' \/ \E j \in DOMAIN requests' : k < j /\ Releases(j, u, h)'
    BY DEF SpawnEnds, Releases, Current
  <2>1. k + 1 \in DOMAIN requests /\ requests'[k] = requests[k + 1] /\ k \in Nat /\ k >= 1
    BY <1>3
  <2>2. Current(u, h) \/ \E j \in DOMAIN requests : k + 1 < j /\ Releases(j, u, h)
    BY <2>1 DEF TabsInv, RequestsFit, SpawnEnds
  <2>3. ASSUME NEW j \in DOMAIN requests, k + 1 < j, Releases(j, u, h)
        PROVE  \E f \in DOMAIN requests' : k < f /\ Releases(f, u, h)'
    <3>1. j - 1 \in DOMAIN requests' /\ requests'[j - 1] = requests[j] /\ k < j - 1
      BY <1>3, <2>1, <2>3
    <3>. QED BY <2>3, <3>1 DEF Releases
  <2>. QED BY <1>6, <2>2, <2>3
<1>15. SpawnsAreNew'
  <2>. SUFFICES ASSUME NEW k \in DOMAIN requests', requests'[k].op = "spawn",
                       NEW u, NEW h, u = requests'[k].t, h = requests'[k].g
                PROVE  /\ Unborn(u, h)'
                       /\ \A j \in DOMAIN requests' : j < k /\ requests'[j].t = u => requests'[j].g < h
    BY DEF SpawnsAreNew, Unborn
  <2>1. k + 1 \in DOMAIN requests /\ requests'[k] = requests[k + 1] /\ k \in Nat /\ k >= 1
    BY <1>3
  <2>2. /\ Unborn(u, h)
        /\ \A j \in DOMAIN requests : j < k + 1 /\ requests[j].t = u => requests[j].g < h
    BY <2>1 DEF TabsInv, SpawnsAreNew
  <2>3. \A j \in DOMAIN requests' : j < k /\ requests'[j].t = u => requests'[j].g < h
    BY <1>3, <2>1, <2>2
  <2>4. ~(u = t /\ h = g)
    <3>1. 1 < k + 1
      BY <2>1
    <3>. QED BY <1>1, <1>2, <2>2, <3>1
  <2>5. u \in Ids /\ h \in Gens
    BY <2>1, Fields DEF TabsInv
  <2>6. Unborn(u, h)'
    BY <1>1, <1>2, <2>2, <2>4, <2>5 DEF Unborn
  <2>. QED BY <2>3, <2>6
<1>. QED BY <1>4, <1>5, <1>7, <1>11, <1>12, <1>13, <1>14, <1>15 DEF TabsInv, RequestsFit

\* The service handles the first request: it makes no event that a tab could belie.
LEMMA HandlesTruth ==
  ASSUME TruthInv, NEW op, NEW t, NEW g, Handles(op, t, g)
  PROVE  TruthOK'
<1>1. /\ \A u \in Ids, h \in Gens :
           /\ proc'[u][h].waiter = proc[u][h].waiter /\ proc'[u][h].reader = proc[u][h].reader
           /\ proc'[u][h].active => proc[u][h].active
      /\ \A k \in DOMAIN events : k \in DOMAIN events' /\ events'[k] = events[k]
      /\ \A k \in DOMAIN events' :
           \/ k \in DOMAIN events /\ events'[k] = events[k]
           \/ events'[k].kind = "failed"
      /\ \A j, k \in DOMAIN events' : j < k => j \in DOMAIN events
  BY HandlesFacts DEF TruthInv
<1>2. UNCHANGED terminals
  BY DEF Handles
<1>3. /\ \A k \in DOMAIN events : events[k].t \in Ids /\ events[k].g \in Gens
      /\ \A i \in DOMAIN terminals : terminals[i].id \in Ids /\ terminals[i].gen \in Gens
      /\ DOMAIN terminals = 1..Len(terminals)
  BY Fields DEF TruthInv, TabsInv, Kinds
<1>4. ThreadsInOrder'
  BY <1>1 DEF TruthInv, TruthOK, ThreadsInOrder
<1>5. EventsTellTheTruth'
  BY <1>1, <1>3 DEF TruthInv, TruthOK, EventsTellTheTruth
<1>6. TabShowsItsProcess'
  BY <1>1, <1>2, <1>3 DEF TruthInv, TruthOK, TabShowsItsProcess
<1>7. ExitIsLast'
  BY <1>1, <1>2 DEF TruthInv, TruthOK, ExitIsLast
<1>. QED BY <1>4, <1>5, <1>6, <1>7 DEF TruthOK

\* The service handles the first request: a kill dooms its process, and a failure is reported.
LEMMA HandlesCancel ==
  ASSUME CancelInv, NEW op, NEW t, NEW g, Handles(op, t, g)
  PROVE  CancelOK'
<1>1. /\ t \in Ids /\ g \in Gens /\ g \in Nat /\ 1 \in DOMAIN requests
      /\ live' \in [Ids -> 0..MaxGen]
      /\ \A u \in Ids, h \in Gens :
           /\ proc'[u][h].waiter = proc[u][h].waiter
           /\ proc'[u][h].released => proc[u][h].released \/ (u = t /\ h = g /\ op = "release")
           /\ proc[u][h].doomed => proc'[u][h].doomed
      /\ \A k \in DOMAIN events : k \in DOMAIN events' /\ events'[k] = events[k]
      /\ \A k \in DOMAIN events' :
           \/ k \in DOMAIN events /\ events'[k] = events[k]
           \/ events'[k].kind = "failed"
      /\ \A j, k \in DOMAIN events' : j < k => j \in DOMAIN events
      /\ op = "spawn" => EndReported(t, g)'
      /\ op = "kill" => live[t] = 0 \/ proc'[t][g].doomed \/ EndReported(t, g)'
  BY HandlesFacts DEF CancelInv
<1>2. /\ UNCHANGED <<terminals, active, opened, runs>>
      /\ requests[1].op = op /\ requests[1].t = t /\ requests[1].g = g /\ requests # <<>>
      /\ live' = live \/ (op = "release" /\ live' = [live EXCEPT ![t] = 0])
  BY DEF Handles
<1>3. /\ \A i \in DOMAIN requests' : i + 1 \in DOMAIN requests /\ requests'[i] = requests[i + 1]
      /\ \A i \in DOMAIN requests : i = 1 \/ (i - 1 \in DOMAIN requests' /\ requests'[i - 1] = requests[i])
  BY Served1 DEF CancelInv, TabsInv, Handles
<1>4. \A u, h : Current(u, h)' <=> Current(u, h)
  BY <1>2 DEF Current
<1>5. \A u, h : EndReported(u, h) => EndReported(u, h)'
  BY <1>1 DEF EndReported
<1>6. ReleasesAreMeant'
  <2>1. \A i \in DOMAIN requests' : requests'[i].op = "release" => \E u, h :
          u = requests'[i].t /\ h = requests'[i].g /\ ~Current(u, h)
    BY <1>3 DEF CancelInv, CancelOK, ReleasesAreMeant
  <2>2. ASSUME NEW i \in DOMAIN requests', requests'[i].op = "release",
               NEW u, NEW h, u = requests'[i].t, h = requests'[i].g
        PROVE  ~Current(u, h)'
    BY <1>4, <2>1, <2>2
  <2>3. \A u \in Ids, h \in Gens : proc'[u][h].released => ~Current(u, h)'
    BY <1>1, <1>2, <1>4 DEF CancelInv, CancelOK, ReleasesAreMeant
  <2>. QED BY <2>2, <2>3 DEF ReleasesAreMeant, Current
<1>7. SpawnedIsFirst'
  BY <1>1, <1>2 DEF CancelInv, CancelOK, SpawnedIsFirst
<1>8. RunsFollowTheirTabs'
  BY <1>2 DEF CancelInv, CancelOK, RunsFollowTheirTabs
\* No release of the present process is served.
<1>9. \A u \in Ids : Current(u, 1) /\ live'[u] = 0 => live[u] = 0
  <2>. SUFFICES ASSUME NEW u \in Ids, Current(u, 1), live'[u] = 0, live[u] # 0 PROVE FALSE
    OBVIOUS
  <2>1. u = t /\ op = "release"
    BY <1>1, <1>2 DEF CancelInv, TabsInv, Kinds
  <2>2. live[t] = g
    BY <1>2, <2>1, HeadMeets DEF CancelInv, TabsInv
  <2>3. ~Current(t, g)
    BY <1>1, <1>2, <2>1 DEF CancelInv, CancelOK, ReleasesAreMeant
  <2>4. Known(t, g)
    BY <2>1, <2>2, WhatIsKnown DEF CancelInv, TabsInv
  <2>5. g <= 1
    BY <2>1, <2>4 DEF Current, Known
  <2>6. g = 1
    BY <1>1, <2>5, Numbers DEF Gens
  <2>. QED BY <2>1, <2>3, <2>6
<1>10. \A r \in DOMAIN runs : runs[r].terminal \in Ids
  BY Fields DEF CancelInv, TabsInv
<1>11. RunsAreServed'
  <2>. SUFFICES ASSUME NEW r \in DOMAIN runs, NEW u, u = runs[r].terminal,
                       Unfinished(runs[r]), Current(u, 1), live'[u] = 0
                PROVE  \/ \E j \in DOMAIN requests' : requests'[j].op = "spawn" /\ requests'[j].t = u /\ requests'[j].g = 1
                       \/ EndReported(u, 1)'
    BY <1>2, <1>4 DEF RunsAreServed, EndReported, Unfinished, Current
  <2>1. live[u] = 0
    BY <1>9, <1>10
  <2>2. \/ \E j \in DOMAIN requests : requests[j].op = "spawn" /\ requests[j].t = u /\ requests[j].g = 1
        \/ EndReported(u, 1)
    BY <2>1 DEF CancelInv, CancelOK, RunsAreServed
  <2>3. ASSUME NEW j \in DOMAIN requests, requests[j].op = "spawn", requests[j].t = u, requests[j].g = 1
        PROVE  \/ \E k \in DOMAIN requests' : requests'[k].op = "spawn" /\ requests'[k].t = u /\ requests'[k].g = 1
               \/ EndReported(u, 1)'
    BY <1>1, <1>2, <1>3, <2>3
  <2>. QED BY <1>5, <2>2, <2>3
<1>12. CancelServed'
  <2>. SUFFICES ASSUME NEW r \in DOMAIN runs, NEW u, u = runs[r].terminal,
                       Unfinished(runs[r]), runs[r].cancel, Current(u, 1)
                PROVE  \/ \E j \in DOMAIN requests' : requests'[j].op = "kill" /\ requests'[j].t = u /\ requests'[j].g = 1
                       \/ proc'[u][1].doomed \/ proc'[u][1].waiter \in {"draining", "holding"}
                       \/ EndReported(u, 1)'
    BY <1>2, <1>4 DEF CancelServed, EndReported, Unfinished, Current
  <2>0. u \in Ids /\ 1 \in Gens
    BY <1>1, <1>10, Numbers DEF Gens
  <2>1. \/ \E j \in DOMAIN requests : requests[j].op = "kill" /\ requests[j].t = u /\ requests[j].g = 1
        \/ proc[u][1].doomed \/ proc[u][1].waiter \in {"draining", "holding"}
        \/ EndReported(u, 1)
    BY DEF CancelInv, CancelOK, CancelServed
  <2>2. ASSUME NEW j \in DOMAIN requests, requests[j].op = "kill", requests[j].t = u, requests[j].g = 1
        PROVE  \/ \E k \in DOMAIN requests' : requests'[k].op = "kill" /\ requests'[k].t = u /\ requests'[k].g = 1
               \/ proc'[u][1].doomed
               \/ EndReported(u, 1)'
    <3>1. CASE j # 1
      BY <1>3, <2>2, <3>1
    <3>2. CASE j = 1 /\ live[u] = 0
      <4>1. op = "kill" /\ u = t /\ g = 1
        BY <1>2, <2>2, <3>2
      <4>2. \/ \E k \in DOMAIN requests : requests[k].op = "spawn" /\ requests[k].t = u /\ requests[k].g = 1
            \/ EndReported(u, 1)
        BY <3>2 DEF CancelInv, CancelOK, RunsAreServed
      <4>3. ASSUME NEW k \in DOMAIN requests, requests[k].op = "spawn", requests[k].t = u, requests[k].g = 1
            PROVE  FALSE
        <5>1. k # 1 /\ k \in Nat /\ 1 < k
          BY <1>2, <4>1, <4>3, Served1 DEF CancelInv, TabsInv, Kinds
        <5>2. requests[1].g < requests[k].g
          BY <1>1, <1>2, <4>1, <4>3, <5>1 DEF CancelInv, TabsInv, SpawnsAreNew
        <5>. QED BY <1>2, <4>1, <4>3, <5>2
      <4>. QED BY <1>5, <4>2, <4>3
    <3>3. CASE j = 1 /\ live[u] # 0
      BY <1>1, <1>2, <2>2, <3>3
    <3>. QED BY <3>1, <3>2, <3>3
  <2>. QED BY <1>1, <1>5, <2>0, <2>1, <2>2
<1>. QED BY <1>6, <1>7, <1>8, <1>11, <1>12 DEF CancelOK

\* A process is spawned: there was none, and it is the one that was asked for.
Spawned(t, g) ==
  /\ requests # <<>> /\ requests' = Tail(requests)
  /\ requests[1].op = "spawn" /\ requests[1].t = t /\ requests[1].g = g
  /\ UNCHANGED <<terminals, active, opened, runs>>
  /\ live[t] = 0 /\ live' = [live EXCEPT ![t] = g]
  /\ proc' = [proc EXCEPT ![t][g] = StartedProc]
  /\ events' = Append(events, Evt("spawned", t, g, TRUE))

\* What a spawn leaves as it was, and that it is the first trace of its process
LEMMA SpawnedFacts ==
  ASSUME TabsInv, NEW t, NEW g, Spawned(t, g)
  PROVE  /\ t \in Ids /\ g \in Gens /\ g \in Nat /\ 1 \in DOMAIN requests /\ Unborn(t, g)
         /\ requests' \in Seq(Request) /\ events' \in Seq(Event)
         /\ live' \in [Ids -> 0..MaxGen] /\ proc' \in [Ids -> [Gens -> Proc]]
         /\ \A u \in Ids : live'[u] = IF u = t THEN g ELSE live[u]
         /\ \A u \in Ids, h \in Gens : proc'[u][h] = IF u = t /\ h = g THEN StartedProc ELSE proc[u][h]
         /\ \A k \in DOMAIN events : k \in DOMAIN events' /\ events'[k] = events[k]
         /\ \A k \in DOMAIN events' :
              \/ k \in DOMAIN events /\ events'[k] = events[k]
              \/ events'[k].kind = "spawned" /\ events'[k].t = t /\ events'[k].g = g
         /\ \A j, k \in DOMAIN events' : j < k => j \in DOMAIN events
         /\ \A i \in DOMAIN requests' : i + 1 \in DOMAIN requests /\ requests'[i] = requests[i + 1] /\ i \in Nat /\ i >= 1
         /\ \A i \in DOMAIN requests :
              i \in Nat /\ (i = 1 \/ (i - 1 \in DOMAIN requests' /\ requests'[i - 1] = requests[i] /\ i > 1))
<1>0. Kinds
  BY DEF TabsInv
<1>1. /\ requests' \in Seq(Request) /\ 1 \in DOMAIN requests
      /\ \A i \in DOMAIN requests' : i + 1 \in DOMAIN requests /\ requests'[i] = requests[i + 1] /\ i \in Nat /\ i >= 1
      /\ \A i \in DOMAIN requests :
           i \in Nat /\ (i = 1 \/ (i - 1 \in DOMAIN requests' /\ requests'[i - 1] = requests[i] /\ i > 1))
  BY <1>0, Served1 DEF Spawned
<1>2. t \in Ids /\ g \in Gens /\ g \in Nat
  BY <1>0, <1>1, Fields, Numbers DEF Spawned
<1>3. Unborn(t, g)
  BY <1>1 DEF TabsInv, SpawnsAreNew, Spawned
<1>. DEFINE e == Evt("spawned", t, g, TRUE)
<1>4. e \in Event /\ e.kind = "spawned" /\ e.t = t /\ e.g = g
  BY <1>2 DEF Evt, Event
<1>5. events' = Append(events, e) /\ events \in Seq(Event)
  BY <1>0 DEF Spawned, Kinds
<1>. HIDE DEF e
<1>6. /\ events' \in Seq(Event)
      /\ \A k \in DOMAIN events : k \in DOMAIN events' /\ events'[k] = events[k]
      /\ \A k \in DOMAIN events' : (k \in DOMAIN events /\ events'[k] = events[k]) \/ events'[k] = e
      /\ \A j, k \in DOMAIN events' : j < k => j \in DOMAIN events
  BY <1>4, <1>5, Published
<1>7. \A k \in DOMAIN events' :
        \/ k \in DOMAIN events /\ events'[k] = events[k]
        \/ events'[k].kind = "spawned" /\ events'[k].t = t /\ events'[k].g = g
  BY <1>4, <1>6
<1>8. StartedProc \in Proc
  BY DEF StartedProc, NoProc, Proc
<1>9. live \in [Ids -> 0..MaxGen] /\ proc \in [Ids -> [Gens -> Proc]] /\ g \in 0..MaxGen
  BY <1>0, <1>2, Numbers DEF Kinds, Gens
<1>10. live' \in [Ids -> 0..MaxGen] /\ \A u \in Ids : live'[u] = IF u = t THEN g ELSE live[u]
  BY <1>2, <1>9 DEF Spawned
<1>11. /\ proc' \in [Ids -> [Gens -> Proc]]
       /\ \A u \in Ids, h \in Gens : proc'[u][h] = IF u = t /\ h = g THEN StartedProc ELSE proc[u][h]
  BY <1>2, <1>8, <1>9 DEF Spawned
<1>. QED BY <1>1, <1>2, <1>3, <1>6, <1>7, <1>10, <1>11

\* A spawn keeps the order of requests: its own is the one served.
LEMMA SpawnedTabs ==
  ASSUME TabsInv, NEW t, NEW g, Spawned(t, g)
  PROVE  TabsInv'
<1>1. /\ t \in Ids /\ g \in Gens /\ g \in Nat /\ 1 \in DOMAIN requests /\ Unborn(t, g)
      /\ requests' \in Seq(Request) /\ events' \in Seq(Event)
      /\ live' \in [Ids -> 0..MaxGen] /\ proc' \in [Ids -> [Gens -> Proc]]
      /\ \A u \in Ids : live'[u] = IF u = t THEN g ELSE live[u]
      /\ \A u \in Ids, h \in Gens : proc'[u][h] = IF u = t /\ h = g THEN StartedProc ELSE proc[u][h]
      /\ \A k \in DOMAIN events' :
           \/ k \in DOMAIN events /\ events'[k] = events[k]
           \/ events'[k].kind = "spawned" /\ events'[k].t = t /\ events'[k].g = g
      /\ \A i \in DOMAIN requests' : i + 1 \in DOMAIN requests /\ requests'[i] = requests[i + 1] /\ i \in Nat /\ i >= 1
      /\ \A i \in DOMAIN requests :
           i \in Nat /\ (i = 1 \/ (i - 1 \in DOMAIN requests' /\ requests'[i - 1] = requests[i] /\ i > 1))
  BY SpawnedFacts
<1>2. /\ UNCHANGED <<terminals, active, opened, runs>>
      /\ requests[1].op = "spawn" /\ requests[1].t = t /\ requests[1].g = g
  BY DEF Spawned
<1>3. \A u, h : ~Releases(1, u, h)
  BY <1>2 DEF Releases
<1>4. Kinds'
  BY <1>1, <1>2 DEF TabsInv, Kinds
<1>5. Distinct'
  BY <1>2 DEF TabsInv, Distinct
<1>6. \A u, h : (Known(u, h)' <=> Known(u, h)) /\ (Current(u, h)' <=> Current(u, h))
  BY <1>2 DEF Known, Current
<1>7. AllKnown'
  <2>1. ASSUME NEW u \in Ids, NEW h \in Gens, Mentioned(u, h)' PROVE Mentioned(u, h)
    <3>1. u = t /\ h = g => Mentioned(u, h)
      BY <1>1, <1>2 DEF Mentioned
    <3>. QED BY <1>1, <2>1, <3>1 DEF Mentioned
  <2>. QED BY <1>2, <1>6, <2>1 DEF AllKnown, TabsInv
<1>8. ASSUME NEW j \in DOMAIN requests, NEW u, NEW h, Releases(j, u, h)
      PROVE  j - 1 \in DOMAIN requests' /\ Releases(j - 1, u, h)' /\ j \in Nat
  BY <1>1, <1>3, <1>8 DEF Releases
<1>9. ASSUME NEW k \in Nat, NEW i \in Nat, NEW u, NEW h,
             \E j \in DOMAIN requests : k + 1 < j /\ j < i + 1 /\ Releases(j, u, h)
      PROVE  \E j \in DOMAIN requests' : k < j /\ j < i /\ Releases(j, u, h)'
  <2>1. PICK j \in DOMAIN requests : k + 1 < j /\ j < i + 1 /\ Releases(j, u, h)
    BY <1>9
  <2>2. j - 1 \in DOMAIN requests' /\ Releases(j - 1, u, h)' /\ k < j - 1 /\ j - 1 < i
    BY <1>8, <2>1
  <2>. QED BY <2>2
<1>10. \A i \in DOMAIN requests' : requests'[i].t \in Ids /\ requests'[i].g \in Nat
  <2>1. \A i \in DOMAIN requests' : requests'[i].t \in Ids /\ requests'[i].g \in Gens
    BY <1>1, Fields DEF TabsInv
  <2>. QED BY <2>1, Numbers
<1>11. LiveFits'
  <2>. SUFFICES ASSUME NEW i \in DOMAIN requests', NEW u, NEW h, u = requests'[i].t, h = live'[u], h # 0
                PROVE  /\ h <= requests'[i].g
                       /\ h < requests'[i].g \/ requests'[i].op = "spawn" =>
                            \E j \in DOMAIN requests' : j < i /\ Releases(j, u, h)'
    BY DEF LiveFits, Releases
  <2>1. i + 1 \in DOMAIN requests /\ requests'[i] = requests[i + 1] /\ 1 < i + 1 /\ i \in Nat
    BY <1>1
  <2>2. CASE u = t
    <3>1. h = g
      BY <1>1, <2>2
    <3>2. /\ g <= requests[i + 1].g
          /\ g < requests[i + 1].g \/ requests[i + 1].op = "spawn" =>
               \E j \in DOMAIN requests : 1 < j /\ j < i + 1 /\ Releases(j, t, g)
      BY <1>1, <1>2, <2>1, <2>2 DEF TabsInv, RequestsFit, SpawnFits
    <3>3. (\E j \in DOMAIN requests : 1 < j /\ j < i + 1 /\ Releases(j, t, g)) =>
            \E j \in DOMAIN requests' : j < i /\ Releases(j, t, g)'
      <4>1. 0 + 1 = 1 /\ 0 \in Nat
        OBVIOUS
      <4>. QED BY <1>9, <2>1, <4>1
    <3>. QED BY <2>1, <2>2, <3>1, <3>2, <3>3
  <2>3. CASE u # t
    <3>1. h = live[u]
      BY <1>1, <1>10, <2>3
    <3>2. /\ h <= requests[i + 1].g
          /\ h < requests[i + 1].g \/ requests[i + 1].op = "spawn" =>
               \E j \in DOMAIN requests : j < i + 1 /\ Releases(j, u, h)
      BY <2>1, <3>1 DEF TabsInv, RequestsFit, LiveFits
    <3>3. ASSUME NEW j \in DOMAIN requests, j < i + 1, Releases(j, u, h)
          PROVE  \E f \in DOMAIN requests' : f < i /\ Releases(f, u, h)'
      <4>1. j - 1 \in DOMAIN requests' /\ Releases(j - 1, u, h)' /\ j - 1 < i
        BY <1>8, <2>1, <3>3
      <4>. QED BY <4>1
    <3>. QED BY <2>1, <3>2, <3>3
  <2>. QED BY <2>2, <2>3
<1>12. SpawnFits'
  <2>. SUFFICES ASSUME NEW k \in DOMAIN requests', NEW i \in DOMAIN requests', k < i,
                       requests'[k].op = "spawn", NEW u, NEW h, u = requests'[k].t, h = requests'[k].g,
                       u = requests'[i].t
                PROVE  /\ h <= requests'[i].g
                       /\ h < requests'[i].g \/ requests'[i].op = "spawn" =>
                            \E j \in DOMAIN requests' : k < j /\ j < i /\ Releases(j, u, h)'
    BY DEF SpawnFits, Releases
  <2>1. /\ k + 1 \in DOMAIN requests /\ requests'[k] = requests[k + 1]
        /\ i + 1 \in DOMAIN requests /\ requests'[i] = requests[i + 1]
        /\ k + 1 < i + 1 /\ k \in Nat /\ i \in Nat
    BY <1>1
  <2>2. /\ h <= requests[i + 1].g
        /\ h < requests[i + 1].g \/ requests[i + 1].op = "spawn" =>
             \E j \in DOMAIN requests : k + 1 < j /\ j < i + 1 /\ Releases(j, u, h)
    BY <2>1 DEF TabsInv, RequestsFit, SpawnFits
  <2>3. (\E j \in DOMAIN requests : k + 1 < j /\ j < i + 1 /\ Releases(j, u, h)) =>
          \E j \in DOMAIN requests' : k < j /\ j < i /\ Releases(j, u, h)'
    BY <1>9, <2>1
  <2>. QED BY <2>1, <2>2, <2>3
<1>13. LiveEnds'
  <2>. SUFFICES ASSUME NEW u \in Ids, NEW h, h = live'[u], h # 0
                PROVE  Current(u, h)' \/ \E j \in DOMAIN requests' : Releases(j, u, h)'
    BY DEF LiveEnds, Releases, Current
  <2>1. Current(u, h) \/ \E j \in DOMAIN requests : Releases(j, u, h)
    <3>1. CASE u = t
      BY <1>1, <1>2, <3>1 DEF TabsInv, RequestsFit, SpawnEnds
    <3>2. CASE u # t
      BY <1>1, <3>2 DEF TabsInv, RequestsFit, LiveEnds
    <3>. QED BY <3>1, <3>2
  <2>. QED BY <1>6, <1>8, <2>1
<1>14. SpawnEnds'
  <2>. SUFFICES ASSUME NEW k \in DOMAIN requests', requests'[k].op = "spawn",
                       NEW u, NEW h, u = requests'[k].t, h = requests'[k].g
                PROVE  Current(u, h)' \/ \E j \in DOMAIN requests' : k < j /\ Releases(j, u, h)'
    BY DEF SpawnEnds, Releases, Current
  <2>1. k + 1 \in DOMAIN requests /\ requests'[k] = requests[k + 1] /\ k \in Nat
    BY <1>1
  <2>2. Current(u, h) \/ \E j \in DOMAIN requests : k + 1 < j /\ Releases(j, u, h)
    BY <2>1 DEF TabsInv, RequestsFit, SpawnEnds
  <2>3. ASSUME NEW j \in DOMAIN requests, k + 1 < j, Releases(j, u, h)
        PROVE  \E f \in DOMAIN requests' : k < f /\ Releases(f, u, h)'
    <3>1. j - 1 \in DOMAIN requests' /\ Releases(j - 1, u, h)' /\ k < j - 1
      BY <1>8, <2>1, <2>3
    <3>. QED BY <3>1
  <2>. QED BY <1>6, <2>2, <2>3
<1>15. SpawnsAreNew'
  <2>. SUFFICES ASSUME NEW k \in DOMAIN requests', requests'[k].op = "spawn",
                       NEW u, NEW h, u = requests'[k].t, h = requests'[k].g
                PROVE  /\ Unborn(u, h)'
                       /\ \A j \in DOMAIN requests' : j < k /\ requests'[j].t = u => requests'[j].g < h
    BY DEF SpawnsAreNew, Unborn
  <2>1. k + 1 \in DOMAIN requests /\ requests'[k] = requests[k + 1] /\ k \in Nat /\ k >= 1
    BY <1>1
  <2>2. /\ Unborn(u, h)
        /\ \A j \in DOMAIN requests : j < k + 1 /\ requests[j].t = u => requests[j].g < h
    BY <2>1 DEF TabsInv, SpawnsAreNew
  <2>3. ASSUME NEW j \in DOMAIN requests', j < k, requests'[j].t = u PROVE requests'[j].g < h
    <3>1. j + 1 \in DOMAIN requests /\ requests'[j] = requests[j + 1] /\ j + 1 < k + 1
      BY <1>1, <2>1, <2>3
    <3>. QED BY <2>2, <2>3, <3>1
  <2>4. ~(u = t /\ h = g)
    <3>1. 1 < k + 1
      BY <2>1
    <3>. QED BY <1>1, <1>2, <2>2, <3>1
  <2>5. u \in Ids /\ h \in Gens
    BY <2>1, Fields DEF TabsInv
  <2>6. proc'[u][h] = NoProc /\ live'[u] # h
    BY <1>1, <2>2, <2>4, <2>5 DEF Unborn
  <2>7. \A f \in DOMAIN events' : ~(events'[f].t = u /\ events'[f].g = h)
    BY <1>1, <2>2, <2>4 DEF Unborn
  <2>8. \A i \in DOMAIN terminals' :
          terminals'[i].id = u /\ terminals'[i].gen = h => terminals'[i].status = "starting"
    BY <1>2, <2>2 DEF Unborn
  <2>9. Unborn(u, h)'
    BY <2>6, <2>7, <2>8 DEF Unborn
  <2>. QED BY <2>3, <2>9
<1>. QED BY <1>4, <1>5, <1>7, <1>11, <1>12, <1>13, <1>14, <1>15 DEF TabsInv, RequestsFit

\* A spawn keeps what tabs say of processes true: nothing is said of its own yet.
LEMMA SpawnedTruth ==
  ASSUME TruthInv, NEW t, NEW g, Spawned(t, g)
  PROVE  TruthOK'
<1>1. /\ t \in Ids /\ g \in Gens /\ Unborn(t, g)
      /\ \A u \in Ids, h \in Gens : proc'[u][h] = IF u = t /\ h = g THEN StartedProc ELSE proc[u][h]
      /\ \A k \in DOMAIN events : k \in DOMAIN events' /\ events'[k] = events[k]
      /\ \A k \in DOMAIN events' :
           \/ k \in DOMAIN events /\ events'[k] = events[k]
           \/ events'[k].kind = "spawned" /\ events'[k].t = t /\ events'[k].g = g
      /\ \A j, k \in DOMAIN events' : j < k => j \in DOMAIN events
  BY SpawnedFacts DEF TruthInv
<1>2. UNCHANGED terminals
  BY DEF Spawned
<1>3. /\ \A k \in DOMAIN events : events[k].t \in Ids /\ events[k].g \in Gens
      /\ \A i \in DOMAIN terminals : terminals[i].id \in Ids /\ terminals[i].gen \in Gens
      /\ DOMAIN terminals = 1..Len(terminals)
  BY Fields DEF TruthInv, TabsInv, Kinds
<1>4. StartedProc.waiter = "waiting" /\ StartedProc.reader = "reading"
  BY DEF StartedProc, NoProc
<1>5. ThreadsInOrder'
  BY <1>1, <1>4 DEF TruthInv, TruthOK, ThreadsInOrder
<1>6. \A k \in DOMAIN events : ~(events[k].t = t /\ events[k].g = g)
  BY <1>1 DEF Unborn
<1>7. EventsTellTheTruth'
  <2>. SUFFICES ASSUME NEW k \in DOMAIN events', NEW u, NEW h, u = events'[k].t, h = events'[k].g
                PROVE  /\ events'[k].kind = "exited" => proc'[u][h].waiter = "done"
                       /\ events'[k].kind = "spawned" => proc'[u][h].waiter # "none"
    BY DEF EventsTellTheTruth
  <2>1. CASE k \in DOMAIN events /\ events'[k] = events[k]
    <3>1. proc'[u][h] = proc[u][h]
      BY <1>1, <1>3, <1>6, <2>1
    <3>. QED BY <2>1, <3>1 DEF TruthInv, TruthOK, EventsTellTheTruth
  <2>2. CASE events'[k].kind = "spawned" /\ events'[k].t = t /\ events'[k].g = g
    BY <1>1, <1>4, <2>2
  <2>. QED BY <1>1, <2>1, <2>2
<1>8. TabShowsItsProcess'
  <2>. SUFFICES ASSUME NEW i \in DOMAIN terminals
                PROVE  LET s == terminals[i]
                       IN /\ s.shown \subseteq {s.gen}
                          /\ s.status = "exited" => proc'[s.id][s.gen].waiter = "done"
                          /\ s.status = "running" => proc'[s.id][s.gen].waiter # "none"
    BY <1>2, <1>3 DEF TabShowsItsProcess
  <2>1. /\ terminals[i].shown \subseteq {terminals[i].gen}
        /\ terminals[i].status = "exited" => proc[terminals[i].id][terminals[i].gen].waiter = "done"
        /\ terminals[i].status = "running" => proc[terminals[i].id][terminals[i].gen].waiter # "none"
    BY <1>3 DEF TruthInv, TruthOK, TabShowsItsProcess
  <2>2. terminals[i].id = t /\ terminals[i].gen = g => terminals[i].status = "starting"
    BY <1>1 DEF Unborn
  <2>3. ~(terminals[i].id = t /\ terminals[i].gen = g) =>
          proc'[terminals[i].id][terminals[i].gen] = proc[terminals[i].id][terminals[i].gen]
    BY <1>1, <1>3
  <2>. QED BY <2>1, <2>2, <2>3
<1>9. ExitIsLast'
  BY <1>1, <1>2 DEF TruthInv, TruthOK, ExitIsLast
<1>. QED BY <1>5, <1>7, <1>8, <1>9 DEF TruthOK

\* A spawn keeps cancellations under way: its process has not been cancelled before its
\* request was served, or the kill comes after it.
LEMMA SpawnedCancel ==
  ASSUME CancelInv, NEW t, NEW g, Spawned(t, g)
  PROVE  CancelOK'
<1>1. /\ t \in Ids /\ g \in Gens /\ g \in Nat /\ 1 \in DOMAIN requests /\ Unborn(t, g)
      /\ \A u \in Ids : live'[u] = IF u = t THEN g ELSE live[u]
      /\ \A u \in Ids, h \in Gens : proc'[u][h] = IF u = t /\ h = g THEN StartedProc ELSE proc[u][h]
      /\ \A k \in DOMAIN events : k \in DOMAIN events' /\ events'[k] = events[k]
      /\ \A k \in DOMAIN events' :
           \/ k \in DOMAIN events /\ events'[k] = events[k]
           \/ events'[k].kind = "spawned" /\ events'[k].t = t /\ events'[k].g = g
      /\ \A j, k \in DOMAIN events' : j < k => j \in DOMAIN events
      /\ \A i \in DOMAIN requests' : i + 1 \in DOMAIN requests /\ requests'[i] = requests[i + 1]
      /\ \A i \in DOMAIN requests : i = 1 \/ (i - 1 \in DOMAIN requests' /\ requests'[i - 1] = requests[i])
  BY SpawnedFacts DEF CancelInv
<1>2. /\ UNCHANGED <<terminals, active, opened, runs>>
      /\ requests[1].op = "spawn" /\ requests[1].t = t /\ requests[1].g = g
  BY DEF Spawned
<1>3. ~StartedProc.released
  BY DEF StartedProc, NoProc
<1>4. \A u, h : Current(u, h)' <=> Current(u, h)
  BY <1>2 DEF Current
<1>5. \A u, h : EndReported(u, h) => EndReported(u, h)'
  BY <1>1 DEF EndReported
<1>6. ReleasesAreMeant'
  <2>1. \A i \in DOMAIN requests' : requests'[i].op = "release" => \E u, h :
          u = requests'[i].t /\ h = requests'[i].g /\ ~Current(u, h)
    BY <1>1 DEF CancelInv, CancelOK, ReleasesAreMeant
  <2>2. ASSUME NEW i \in DOMAIN requests', requests'[i].op = "release",
               NEW u, NEW h, u = requests'[i].t, h = requests'[i].g
        PROVE  ~Current(u, h)'
    BY <1>4, <2>1, <2>2
  <2>3. \A u \in Ids, h \in Gens : proc'[u][h].released => ~Current(u, h)'
    BY <1>1, <1>3, <1>4 DEF CancelInv, CancelOK, ReleasesAreMeant
  <2>. QED BY <2>2, <2>3 DEF ReleasesAreMeant, Current
<1>7. SpawnedIsFirst'
  <2>. SUFFICES ASSUME NEW k \in DOMAIN events', events'[k].kind = "spawned"
                PROVE  /\ \A j \in DOMAIN events' : j < k =>
                            ~(events'[j].t = events'[k].t /\ events'[j].g = events'[k].g)
                       /\ \A i \in DOMAIN terminals :
                            terminals[i].id = events'[k].t /\ terminals[i].gen = events'[k].g =>
                              terminals[i].status = "starting"
    BY <1>2 DEF SpawnedIsFirst
  <2>1. CASE k \in DOMAIN events /\ events'[k] = events[k]
    BY <1>1, <2>1 DEF CancelInv, CancelOK, SpawnedIsFirst
  <2>2. CASE events'[k].t = t /\ events'[k].g = g
    BY <1>1, <2>2 DEF Unborn
  <2>. QED BY <1>1, <2>1, <2>2
<1>8. RunsFollowTheirTabs'
  BY <1>2 DEF CancelInv, CancelOK, RunsFollowTheirTabs
<1>9. \A r \in DOMAIN runs : runs[r].terminal \in Ids
  BY Fields DEF CancelInv, TabsInv
<1>10. g # 0
  BY <1>1, Numbers DEF Gens
<1>11. RunsAreServed'
  <2>. SUFFICES ASSUME NEW r \in DOMAIN runs, NEW u, u = runs[r].terminal,
                       Unfinished(runs[r]), Current(u, 1), live'[u] = 0
                PROVE  \/ \E j \in DOMAIN requests' : requests'[j].op = "spawn" /\ requests'[j].t = u /\ requests'[j].g = 1
                       \/ EndReported(u, 1)'
    BY <1>2, <1>4 DEF RunsAreServed, EndReported, Unfinished, Current
  <2>1. live[u] = 0 /\ u # t
    BY <1>1, <1>9, <1>10
  <2>2. \/ \E j \in DOMAIN requests : requests[j].op = "spawn" /\ requests[j].t = u /\ requests[j].g = 1
        \/ EndReported(u, 1)
    BY <2>1 DEF CancelInv, CancelOK, RunsAreServed
  <2>3. ASSUME NEW j \in DOMAIN requests, requests[j].op = "spawn", requests[j].t = u, requests[j].g = 1
        PROVE  \E k \in DOMAIN requests' : requests'[k].op = "spawn" /\ requests'[k].t = u /\ requests'[k].g = 1
    BY <1>1, <1>2, <2>1, <2>3
  <2>. QED BY <1>5, <2>2, <2>3
<1>12. CancelServed'
  <2>. SUFFICES ASSUME NEW r \in DOMAIN runs, NEW u, u = runs[r].terminal,
                       Unfinished(runs[r]), runs[r].cancel, Current(u, 1)
                PROVE  \/ \E j \in DOMAIN requests' : requests'[j].op = "kill" /\ requests'[j].t = u /\ requests'[j].g = 1
                       \/ proc'[u][1].doomed \/ proc'[u][1].waiter \in {"draining", "holding"}
                       \/ EndReported(u, 1)'
    BY <1>2, <1>4 DEF CancelServed, EndReported, Unfinished, Current
  <2>0. u \in Ids /\ 1 \in Gens
    BY <1>1, <1>9, Numbers DEF Gens
  <2>1. \/ \E j \in DOMAIN requests : requests[j].op = "kill" /\ requests[j].t = u /\ requests[j].g = 1
        \/ proc[u][1].doomed \/ proc[u][1].waiter \in {"draining", "holding"}
        \/ EndReported(u, 1)
    BY DEF CancelInv, CancelOK, CancelServed
  <2>2. ASSUME NEW j \in DOMAIN requests, requests[j].op = "kill", requests[j].t = u, requests[j].g = 1
        PROVE  \E k \in DOMAIN requests' : requests'[k].op = "kill" /\ requests'[k].t = u /\ requests'[k].g = 1
    BY <1>1, <1>2, <2>2
  <2>3. u = t /\ g = 1 => ~proc[u][1].doomed /\ proc[u][1].waiter = "none"
    BY <1>1 DEF Unborn, NoProc
  <2>4. ~(u = t /\ g = 1) => proc'[u][1] = proc[u][1]
    BY <1>1, <2>0
  <2>. QED BY <1>5, <2>1, <2>2, <2>3, <2>4
<1>. QED BY <1>6, <1>7, <1>8, <1>11, <1>12 DEF CancelOK

\* What ending and releasing make of a process
LEMMA Endings ==
  ASSUME NEW p \in Proc
  PROVE  /\ Terminated(p) \in Proc /\ Terminated(p).waiter = p.waiter /\ Terminated(p).reader = p.reader
         /\ Terminated(p).active = p.active /\ Terminated(p).released = p.released /\ Terminated(p).doomed
         /\ LET q == [p EXCEPT !.released = TRUE, !.active = FALSE]
            IN q \in Proc /\ q.waiter = p.waiter /\ q.reader = p.reader /\ ~q.active /\ q.doomed = p.doomed
         /\ LET q == [Terminated(p) EXCEPT !.released = TRUE, !.active = FALSE]
            IN q \in Proc /\ q.waiter = p.waiter /\ q.reader = p.reader /\ ~q.active /\ q.doomed
  BY DEF Terminated, Proc

\* Each request the worker serves is a spawn that succeeds, or handled.
LEMMA WorkerCases ==
  ASSUME TabsInv, Worker
  PROVE  \E op, t, g : Spawned(t, g) \/ Handles(op, t, g)
<1>. DEFINE r == requests[1]
            g == live[r.t]
            e == Evt("failed", r.t, r.g, FALSE)
<1>0. Kinds
  BY DEF TabsInv
<1>1. requests # <<>> /\ requests' = Tail(requests)
  BY DEF Worker, WorkerSpawn, WorkerWrite, WorkerKill, WorkerRelease, Serving, Served
<1>2. Head(requests) = r /\ 1 \in DOMAIN requests
  BY <1>0, <1>1, Served1
<1>3. /\ r.t \in Ids /\ r.g \in Gens
      /\ r.op \in {"spawn", "write", "resize", "kill", "release"}
  BY <1>0, <1>2, Fields
<1>4. g # 0 => g = r.g /\ proc[r.t][g] \in Proc
  <2>1. g # 0 => g = r.g
    BY <1>0, <1>1, HeadMeets DEF TabsInv
  <2>. QED BY <1>0, <1>3, <2>1, Fields
<1>5. UNCHANGED <<terminals, active, opened, runs>>
  BY DEF Worker, WorkerSpawn, WorkerWrite, WorkerKill, WorkerRelease, model
<1>6. CASE WorkerSpawn
  <2>1. CASE Spawned(r.t, r.g)
    BY <2>1
  <2>2. CASE ~Spawned(r.t, r.g)
    <3>1. r.op = "spawn" /\ events' = Append(events, e) /\ UNCHANGED <<live, proc>>
      BY <1>1, <1>2, <1>5, <1>6, <2>2 DEF WorkerSpawn, Serving, Failure, Spawned, service
    <3>2. Handles(r.op, r.t, r.g)
      BY <1>1, <1>5, <3>1 DEF Handles
    <3>. QED BY <3>2
  <2>. QED BY <2>1, <2>2
<1>7. CASE WorkerWrite
  <2>1. r.op \in {"write", "resize"} /\ UNCHANGED <<live, proc>>
        /\ (events' = events \/ events' = Append(events, e))
    BY <1>2, <1>7 DEF WorkerWrite, Serving, Failure, service
  <2>2. Handles(r.op, r.t, r.g)
    BY <1>1, <1>5, <2>1 DEF Handles
  <2>. QED BY <2>2
<1>8. CASE WorkerKill
  <2>1. /\ r.op = "kill" /\ live' = live
        /\ \/ g = 0 /\ UNCHANGED <<proc, events>>
           \/ g # 0 /\ proc' = [proc EXCEPT ![r.t][g] = Terminated(proc[r.t][g])] /\ UNCHANGED events
           \/ g # 0 /\ events' = Append(events, e) /\ UNCHANGED proc
    BY <1>2, <1>8 DEF WorkerKill, Serving, Failure
  <2>2. CASE g = 0 /\ UNCHANGED <<proc, events>>
    BY <1>1, <1>5, <2>1, <2>2 DEF Handles
  <2>3. CASE g # 0 /\ events' = Append(events, e) /\ UNCHANGED proc
    BY <1>1, <1>5, <2>1, <2>3 DEF Handles
  <2>4. CASE g # 0 /\ proc' = [proc EXCEPT ![r.t][g] = Terminated(proc[r.t][g])] /\ UNCHANGED events
    <3>1. PICK p \in Proc :
            /\ proc' = [proc EXCEPT ![r.t][r.g] = p] /\ p.doomed
            /\ p.waiter = proc[r.t][r.g].waiter /\ p.reader = proc[r.t][r.g].reader
            /\ p.active = proc[r.t][r.g].active /\ p.released = proc[r.t][r.g].released
      <4>. DEFINE q == Terminated(proc[r.t][r.g])
      <4>1. proc' = [proc EXCEPT ![r.t][r.g] = q]
        BY <1>4, <2>4
      <4>2. /\ q \in Proc /\ q.doomed
            /\ q.waiter = proc[r.t][r.g].waiter /\ q.reader = proc[r.t][r.g].reader
            /\ q.active = proc[r.t][r.g].active /\ q.released = proc[r.t][r.g].released
        BY <1>4, <2>4, Endings
      <4>. HIDE DEF q
      <4>. QED BY <4>1, <4>2
    <3>2. proc'[r.t][r.g] = p
      BY <1>0, <1>3, <3>1 DEF Kinds
    <3>3. Handles(r.op, r.t, r.g)
      BY <1>1, <1>4, <1>5, <2>1, <2>4, <3>1, <3>2 DEF Handles
    <3>. QED BY <3>3
  <2>. QED BY <2>1, <2>2, <2>3, <2>4
<1>9. CASE WorkerRelease
  <2>1. /\ r.op = "release"
        /\ \/ g = 0 /\ UNCHANGED <<live, proc, events>>
           \/ /\ g # 0 /\ live' = [live EXCEPT ![r.t] = 0]
              /\ \/ /\ proc' = [proc EXCEPT ![r.t][g] =
                         [Terminated(proc[r.t][g]) EXCEPT !.released = TRUE, !.active = FALSE]]
                    /\ events' = events
                 \/ /\ proc' = [proc EXCEPT ![r.t][g] =
                         [proc[r.t][g] EXCEPT !.released = TRUE, !.active = FALSE]]
                    /\ events' = Append(events, e)
    BY <1>2, <1>9 DEF WorkerRelease, Serving, Failure, service
  <2>2. CASE g = 0
    BY <1>1, <1>5, <2>1, <2>2 DEF Handles
  <2>3. CASE g # 0
    <3>1. live'[r.t] = 0
      BY <1>0, <1>3, <2>1, <2>3 DEF Kinds
    <3>2. PICK p \in Proc :
            /\ proc' = [proc EXCEPT ![r.t][r.g] = p]
            /\ p.waiter = proc[r.t][r.g].waiter /\ p.reader = proc[r.t][r.g].reader /\ ~p.active
            /\ proc[r.t][r.g].doomed => p.doomed
      <4>. DEFINE P == proc[r.t][r.g]
                  A == [Terminated(P) EXCEPT !.released = TRUE, !.active = FALSE]
                  B == [P EXCEPT !.released = TRUE, !.active = FALSE]
      <4>1. P \in Proc
        BY <1>4, <2>3
      <4>2. A \in Proc /\ A.waiter = P.waiter /\ A.reader = P.reader /\ ~A.active /\ A.doomed
        BY <4>1, Endings
      <4>3. B \in Proc /\ B.waiter = P.waiter /\ B.reader = P.reader /\ ~B.active /\ B.doomed = P.doomed
        BY <4>1, Endings
      <4>4. proc' = [proc EXCEPT ![r.t][r.g] = A] \/ proc' = [proc EXCEPT ![r.t][r.g] = B]
        BY <1>4, <2>1, <2>3
      <4>. HIDE DEF A, B
      <4>. QED BY <4>2, <4>3, <4>4
    <3>3. Handles(r.op, r.t, r.g)
      BY <1>1, <1>4, <1>5, <2>1, <2>3, <3>1, <3>2 DEF Handles
    <3>. QED BY <3>3
  <2>. QED BY <2>2, <2>3
<1>. QED BY <1>6, <1>7, <1>8, <1>9 DEF Worker

----------------------------------------------------------------------------
(***************************************************************************)
(* The threads of a process                                                *)
(***************************************************************************)

\* A thread of process g of tab t, which has been spawned, takes a step.
ThreadStep(t, g) ==
  LET p == proc[t][g]
  IN /\ t \in Ids /\ g \in Gens /\ p # NoProc
     /\ UNCHANGED <<terminals, active, opened, runs, requests, live>>
     /\ \E q \in Proc :
          /\ proc' = [proc EXCEPT ![t][g] = q]
          /\ q.released = p.released /\ q.doomed = p.doomed
          /\ q.active => q.waiter = "waiting"
          /\ q.reader = "holding" => q.waiter \in {"waiting", "draining"}
          /\ p.waiter = "done" => q.waiter = "done"
          /\ p.waiter # "none" /\ q.waiter # "none"
          /\ p.waiter \in {"draining", "holding"} =>
               q.waiter \in {"draining", "holding"} \/ p.released \/ EndReported(t, g)'
          /\ \/ events' = events
             \/ \E e \in Event :
                  /\ events' = Append(events, e) /\ e.t = t /\ e.g = g /\ e.kind # "spawned"
                  /\ e.kind = "exited" => q.waiter = "done"
                  /\ e.kind = "output" => p.waiter # "done"

\* Every step of a thread is one, as long as reader and waiter keep their order.
LEMMA ThreadCases ==
  ASSUME TabsInv, ThreadsInOrder, NEW t \in Ids, NEW g \in Gens, Process(t, g)
  PROVE  ThreadStep(t, g)
<1>. DEFINE p == proc[t][g]
<1>0. p \in Proc /\ events \in Seq(Event)
  BY Fields DEF TabsInv, Kinds
<1>1. /\ p.active => p.waiter = "waiting"
      /\ p.reader = "holding" => p.waiter \in {"waiting", "draining"}
  BY DEF ThreadsInOrder
<1>2. NoProc.waiter = "none"
  BY DEF NoProc
<1>3. UNCHANGED <<terminals, active, opened, runs, requests, live>>
  BY DEF Process, ReaderReads, ReaderUnblocks, ChildEnds, WaiterLocks, WaiterUnblocks, Thread, model
<1>4. ASSUME NEW e, events' = Append(events, e) PROVE \E k \in DOMAIN events' : events'[k] = e
  BY <1>0, <1>4
<1>5. Evt("output", t, g, TRUE) \in Event
      /\ Evt("output", t, g, TRUE).t = t /\ Evt("output", t, g, TRUE).g = g
      /\ Evt("output", t, g, TRUE).kind = "output"
  BY DEF Evt, Event
<1>6. \A e \in Verdicts(t, g) : e \in Event /\ e.t = t /\ e.g = g /\ e.kind \in {"exited", "failed"}
  <2>1. \A ok \in BOOLEAN : LET e == Evt("exited", t, g, ok)
                           IN e \in Event /\ e.t = t /\ e.g = g /\ e.kind = "exited"
    BY DEF Evt, Event
  <2>2. LET e == Evt("failed", t, g, FALSE)
        IN e \in Event /\ e.t = t /\ e.g = g /\ e.kind = "failed"
    BY DEF Evt, Event
  <2>3. ASSUME NEW e \in Verdicts(t, g)
        PROVE  (\E ok \in BOOLEAN : e = Evt("exited", t, g, ok)) \/ e = Evt("failed", t, g, FALSE)
    BY DEF Verdicts
  <2>. QED BY <2>1, <2>2, <2>3
<1>7. CASE ReaderReads(t, g)
  <2>1. /\ p.active /\ p.reader = "reading" /\ p.waiter = "waiting"
        /\ \/ proc' = [proc EXCEPT ![t][g] = p] /\ events' = Append(events, Evt("output", t, g, TRUE))
           \/ proc' = [proc EXCEPT ![t][g] = [p EXCEPT !.reader = "holding"]] /\ events' = events
    BY <1>1, <1>7 DEF ReaderReads, Thread
  <2>2. CASE proc' = [proc EXCEPT ![t][g] = p] /\ events' = Append(events, Evt("output", t, g, TRUE))
    BY <1>0, <1>1, <1>2, <1>3, <1>5, <2>1, <2>2 DEF ThreadStep
  <2>3. CASE proc' = [proc EXCEPT ![t][g] = [p EXCEPT !.reader = "holding"]] /\ events' = events
    <3>. DEFINE q == [p EXCEPT !.reader = "holding"]
    <3>1. q \in Proc /\ q.waiter = "waiting" /\ q.released = p.released /\ q.doomed = p.doomed
      BY <1>0, <2>1 DEF Proc
    <3>. HIDE DEF q
    <3>. QED BY <1>2, <1>3, <2>1, <2>3, <3>1 DEF ThreadStep, q
  <2>. QED BY <2>1, <2>2, <2>3
<1>8. CASE ReaderUnblocks(t, g)
  <2>. DEFINE q == [p EXCEPT !.reader = "reading"]
  <2>1. /\ p.reader = "holding" /\ proc' = [proc EXCEPT ![t][g] = q]
        /\ events' = Append(events, Evt("output", t, g, TRUE))
    BY <1>8 DEF ReaderUnblocks, Thread
  <2>2. /\ q \in Proc /\ q.waiter = p.waiter /\ q.released = p.released /\ q.doomed = p.doomed
        /\ q.reader = "reading" /\ q.active = p.active
    BY <1>0 DEF Proc
  <2>. HIDE DEF q
  <2>. QED BY <1>1, <1>2, <1>3, <1>5, <2>1, <2>2 DEF ThreadStep
<1>9. CASE ChildEnds(t, g)
  <2>. DEFINE q == [p EXCEPT !.waiter = "draining", !.active = FALSE]
  <2>1. p.waiter = "waiting" /\ proc' = [proc EXCEPT ![t][g] = q] /\ events' = events
    BY <1>9 DEF ChildEnds, Thread
  <2>2. /\ q \in Proc /\ q.waiter = "draining" /\ q.released = p.released /\ q.doomed = p.doomed
        /\ ~q.active
    BY <1>0 DEF Proc
  <2>. HIDE DEF q
  <2>. QED BY <1>2, <1>3, <2>1, <2>2 DEF ThreadStep
<1>10. ASSUME p.waiter \in {"draining", "holding"}, p.reader # "holding",
              proc' = [proc EXCEPT ![t][g] = [p EXCEPT !.waiter = "done"]],
              \/ events' = events /\ p.released
              \/ \E e \in Verdicts(t, g) : events' = Append(events, e)
       PROVE  ThreadStep(t, g)
  <2>. DEFINE q == [p EXCEPT !.waiter = "done"]
  <2>1. /\ q \in Proc /\ q.waiter = "done" /\ q.released = p.released /\ q.doomed = p.doomed
        /\ q.reader = p.reader /\ q.active = p.active
    BY <1>0 DEF Proc
  <2>2. proc' = [proc EXCEPT ![t][g] = q] /\ ~q.active
    BY <1>1, <1>10, <2>1
  <2>. HIDE DEF q
  <2>3. CASE events' = events /\ p.released
    BY <1>2, <1>3, <1>10, <2>1, <2>2, <2>3 DEF ThreadStep
  <2>4. CASE \E e \in Verdicts(t, g) : events' = Append(events, e)
    <3>1. PICK e \in Verdicts(t, g) : events' = Append(events, e)
      BY <2>4
    <3>2. EndReported(t, g)'
      BY <1>4, <1>6, <3>1 DEF EndReported
    <3>. QED BY <1>2, <1>3, <1>6, <1>10, <2>1, <2>2, <3>1, <3>2 DEF ThreadStep
  <2>. QED BY <1>10, <2>3, <2>4
<1>11. CASE WaiterLocks(t, g)
  <2>1. CASE p.released \/ Room
    BY <1>10, <1>11, <2>1 DEF WaiterLocks, Thread
  <2>2. CASE ~p.released /\ ~Room
    <3>. DEFINE q == [p EXCEPT !.waiter = "holding"]
    <3>1. p.waiter = "draining" /\ p.reader # "holding" /\ proc' = [proc EXCEPT ![t][g] = q] /\ events' = events
      BY <1>11, <2>2 DEF WaiterLocks, Thread
    <3>2. /\ q \in Proc /\ q.waiter = "holding" /\ q.released = p.released /\ q.doomed = p.doomed
          /\ q.reader = p.reader /\ q.active = p.active
      BY <1>0 DEF Proc
    <3>. HIDE DEF q
    <3>. QED BY <1>1, <1>2, <1>3, <3>1, <3>2 DEF ThreadStep
  <2>. QED BY <2>1, <2>2
<1>12. CASE WaiterUnblocks(t, g)
  <2>1. p.waiter = "holding" /\ p.reader # "holding"
    BY <1>1, <1>12 DEF WaiterUnblocks
  <2>. QED BY <1>10, <1>12, <2>1 DEF WaiterUnblocks, Thread
<1>. QED BY <1>7, <1>8, <1>9, <1>11, <1>12 DEF Process

\* What a step of a thread leaves as it was
LEMMA ThreadFacts ==
  ASSUME TabsInv, NEW t, NEW g, ThreadStep(t, g)
  PROVE  /\ events' \in Seq(Event) /\ proc' \in [Ids -> [Gens -> Proc]]
         /\ \A u \in Ids, h \in Gens :
              /\ ~(u = t /\ h = g) => proc'[u][h] = proc[u][h]
              /\ proc'[u][h].released = proc[u][h].released /\ proc'[u][h].doomed = proc[u][h].doomed
              /\ proc[u][h].waiter = "done" => proc'[u][h].waiter = "done"
              /\ proc[u][h].waiter # "none" => proc'[u][h].waiter # "none"
         /\ \A k \in DOMAIN events : k \in DOMAIN events' /\ events'[k] = events[k]
         /\ \A k \in DOMAIN events' :
              \/ k \in DOMAIN events /\ events'[k] = events[k]
              \/ /\ events'[k].t = t /\ events'[k].g = g /\ events'[k].kind # "spawned"
                 /\ events'[k].kind = "exited" => proc'[t][g].waiter = "done"
                 /\ events'[k].kind = "output" => proc[t][g].waiter # "done"
         /\ \A j, k \in DOMAIN events' : j < k => j \in DOMAIN events
         /\ proc'[t][g].active => proc'[t][g].waiter = "waiting"
         /\ proc'[t][g].reader = "holding" => proc'[t][g].waiter \in {"waiting", "draining"}
         /\ proc[t][g].waiter \in {"draining", "holding"} =>
              proc'[t][g].waiter \in {"draining", "holding"} \/ proc[t][g].released \/ EndReported(t, g)'
<1>. DEFINE p == proc[t][g]
<1>1. t \in Ids /\ g \in Gens /\ proc \in [Ids -> [Gens -> Proc]] /\ events \in Seq(Event)
  BY DEF ThreadStep, TabsInv, Kinds
<1>2. PICK q \in Proc :
        /\ proc' = [proc EXCEPT ![t][g] = q]
        /\ q.released = p.released /\ q.doomed = p.doomed
        /\ q.active => q.waiter = "waiting"
        /\ q.reader = "holding" => q.waiter \in {"waiting", "draining"}
        /\ p.waiter = "done" => q.waiter = "done"
        /\ q.waiter # "none"
        /\ p.waiter \in {"draining", "holding"} =>
             q.waiter \in {"draining", "holding"} \/ p.released \/ EndReported(t, g)'
        /\ \/ events' = events
           \/ \E e \in Event :
                /\ events' = Append(events, e) /\ e.t = t /\ e.g = g /\ e.kind # "spawned"
                /\ e.kind = "exited" => q.waiter = "done"
                /\ e.kind = "output" => p.waiter # "done"
  BY DEF ThreadStep
<1>3. proc' \in [Ids -> [Gens -> Proc]] /\ proc'[t][g] = q
  BY <1>1, <1>2
<1>4. \A u \in Ids, h \in Gens : ~(u = t /\ h = g) => proc'[u][h] = proc[u][h]
  BY <1>1, <1>2
<1>5. /\ events' \in Seq(Event)
      /\ \A k \in DOMAIN events : k \in DOMAIN events' /\ events'[k] = events[k]
      /\ \A k \in DOMAIN events' :
           \/ k \in DOMAIN events /\ events'[k] = events[k]
           \/ /\ events'[k].t = t /\ events'[k].g = g /\ events'[k].kind # "spawned"
              /\ events'[k].kind = "exited" => q.waiter = "done"
              /\ events'[k].kind = "output" => p.waiter # "done"
      /\ \A j, k \in DOMAIN events' : j < k => j \in DOMAIN events
  <2>1. CASE events' = events
    BY <1>1, <2>1
  <2>2. CASE events' # events
    <3>1. PICK e \in Event :
            /\ events' = Append(events, e) /\ e.t = t /\ e.g = g /\ e.kind # "spawned"
            /\ e.kind = "exited" => q.waiter = "done"
            /\ e.kind = "output" => p.waiter # "done"
      BY <1>2, <2>2
    <3>2. /\ events' \in Seq(Event)
          /\ \A k \in DOMAIN events : k \in DOMAIN events' /\ events'[k] = events[k]
          /\ \A k \in DOMAIN events' : (k \in DOMAIN events /\ events'[k] = events[k]) \/ events'[k] = e
          /\ \A j, k \in DOMAIN events' : j < k => j \in DOMAIN events
      BY <1>1, <3>1, Published
    <3>. QED BY <3>1, <3>2
  <2>. QED BY <2>1, <2>2
<1>6. \A u \in Ids, h \in Gens :
        /\ proc'[u][h].released = proc[u][h].released /\ proc'[u][h].doomed = proc[u][h].doomed
        /\ proc[u][h].waiter = "done" => proc'[u][h].waiter = "done"
        /\ proc[u][h].waiter # "none" => proc'[u][h].waiter # "none"
  BY <1>2, <1>3, <1>4
<1>. QED BY <1>2, <1>3, <1>4, <1>5, <1>6

\* Threads ask for nothing.
LEMMA ThreadTabs ==
  ASSUME TabsInv, NEW t, NEW g, ThreadStep(t, g)
  PROVE  TabsInv'
<1>1. /\ events' \in Seq(Event) /\ proc' \in [Ids -> [Gens -> Proc]]
      /\ \A u \in Ids, h \in Gens : ~(u = t /\ h = g) => proc'[u][h] = proc[u][h]
      /\ \A k \in DOMAIN events' :
           \/ k \in DOMAIN events /\ events'[k] = events[k]
           \/ events'[k].t = t /\ events'[k].g = g
  BY ThreadFacts
<1>2. /\ t \in Ids /\ g \in Gens /\ proc[t][g] # NoProc
      /\ UNCHANGED <<terminals, active, opened, runs, requests, live>>
  BY DEF ThreadStep
<1>3. Kinds' /\ Distinct'
  BY <1>1, <1>2 DEF TabsInv, Kinds, Distinct
<1>4. \A u, h : (Known(u, h)' <=> Known(u, h)) /\ (Current(u, h)' <=> Current(u, h))
  BY <1>2 DEF Known, Current
<1>5. AllKnown'
  <2>1. ASSUME NEW u \in Ids, NEW h \in Gens, Mentioned(u, h)' PROVE Mentioned(u, h)
    BY <1>1, <1>2, <2>1 DEF Mentioned
  <2>. QED BY <1>2, <1>4, <2>1 DEF AllKnown, TabsInv
<1>6. RequestsFit'
  BY <1>2 DEF TabsInv, RequestsFit, LiveFits, SpawnFits, LiveEnds, SpawnEnds, Releases, Current
<1>7. SpawnsAreNew'
  <2>. SUFFICES ASSUME NEW k \in DOMAIN requests, requests[k].op = "spawn",
                       NEW u, NEW h, u = requests[k].t, h = requests[k].g
                PROVE  /\ Unborn(u, h)'
                       /\ \A j \in DOMAIN requests : j < k /\ requests[j].t = u => requests[j].g < h
    BY <1>2 DEF SpawnsAreNew, Unborn
  <2>1. /\ Unborn(u, h)
        /\ \A j \in DOMAIN requests : j < k /\ requests[j].t = u => requests[j].g < h
    BY DEF TabsInv, SpawnsAreNew
  <2>2. u \in Ids /\ h \in Gens /\ ~(u = t /\ h = g)
    BY <1>2, <2>1, Fields DEF TabsInv, Unborn
  <2>3. proc'[u][h] = NoProc /\ live'[u] # h
    BY <1>1, <1>2, <2>1, <2>2 DEF Unborn
  <2>4. \A f \in DOMAIN events' : ~(events'[f].t = u /\ events'[f].g = h)
    BY <1>1, <2>1, <2>2 DEF Unborn
  <2>5. Unborn(u, h)'
    BY <1>2, <2>1, <2>3, <2>4 DEF Unborn
  <2>. QED BY <2>1, <2>5
<1>. QED BY <1>3, <1>5, <1>6, <1>7 DEF TabsInv

\* Threads keep their order, and Exited stays the last word of a process.
LEMMA ThreadTruth ==
  ASSUME TruthInv, NEW t, NEW g, ThreadStep(t, g)
  PROVE  TruthOK'
<1>1. /\ \A u \in Ids, h \in Gens :
           /\ ~(u = t /\ h = g) => proc'[u][h] = proc[u][h]
           /\ proc[u][h].waiter = "done" => proc'[u][h].waiter = "done"
           /\ proc[u][h].waiter # "none" => proc'[u][h].waiter # "none"
      /\ \A k \in DOMAIN events : k \in DOMAIN events' /\ events'[k] = events[k]
      /\ \A k \in DOMAIN events' :
           \/ k \in DOMAIN events /\ events'[k] = events[k]
           \/ /\ events'[k].t = t /\ events'[k].g = g /\ events'[k].kind # "spawned"
              /\ events'[k].kind = "exited" => proc'[t][g].waiter = "done"
              /\ events'[k].kind = "output" => proc[t][g].waiter # "done"
      /\ \A j, k \in DOMAIN events' : j < k => j \in DOMAIN events
      /\ proc'[t][g].active => proc'[t][g].waiter = "waiting"
      /\ proc'[t][g].reader = "holding" => proc'[t][g].waiter \in {"waiting", "draining"}
  BY ThreadFacts DEF TruthInv
<1>2. t \in Ids /\ g \in Gens /\ UNCHANGED terminals
  BY DEF ThreadStep
<1>3. /\ \A k \in DOMAIN events : events[k].t \in Ids /\ events[k].g \in Gens
      /\ \A i \in DOMAIN terminals : terminals[i].id \in Ids /\ terminals[i].gen \in Gens
      /\ DOMAIN terminals = 1..Len(terminals)
  BY Fields DEF TruthInv, TabsInv, Kinds
<1>4. ThreadsInOrder'
  <2>. SUFFICES ASSUME NEW u \in Ids, NEW h \in Gens
                PROVE  /\ proc'[u][h].active => proc'[u][h].waiter = "waiting"
                       /\ proc'[u][h].reader = "holding" => proc'[u][h].waiter \in {"waiting", "draining"}
    BY DEF ThreadsInOrder
  <2>1. CASE u = t /\ h = g
    BY <1>1, <2>1
  <2>2. CASE ~(u = t /\ h = g)
    BY <1>1, <2>2 DEF TruthInv, TruthOK, ThreadsInOrder
  <2>. QED BY <2>1, <2>2
<1>5. EventsTellTheTruth'
  <2>. SUFFICES ASSUME NEW k \in DOMAIN events', NEW u, NEW h, u = events'[k].t, h = events'[k].g
                PROVE  /\ events'[k].kind = "exited" => proc'[u][h].waiter = "done"
                       /\ events'[k].kind = "spawned" => proc'[u][h].waiter # "none"
    BY DEF EventsTellTheTruth
  <2>1. CASE k \in DOMAIN events /\ events'[k] = events[k]
    <3>1. /\ events[k].kind = "exited" => proc[u][h].waiter = "done"
          /\ events[k].kind = "spawned" => proc[u][h].waiter # "none"
      BY <2>1 DEF TruthInv, TruthOK, EventsTellTheTruth
    <3>2. u \in Ids /\ h \in Gens
      BY <1>3, <2>1
    <3>. QED BY <1>1, <2>1, <3>1, <3>2
  <2>2. CASE ~(k \in DOMAIN events /\ events'[k] = events[k])
    BY <1>1, <2>2
  <2>. QED BY <2>1, <2>2
<1>6. TabShowsItsProcess'
  <2>. SUFFICES ASSUME NEW i \in DOMAIN terminals, NEW u, NEW h, u = terminals[i].id, h = terminals[i].gen
                PROVE  /\ terminals[i].shown \subseteq {h}
                       /\ terminals[i].status = "exited" => proc'[u][h].waiter = "done"
                       /\ terminals[i].status = "running" => proc'[u][h].waiter # "none"
    BY <1>2, <1>3 DEF TabShowsItsProcess
  <2>1. /\ terminals[i].shown \subseteq {h}
        /\ terminals[i].status = "exited" => proc[u][h].waiter = "done"
        /\ terminals[i].status = "running" => proc[u][h].waiter # "none"
    BY <1>3 DEF TruthInv, TruthOK, TabShowsItsProcess
  <2>2. u \in Ids /\ h \in Gens
    BY <1>3
  <2>. QED BY <1>1, <2>1, <2>2
<1>7. ExitIsLast'
  <2>. SUFFICES ASSUME NEW k \in DOMAIN events', events'[k].kind = "output",
                       NEW u, NEW h, u = events'[k].t, h = events'[k].g
                PROVE  /\ \A j \in DOMAIN events' :
                            j < k /\ events'[j].kind = "exited" => ~(events'[j].t = u /\ events'[j].g = h)
                       /\ \A i \in DOMAIN terminals :
                            terminals[i].id = u /\ terminals[i].gen = h => terminals[i].status # "exited"
    BY <1>2 DEF ExitIsLast
  <2>1. CASE k \in DOMAIN events /\ events'[k] = events[k]
    BY <1>1, <2>1 DEF TruthInv, TruthOK, ExitIsLast
  <2>2. CASE ~(k \in DOMAIN events /\ events'[k] = events[k])
    <3>1. u = t /\ h = g /\ proc[t][g].waiter # "done"
      BY <1>1, <2>2
    <3>2. \A j \in DOMAIN events :
            events[j].kind = "exited" => ~(events[j].t = u /\ events[j].g = h)
      BY <3>1 DEF TruthInv, TruthOK, EventsTellTheTruth
    <3>3. \A i \in DOMAIN terminals :
            terminals[i].id = u /\ terminals[i].gen = h => terminals[i].status # "exited"
      BY <1>3, <3>1 DEF TruthInv, TruthOK, TabShowsItsProcess
    <3>. QED BY <1>1, <3>2, <3>3
  <2>. QED BY <2>1, <2>2
<1>. QED BY <1>4, <1>5, <1>6, <1>7 DEF TruthOK

\* An end that was under way stays under way, or is reported.
LEMMA ThreadCancel ==
  ASSUME CancelInv, NEW t, NEW g, ThreadStep(t, g)
  PROVE  CancelOK'
<1>1. /\ \A u \in Ids, h \in Gens :
           /\ ~(u = t /\ h = g) => proc'[u][h] = proc[u][h]
           /\ proc'[u][h].released = proc[u][h].released /\ proc'[u][h].doomed = proc[u][h].doomed
      /\ \A k \in DOMAIN events : k \in DOMAIN events' /\ events'[k] = events[k]
      /\ \A k \in DOMAIN events' :
           \/ k \in DOMAIN events /\ events'[k] = events[k]
           \/ events'[k].kind # "spawned"
      /\ \A j, k \in DOMAIN events' : j < k => j \in DOMAIN events
      /\ proc[t][g].waiter \in {"draining", "holding"} =>
           proc'[t][g].waiter \in {"draining", "holding"} \/ proc[t][g].released \/ EndReported(t, g)'
  BY ThreadFacts DEF CancelInv
<1>2. t \in Ids /\ g \in Gens /\ UNCHANGED <<terminals, active, opened, runs, requests, live>>
  BY DEF ThreadStep
<1>3. \A u, h : Current(u, h)' <=> Current(u, h)
  BY <1>2 DEF Current
<1>4. \A u, h : EndReported(u, h) => EndReported(u, h)'
  BY <1>1 DEF EndReported
<1>5. ReleasesAreMeant'
  <2>1. ASSUME NEW i \in DOMAIN requests', requests'[i].op = "release",
               NEW u, NEW h, u = requests'[i].t, h = requests'[i].g
        PROVE  ~Current(u, h)'
    BY <1>2, <1>3, <2>1 DEF CancelInv, CancelOK, ReleasesAreMeant
  <2>2. \A u \in Ids, h \in Gens : proc'[u][h].released => ~Current(u, h)'
    BY <1>1, <1>3 DEF CancelInv, CancelOK, ReleasesAreMeant
  <2>. QED BY <2>1, <2>2 DEF ReleasesAreMeant, Current
<1>6. SpawnedIsFirst'
  BY <1>1, <1>2 DEF CancelInv, CancelOK, SpawnedIsFirst
<1>7. RunsFollowTheirTabs'
  BY <1>2 DEF CancelInv, CancelOK, RunsFollowTheirTabs
<1>8. \A r \in DOMAIN runs : runs[r].terminal \in Ids
  BY Fields DEF CancelInv, TabsInv
<1>9. RunsAreServed'
  <2>. SUFFICES ASSUME NEW r \in DOMAIN runs, NEW u, u = runs[r].terminal,
                       Unfinished(runs[r]), Current(u, 1), live[u] = 0
                PROVE  \/ \E j \in DOMAIN requests : requests[j].op = "spawn" /\ requests[j].t = u /\ requests[j].g = 1
                       \/ EndReported(u, 1)'
    BY <1>2, <1>3 DEF RunsAreServed, EndReported, Unfinished, Current
  <2>. QED BY <1>4 DEF CancelInv, CancelOK, RunsAreServed
<1>10. CancelServed'
  <2>. SUFFICES ASSUME NEW r \in DOMAIN runs, NEW u, u = runs[r].terminal,
                       Unfinished(runs[r]), runs[r].cancel, Current(u, 1)
                PROVE  \/ \E j \in DOMAIN requests : requests[j].op = "kill" /\ requests[j].t = u /\ requests[j].g = 1
                       \/ proc'[u][1].doomed \/ proc'[u][1].waiter \in {"draining", "holding"}
                       \/ EndReported(u, 1)'
    BY <1>2, <1>3 DEF CancelServed, EndReported, Unfinished, Current
  <2>0. u \in Ids /\ 1 \in Gens
    BY <1>2, <1>8, Numbers DEF Gens
  <2>1. \/ \E j \in DOMAIN requests : requests[j].op = "kill" /\ requests[j].t = u /\ requests[j].g = 1
        \/ proc[u][1].doomed \/ proc[u][1].waiter \in {"draining", "holding"}
        \/ EndReported(u, 1)
    BY DEF CancelInv, CancelOK, CancelServed
  <2>2. ~proc[u][1].released
    BY <2>0 DEF CancelInv, CancelOK, ReleasesAreMeant
  <2>3. proc[u][1].waiter \in {"draining", "holding"} =>
          proc'[u][1].waiter \in {"draining", "holding"} \/ EndReported(u, 1)'
    BY <1>1, <2>0, <2>2
  <2>. QED BY <1>1, <1>4, <2>0, <2>1, <2>3
<1>. QED BY <1>5, <1>6, <1>7, <1>9, <1>10 DEF CancelOK

----------------------------------------------------------------------------
(***************************************************************************)
(* The loop                                                                *)
(***************************************************************************)

\* A tab is found by its id.
LEMMA Found ==
  ASSUME Kinds, Distinct
  PROVE  /\ \A t : IsOpen(t) => /\ IndexOf(t) \in DOMAIN terminals /\ terminals[IndexOf(t)].id = t
                                /\ SessionOf(t) = terminals[IndexOf(t)]
         /\ \A i \in DOMAIN terminals : /\ IsOpen(terminals[i].id) /\ IndexOf(terminals[i].id) = i
                                        /\ SessionOf(terminals[i].id) = terminals[i]
<1>1. DOMAIN terminals = 1..Len(terminals)
  BY DEF Kinds
<1>2. \A t : IsOpen(t) => IndexOf(t) \in DOMAIN terminals /\ terminals[IndexOf(t)].id = t
  BY <1>1 DEF IsOpen, IndexOf, IndexesOf
<1>3. \A i \in DOMAIN terminals : IsOpen(terminals[i].id)
  BY <1>1 DEF IsOpen, IndexesOf
<1>. QED BY <1>2, <1>3 DEF SessionOf, Distinct

\* Tab s becomes x, and run r becomes q, when event e of their process is heard.
TabHears(s, x, e) ==
  /\ x.id = s.id /\ x.gen = s.gen /\ x.released = s.released
  /\ x.shown \subseteq s.shown \cup {e.g}
  /\ \/ e.kind = "spawned" /\ x.status = "running"
     \/ e.kind = "output" /\ x.status = s.status
     \/ e.kind = "exited" /\ x.status = "exited"
     \/ e.kind = "failed" /\ x.status = IF s.status = "exited" THEN "exited" ELSE "failed"
RunHears(r, q, e) ==
  /\ q.terminal = r.terminal /\ q.cancel = r.cancel
  /\ \/ e.kind = "spawned" /\ q.status = "running"
     \/ e.kind = "output" /\ q = r
     \/ e.kind \in {"exited", "failed"} /\ ~Unfinished(q)
     \/ /\ e.kind = "failed" /\ q = r
        /\ \E i \in DOMAIN terminals :
             terminals[i].id = e.t /\ terminals[i].gen = e.g /\ terminals[i].status = "exited"

\* The oldest event is heard by the tab and the runs of its process, if it is present.
Hears ==
  LET e == events[1]
  IN /\ events # <<>> /\ events' = Tail(events)
     /\ UNCHANGED <<active, opened, requests, live, proc>>
     /\ terminals' \in Seq(Session) /\ DOMAIN terminals' = DOMAIN terminals
     /\ \A i \in DOMAIN terminals :
          \/ terminals[i].id = e.t /\ terminals[i].gen = e.g /\ ~terminals[i].released
             /\ TabHears(terminals[i], terminals'[i], e)
          \/ ~(terminals[i].id = e.t /\ terminals[i].gen = e.g /\ ~terminals[i].released)
             /\ terminals'[i] = terminals[i]
     /\ runs' \in Seq(Run) /\ DOMAIN runs' = DOMAIN runs
     /\ \A r \in DOMAIN runs :
          \/ runs[r].terminal = e.t /\ Current(e.t, e.g) /\ RunHears(runs[r], runs'[r], e)
          \/ ~(runs[r].terminal = e.t /\ Current(e.t, e.g)) /\ runs'[r] = runs[r]

\* Every step of the loop is one.
LEMMA LoopCases ==
  ASSUME TabsInv, Loop
  PROVE  Hears
<1>. DEFINE e == events[1]
            k == IndexOf(e.t)
<1>0. /\ terminals \in Seq(Session) /\ runs \in Seq(Run) /\ events \in Seq(Event)
      /\ DOMAIN runs = 1..Len(runs)
      /\ \A i, j \in DOMAIN terminals : terminals[i].id = terminals[j].id => i = j
  BY DEF TabsInv, Kinds, Distinct
<1>1. /\ events # <<>> /\ events' = Tail(events) /\ Head(events) = e
      /\ UNCHANGED <<active, opened, requests, live, proc>>
  <2>1. events # <<>> /\ events' = Tail(events) /\ UNCHANGED <<active, opened, requests, live, proc>>
    BY DEF Loop, DropStaleEvent, OnSpawned, OnOutput, OnExited, OnFailed, Took, model, service
  <2>. QED BY <1>0, <2>1
<1>2. 1 \in DOMAIN events /\ e.t \in Ids /\ e.g \in Gens
  <2>1. 1 \in DOMAIN events
    BY <1>0, <1>1
  <2>. QED BY <2>1, Fields DEF TabsInv
<1>3. IsForCurrent(e) <=> Current(e.t, e.g)
  <2>1. IsForCurrent(e) => Current(e.t, e.g)
    BY Found DEF IsForCurrent, Current, TabsInv
  <2>2. Current(e.t, e.g) => IsForCurrent(e)
    BY Found DEF IsForCurrent, Current, TabsInv
  <2>. QED BY <2>1, <2>2
<1>4. CASE DropStaleEvent
  <2>1. ~Current(e.t, e.g) /\ UNCHANGED <<terminals, runs>>
    BY <1>1, <1>3, <1>4 DEF DropStaleEvent, model
  <2>. QED BY <1>0, <1>1, <2>1 DEF Hears, Current
<1>5. ASSUME IsForCurrent(e)
      PROVE  /\ k \in DOMAIN terminals /\ terminals[k].id = e.t /\ terminals[k].gen = e.g
             /\ ~terminals[k].released /\ SessionOf(e.t) = terminals[k] /\ Current(e.t, e.g)
             /\ terminals[k] \in Session
             /\ \A i \in DOMAIN terminals : terminals[i].id = e.t => i = k
  BY <1>0, <1>3, <1>5, Found DEF IsForCurrent, TabsInv
\* It suffices to look at the tab and the runs that hear it.
<1>6. ASSUME IsForCurrent(e), NEW x \in Session, TabHears(terminals[k], x, e),
             terminals' = [terminals EXCEPT ![k] = x],
             NEW R, \A i \in DOMAIN runs : R[i] \in Run /\ RunHears(runs[i], R[i], e),
             runs' = [i \in 1..Len(runs) |-> IF i \in RunsOn(e.t) THEN R[i] ELSE runs[i]]
      PROVE  Hears
  <2>1. terminals' \in Seq(Session) /\ DOMAIN terminals' = DOMAIN terminals
    BY <1>0, <1>5, <1>6
  <2>2. \A i \in DOMAIN terminals :
          \/ terminals[i].id = e.t /\ terminals[i].gen = e.g /\ ~terminals[i].released
             /\ TabHears(terminals[i], terminals'[i], e)
          \/ ~(terminals[i].id = e.t /\ terminals[i].gen = e.g /\ ~terminals[i].released)
             /\ terminals'[i] = terminals[i]
    <3>1. terminals'[k] = x /\ \A i \in DOMAIN terminals : i # k => terminals'[i] = terminals[i]
      BY <1>0, <1>5, <1>6
    <3>. QED BY <1>5, <1>6, <3>1
  <2>3. \A i \in DOMAIN runs : i \in RunsOn(e.t) <=> runs[i].terminal = e.t
    BY <1>0 DEF RunsOn
  <2>4. runs' \in Seq(Run) /\ DOMAIN runs' = DOMAIN runs
    <3>1. \A i \in 1..Len(runs) : (IF i \in RunsOn(e.t) THEN R[i] ELSE runs[i]) \in Run
      BY <1>0, <1>6
    <3>. QED BY <1>0, <1>6, <3>1
  <2>5. \A i \in DOMAIN runs :
          \/ runs[i].terminal = e.t /\ Current(e.t, e.g) /\ RunHears(runs[i], runs'[i], e)
          \/ ~(runs[i].terminal = e.t /\ Current(e.t, e.g)) /\ runs'[i] = runs[i]
    BY <1>0, <1>5, <1>6, <2>3
  <2>. QED BY <1>1, <2>1, <2>2, <2>4, <2>5 DEF Hears
<1>7. ASSUME NEW i \in DOMAIN runs, NEW st \in RunStatuses
      PROVE  LET q == [runs[i] EXCEPT !.status = st]
             IN q \in Run /\ q.terminal = runs[i].terminal /\ q.cancel = runs[i].cancel /\ q.status = st
  <2>1. runs[i] \in Run
    BY <1>0
  <2>. QED BY <2>1 DEF Run
<1>8. ASSUME IsForCurrent(e), NEW st \in Statuses
      PROVE  LET x == [terminals[k] EXCEPT !.status = st]
             IN /\ x \in Session /\ x.id = terminals[k].id /\ x.gen = terminals[k].gen
                /\ x.released = terminals[k].released /\ x.shown = terminals[k].shown /\ x.status = st
  <2>1. terminals[k] \in Session
    BY <1>5, <1>8
  <2>. QED BY <2>1 DEF Session
\* A status for the tab and its runs
<1>9. ASSUME IsForCurrent(e), NEW st \in Statuses, terminals' = [terminals EXCEPT ![k].status = st],
             TabHears(terminals[k], [terminals[k] EXCEPT !.status = st], e),
             NEW R, \A i \in DOMAIN runs : R[i] \in Run /\ RunHears(runs[i], R[i], e),
             runs' = [i \in 1..Len(runs) |-> IF i \in RunsOn(e.t) THEN R[i] ELSE runs[i]]
      PROVE  Hears
  <2>. DEFINE x == [terminals[k] EXCEPT !.status = st]
  <2>1. x \in Session
    BY <1>8, <1>9
  <2>2. terminals' = [terminals EXCEPT ![k] = x]
    BY <1>9
  <2>3. TabHears(terminals[k], x, e)
    BY <1>9
  <2>. HIDE DEF x
  <2>. QED BY <1>6, <1>9, <2>1, <2>2, <2>3
<1>10. CASE OnSpawned
  <2>. DEFINE R == [i \in 1..Len(runs) |-> [runs[i] EXCEPT !.status = "running"]]
  <2>1. /\ IsForCurrent(e) /\ e.kind = "spawned" /\ terminals' = [terminals EXCEPT ![k].status = "running"]
        /\ runs' = [i \in 1..Len(runs) |-> IF i \in RunsOn(e.t) THEN [runs[i] EXCEPT !.status = "running"] ELSE runs[i]]
    BY <1>1, <1>10 DEF OnSpawned, WithRun
  <2>2. runs' = [i \in 1..Len(runs) |-> IF i \in RunsOn(e.t) THEN R[i] ELSE runs[i]]
    BY <2>1
  <2>3. \A i \in DOMAIN runs : R[i] \in Run /\ RunHears(runs[i], R[i], e)
    <3>1. \A i \in DOMAIN runs : R[i] = [runs[i] EXCEPT !.status = "running"]
      BY <1>0
    <3>2. "running" \in RunStatuses
      BY DEF RunStatuses
    <3>3. ASSUME NEW i \in DOMAIN runs
          PROVE  /\ R[i] \in Run /\ R[i].terminal = runs[i].terminal /\ R[i].cancel = runs[i].cancel
                 /\ R[i].status = "running"
      <4>. DEFINE st == "running"
      <4>1. st \in RunStatuses /\ st = "running" /\ R[i] = [runs[i] EXCEPT !.status = st]
        BY <3>1, <3>2
      <4>. HIDE DEF R, st
      <4>. QED BY <1>7, <4>1
    <3>. HIDE DEF R
    <3>. QED BY <2>1, <3>3 DEF RunHears
  <2>4. "running" \in Statuses
    BY DEF Statuses
  <2>5. TabHears(terminals[k], [terminals[k] EXCEPT !.status = "running"], e)
    BY <1>8, <2>1, <2>4 DEF TabHears
  <2>. HIDE DEF R
  <2>. QED BY <1>9, <2>1, <2>2, <2>3, <2>4, <2>5
<1>11. CASE OnOutput
  <2>1. /\ IsForCurrent(e) /\ e.kind = "output" /\ runs' = runs
        /\ terminals' = IF IsLive(SessionOf(e.t))
                        THEN [terminals EXCEPT ![k].shown = @ \cup {e.g}] ELSE terminals
    BY <1>1, <1>11 DEF OnOutput
  <2>2. runs' = [i \in 1..Len(runs) |-> IF i \in RunsOn(e.t) THEN runs[i] ELSE runs[i]]
    BY <1>0, <2>1
  <2>3. \A i \in DOMAIN runs : runs[i] \in Run /\ RunHears(runs[i], runs[i], e)
    BY <1>0, <2>1 DEF RunHears
  <2>4. terminals[k] \in Session
    BY <1>5, <2>1
  <2>5. CASE terminals' = [terminals EXCEPT ![k].shown = @ \cup {e.g}]
    <3>. DEFINE x == [terminals[k] EXCEPT !.shown = @ \cup {e.g}]
    <3>1. /\ x \in Session /\ x.id = terminals[k].id /\ x.gen = terminals[k].gen
          /\ x.released = terminals[k].released /\ x.shown = terminals[k].shown \cup {e.g}
          /\ x.status = terminals[k].status
      BY <1>2, <2>4 DEF Session
    <3>2. terminals' = [terminals EXCEPT ![k] = x]
      BY <2>5
    <3>. HIDE DEF x
    <3>3. TabHears(terminals[k], x, e)
      BY <2>1, <3>1 DEF TabHears
    <3>. QED BY <1>6, <2>1, <2>2, <2>3, <3>1, <3>2, <3>3
  <2>6. CASE terminals' = terminals
    <3>1. terminals' = [terminals EXCEPT ![k] = terminals[k]]
      BY <1>0, <2>6
    <3>2. TabHears(terminals[k], terminals[k], e)
      BY <2>1 DEF TabHears
    <3>. QED BY <1>6, <2>1, <2>2, <2>3, <2>4, <3>1, <3>2
  <2>. QED BY <2>1, <2>5, <2>6
<1>12. CASE OnExited
  <2>. DEFINE verdict(r) == IF r.cancel THEN "cancelled" ELSE IF e.ok THEN "succeeded" ELSE "failed"
              R == [i \in 1..Len(runs) |-> [runs[i] EXCEPT !.status = verdict(runs[i])]]
  <2>1. /\ IsForCurrent(e) /\ e.kind = "exited" /\ terminals' = [terminals EXCEPT ![k].status = "exited"]
        /\ runs' = [i \in 1..Len(runs) |->
             IF i \in RunsOn(e.t) THEN [runs[i] EXCEPT !.status = verdict(runs[i])] ELSE runs[i]]
    BY <1>1, <1>12 DEF OnExited, WithRun
  <2>2. runs' = [i \in 1..Len(runs) |-> IF i \in RunsOn(e.t) THEN R[i] ELSE runs[i]]
    BY <2>1
  <2>3. \A i \in DOMAIN runs : R[i] \in Run /\ RunHears(runs[i], R[i], e)
    <3>1. \A i \in DOMAIN runs : R[i] = [runs[i] EXCEPT !.status = verdict(runs[i])]
      BY <1>0
    <3>2. \A i \in DOMAIN runs : verdict(runs[i]) \in RunStatuses /\ verdict(runs[i]) \notin {"starting", "running"}
      BY DEF RunStatuses
    <3>3. ASSUME NEW i \in DOMAIN runs
          PROVE  /\ R[i] \in Run /\ R[i].terminal = runs[i].terminal /\ R[i].cancel = runs[i].cancel
                 /\ R[i].status \notin {"starting", "running"}
      <4>. DEFINE st == verdict(runs[i])
      <4>1. st \in RunStatuses /\ st \notin {"starting", "running"} /\ R[i] = [runs[i] EXCEPT !.status = st]
        BY <3>1, <3>2
      <4>. HIDE DEF R, st
      <4>. QED BY <1>7, <4>1
    <3>. HIDE DEF R
    <3>. QED BY <2>1, <3>3 DEF RunHears, Unfinished
  <2>4. "exited" \in Statuses
    BY DEF Statuses
  <2>5. TabHears(terminals[k], [terminals[k] EXCEPT !.status = "exited"], e)
    BY <1>8, <2>1, <2>4 DEF TabHears
  <2>. HIDE DEF R
  <2>. QED BY <1>9, <2>1, <2>2, <2>3, <2>4, <2>5
<1>13. CASE OnFailed
  <2>1. IsForCurrent(e) /\ e.kind = "failed"
    BY <1>1, <1>13 DEF OnFailed
  <2>2. CASE SessionOf(e.t).status = "exited"
    <3>1. UNCHANGED <<terminals, runs>> /\ terminals[k].status = "exited"
      BY <1>1, <1>5, <1>13, <2>1, <2>2 DEF OnFailed
    <3>2. runs' = [i \in 1..Len(runs) |-> IF i \in RunsOn(e.t) THEN runs[i] ELSE runs[i]]
      BY <1>0, <3>1
    <3>3. \A i \in DOMAIN runs : runs[i] \in Run /\ RunHears(runs[i], runs[i], e)
      BY <1>0, <1>5, <2>1, <3>1 DEF RunHears
    <3>4. terminals' = [terminals EXCEPT ![k] = terminals[k]]
      BY <1>0, <3>1
    <3>5. TabHears(terminals[k], terminals[k], e)
      BY <2>1, <3>1 DEF TabHears
    <3>6. terminals[k] \in Session
      BY <1>5, <2>1
    <3>. QED BY <1>6, <2>1, <3>2, <3>3, <3>4, <3>5, <3>6
  <2>3. CASE SessionOf(e.t).status # "exited"
    <3>. DEFINE R == [i \in 1..Len(runs) |-> [runs[i] EXCEPT !.status = "failed"]]
    <3>1. /\ terminals' = [terminals EXCEPT ![k].status = "failed"] /\ terminals[k].status # "exited"
          /\ runs' = [i \in 1..Len(runs) |-> IF i \in RunsOn(e.t) THEN [runs[i] EXCEPT !.status = "failed"] ELSE runs[i]]
      BY <1>1, <1>5, <1>13, <2>1, <2>3 DEF OnFailed, WithRun
    <3>2. runs' = [i \in 1..Len(runs) |-> IF i \in RunsOn(e.t) THEN R[i] ELSE runs[i]]
      BY <3>1
    <3>3. \A i \in DOMAIN runs : R[i] \in Run /\ RunHears(runs[i], R[i], e)
      <4>1. \A i \in DOMAIN runs : R[i] = [runs[i] EXCEPT !.status = "failed"]
        BY <1>0
      <4>2. "failed" \in RunStatuses
        BY DEF RunStatuses
      <4>3. ASSUME NEW i \in DOMAIN runs
            PROVE  /\ R[i] \in Run /\ R[i].terminal = runs[i].terminal /\ R[i].cancel = runs[i].cancel
                   /\ R[i].status = "failed"
        <5>. DEFINE st == "failed"
        <5>1. st \in RunStatuses /\ st = "failed" /\ R[i] = [runs[i] EXCEPT !.status = st]
          BY <4>1, <4>2
        <5>. HIDE DEF R, st
        <5>. QED BY <1>7, <5>1
      <4>. HIDE DEF R
      <4>. QED BY <2>1, <4>3 DEF RunHears, Unfinished
    <3>4. "failed" \in Statuses
      BY DEF Statuses
    <3>5. TabHears(terminals[k], [terminals[k] EXCEPT !.status = "failed"], e)
      BY <1>8, <2>1, <3>1, <3>4 DEF TabHears
    <3>. HIDE DEF R
    <3>. QED BY <1>9, <2>1, <3>1, <3>2, <3>3, <3>4, <3>5
  <2>. QED BY <2>2, <2>3
<1>. QED BY <1>4, <1>10, <1>11, <1>12, <1>13 DEF Loop

\* What hearing an event leaves as it was
LEMMA HearsFacts ==
  ASSUME TabsInv, Hears
  PROVE  /\ UNCHANGED <<active, opened, requests, live, proc>> /\ 1 \in DOMAIN events
         /\ events' \in Seq(Event) /\ DOMAIN terminals' = DOMAIN terminals /\ DOMAIN runs' = DOMAIN runs
         /\ \A i \in DOMAIN terminals :
              /\ terminals'[i].id = terminals[i].id /\ terminals'[i].gen = terminals[i].gen
              /\ terminals'[i].released = terminals[i].released
         /\ \A r \in DOMAIN runs : runs'[r].terminal = runs[r].terminal /\ runs'[r].cancel = runs[r].cancel
         /\ \A k \in DOMAIN events' : k + 1 \in DOMAIN events /\ events'[k] = events[k + 1] /\ k \in Nat /\ k >= 1
         /\ \A k \in DOMAIN events : k = 1 \/ (k - 1 \in DOMAIN events' /\ events'[k - 1] = events[k])
         /\ \A t, g : Known(t, g)' <=> Known(t, g)
         /\ \A t, g : Current(t, g)' <=> Current(t, g)
<1>1. events # <<>> /\ events' = Tail(events) /\ events \in Seq(Event)
  BY DEF Hears, TabsInv, Kinds
<1>2. /\ 1 \in DOMAIN events /\ events' \in Seq(Event)
      /\ \A k \in DOMAIN events' : k + 1 \in DOMAIN events /\ events'[k] = events[k + 1] /\ k \in Nat /\ k >= 1
      /\ \A k \in DOMAIN events : k = 1 \/ (k - 1 \in DOMAIN events' /\ events'[k - 1] = events[k])
  BY <1>1
<1>3. /\ UNCHANGED <<active, opened, requests, live, proc>>
      /\ DOMAIN terminals' = DOMAIN terminals /\ DOMAIN runs' = DOMAIN runs
  BY DEF Hears
<1>4. \A i \in DOMAIN terminals :
        /\ terminals'[i].id = terminals[i].id /\ terminals'[i].gen = terminals[i].gen
        /\ terminals'[i].released = terminals[i].released
  BY DEF Hears, TabHears
<1>5. \A r \in DOMAIN runs : runs'[r].terminal = runs[r].terminal /\ runs'[r].cancel = runs[r].cancel
  BY DEF Hears, RunHears
<1>6. \A t, g : Known(t, g)' <=> Known(t, g)
  BY <1>3, <1>4 DEF Known
<1>7. \A t, g : Current(t, g)' <=> Current(t, g)
  BY <1>3, <1>4 DEF Current
<1>. QED BY <1>2, <1>3, <1>4, <1>5, <1>6, <1>7

\* Hearing asks for nothing.
LEMMA HearsTabs ==
  ASSUME TabsInv, Hears
  PROVE  TabsInv'
<1>1. /\ UNCHANGED <<active, opened, requests, live, proc>> /\ 1 \in DOMAIN events
      /\ events' \in Seq(Event) /\ DOMAIN terminals' = DOMAIN terminals /\ DOMAIN runs' = DOMAIN runs
      /\ \A i \in DOMAIN terminals :
           /\ terminals'[i].id = terminals[i].id /\ terminals'[i].gen = terminals[i].gen
      /\ \A r \in DOMAIN runs : runs'[r].terminal = runs[r].terminal
      /\ \A k \in DOMAIN events' : k + 1 \in DOMAIN events /\ events'[k] = events[k + 1]
      /\ \A t, g : Known(t, g)' <=> Known(t, g)
      /\ \A t, g : Current(t, g)' <=> Current(t, g)
  BY HearsFacts
<1>2. Kinds'
  <2>1. terminals' \in Seq(Session) /\ runs' \in Seq(Run) /\ terminals \in Seq(Session)
    BY DEF Hears, TabsInv, Kinds
  <2>2. Len(terminals') = Len(terminals)
    BY <1>1, <2>1
  <2>. QED BY <1>1, <2>1, <2>2 DEF TabsInv, Kinds
<1>3. Distinct'
  BY <1>1 DEF TabsInv, Distinct
<1>4. AllKnown'
  <2>1. ASSUME NEW u \in Ids, NEW h \in Gens, Mentioned(u, h)' PROVE Mentioned(u, h)
    BY <1>1, <2>1 DEF Mentioned
  <2>. QED BY <1>1, <2>1 DEF AllKnown, TabsInv
<1>5. LiveFits' /\ SpawnFits'
  BY <1>1 DEF TabsInv, RequestsFit, LiveFits, SpawnFits, Releases
<1>6. LiveEnds'
  <2>. SUFFICES ASSUME NEW u \in Ids, NEW h, h = live[u], h # 0
                PROVE  Current(u, h)' \/ \E j \in DOMAIN requests : Releases(j, u, h)
    BY <1>1 DEF LiveEnds, Releases, Current
  <2>. QED BY <1>1 DEF TabsInv, RequestsFit, LiveEnds
<1>7. SpawnEnds'
  <2>. SUFFICES ASSUME NEW k \in DOMAIN requests, requests[k].op = "spawn",
                       NEW u, NEW h, u = requests[k].t, h = requests[k].g
                PROVE  Current(u, h)' \/ \E j \in DOMAIN requests : k < j /\ Releases(j, u, h)
    BY <1>1 DEF SpawnEnds, Releases, Current
  <2>. QED BY <1>1 DEF TabsInv, RequestsFit, SpawnEnds
<1>8. SpawnsAreNew'
  <2>. SUFFICES ASSUME NEW k \in DOMAIN requests, requests[k].op = "spawn",
                       NEW u, NEW h, u = requests[k].t, h = requests[k].g
                PROVE  /\ Unborn(u, h)'
                       /\ \A j \in DOMAIN requests : j < k /\ requests[j].t = u => requests[j].g < h
    BY <1>1 DEF SpawnsAreNew, Unborn
  <2>1. /\ Unborn(u, h)
        /\ \A j \in DOMAIN requests : j < k /\ requests[j].t = u => requests[j].g < h
    BY DEF TabsInv, SpawnsAreNew
  <2>2. ~(events[1].t = u /\ events[1].g = h)
    BY <1>1, <2>1 DEF Unborn
  <2>3. \A i \in DOMAIN terminals' :
          terminals'[i].id = u /\ terminals'[i].gen = h => terminals'[i].status = "starting"
    BY <1>1, <2>1, <2>2 DEF Unborn, Hears
  <2>4. proc'[u][h] = NoProc /\ live'[u] # h
    BY <1>1, <2>1 DEF Unborn
  <2>5. \A f \in DOMAIN events' : ~(events'[f].t = u /\ events'[f].g = h)
    BY <1>1, <2>1 DEF Unborn
  <2>6. Unborn(u, h)'
    BY <2>3, <2>4, <2>5 DEF Unborn
  <2>. QED BY <2>1, <2>6
<1>. QED BY <1>2, <1>3, <1>4, <1>5, <1>6, <1>7, <1>8 DEF TabsInv, RequestsFit

\* A tab that hears of its process says what the process did.
LEMMA HearsTruth ==
  ASSUME TruthInv, Hears
  PROVE  TruthOK'
<1>. DEFINE e == events[1]
<1>1. /\ UNCHANGED proc /\ 1 \in DOMAIN events /\ DOMAIN terminals' = DOMAIN terminals
      /\ \A i \in DOMAIN terminals :
           /\ terminals'[i].id = terminals[i].id /\ terminals'[i].gen = terminals[i].gen
      /\ \A k \in DOMAIN events' : k + 1 \in DOMAIN events /\ events'[k] = events[k + 1] /\ k \in Nat /\ k >= 1
  BY HearsFacts DEF TruthInv
<1>2. \A i \in DOMAIN terminals :
        \/ terminals[i].id = e.t /\ terminals[i].gen = e.g /\ TabHears(terminals[i], terminals'[i], e)
        \/ terminals'[i] = terminals[i]
  BY DEF Hears
<1>3. DOMAIN terminals = 1..Len(terminals) /\ DOMAIN terminals' = 1..Len(terminals')
  BY DEF TruthInv, TabsInv, Kinds, Hears
<1>4. ThreadsInOrder'
  BY <1>1 DEF TruthInv, TruthOK, ThreadsInOrder
<1>5. EventsTellTheTruth'
  BY <1>1 DEF TruthInv, TruthOK, EventsTellTheTruth
<1>6. TabShowsItsProcess'
  <2>. SUFFICES ASSUME NEW i \in DOMAIN terminals, NEW u, NEW h, u = terminals[i].id, h = terminals[i].gen
                PROVE  /\ terminals'[i].shown \subseteq {h}
                       /\ terminals'[i].status = "exited" => proc[u][h].waiter = "done"
                       /\ terminals'[i].status = "running" => proc[u][h].waiter # "none"
    BY <1>1, <1>3 DEF TabShowsItsProcess
  <2>1. /\ terminals[i].shown \subseteq {h}
        /\ terminals[i].status = "exited" => proc[u][h].waiter = "done"
        /\ terminals[i].status = "running" => proc[u][h].waiter # "none"
    BY <1>3 DEF TruthInv, TruthOK, TabShowsItsProcess
  <2>2. CASE u = e.t /\ h = e.g /\ TabHears(terminals[i], terminals'[i], e)
    <3>1. /\ e.kind = "exited" => proc[u][h].waiter = "done"
          /\ e.kind = "spawned" => proc[u][h].waiter # "none"
      BY <1>1, <2>2 DEF TruthInv, TruthOK, EventsTellTheTruth
    <3>2. terminals'[i].shown \subseteq {h}
      BY <2>1, <2>2 DEF TabHears
    <3>. QED BY <2>1, <2>2, <3>1, <3>2 DEF TabHears
  <2>. QED BY <1>2, <2>1, <2>2
<1>7. ExitIsLast'
  <2>. SUFFICES ASSUME NEW k \in DOMAIN events', events'[k].kind = "output",
                       NEW u, NEW h, u = events'[k].t, h = events'[k].g
                PROVE  /\ \A j \in DOMAIN events' :
                            j < k /\ events'[j].kind = "exited" => ~(events'[j].t = u /\ events'[j].g = h)
                       /\ \A i \in DOMAIN terminals :
                            terminals[i].id = u /\ terminals[i].gen = h => terminals'[i].status # "exited"
    BY <1>1 DEF ExitIsLast
  <2>1. k + 1 \in DOMAIN events /\ events'[k] = events[k + 1] /\ 1 < k + 1
    BY <1>1
  <2>2. /\ \A j \in DOMAIN events :
             j < k + 1 /\ events[j].kind = "exited" => ~(events[j].t = u /\ events[j].g = h)
        /\ \A i \in DOMAIN terminals :
             terminals[i].id = u /\ terminals[i].gen = h => terminals[i].status # "exited"
    BY <2>1 DEF TruthInv, TruthOK, ExitIsLast
  <2>3. ASSUME NEW j \in DOMAIN events', j < k, events'[j].kind = "exited"
        PROVE  ~(events'[j].t = u /\ events'[j].g = h)
    <3>1. j + 1 \in DOMAIN events /\ events'[j] = events[j + 1] /\ j + 1 < k + 1
      BY <1>1, <2>3
    <3>. QED BY <2>2, <2>3, <3>1
  <2>4. e.kind = "exited" => ~(e.t = u /\ e.g = h)
    BY <1>1, <2>1, <2>2
  <2>5. ASSUME NEW i \in DOMAIN terminals, terminals[i].id = u, terminals[i].gen = h
        PROVE  terminals'[i].status # "exited"
    BY <1>2, <2>2, <2>4, <2>5 DEF TabHears
  <2>. QED BY <2>3, <2>5
<1>. QED BY <1>4, <1>5, <1>6, <1>7 DEF TruthOK

\* A run that hears of its process is finished when the process has ended.
LEMMA HearsCancel ==
  ASSUME CancelInv, Hears
  PROVE  CancelOK'
<1>. DEFINE e == events[1]
<1>1. /\ UNCHANGED <<requests, live, proc>> /\ 1 \in DOMAIN events
      /\ DOMAIN terminals' = DOMAIN terminals /\ DOMAIN runs' = DOMAIN runs
      /\ \A i \in DOMAIN terminals :
           /\ terminals'[i].id = terminals[i].id /\ terminals'[i].gen = terminals[i].gen
      /\ \A r \in DOMAIN runs : runs'[r].terminal = runs[r].terminal /\ runs'[r].cancel = runs[r].cancel
      /\ \A k \in DOMAIN events' : k + 1 \in DOMAIN events /\ events'[k] = events[k + 1] /\ k \in Nat /\ k >= 1
      /\ \A k \in DOMAIN events : k = 1 \/ (k - 1 \in DOMAIN events' /\ events'[k - 1] = events[k])
      /\ \A t, g : Current(t, g)' <=> Current(t, g)
  BY HearsFacts DEF CancelInv
<1>2. /\ \A i \in DOMAIN terminals :
           \/ terminals[i].id = e.t /\ terminals[i].gen = e.g /\ ~terminals[i].released
              /\ TabHears(terminals[i], terminals'[i], e)
           \/ ~(terminals[i].id = e.t /\ terminals[i].gen = e.g /\ ~terminals[i].released)
              /\ terminals'[i] = terminals[i]
      /\ \A r \in DOMAIN runs :
           \/ runs[r].terminal = e.t /\ Current(e.t, e.g) /\ RunHears(runs[r], runs'[r], e)
           \/ ~(runs[r].terminal = e.t /\ Current(e.t, e.g)) /\ runs'[r] = runs[r]
  BY DEF Hears
<1>3. \A i, j \in DOMAIN terminals : terminals[i].id = terminals[j].id => i = j
  BY DEF CancelInv, TabsInv, Distinct
<1>4. ReleasesAreMeant'
  <2>1. ASSUME NEW i \in DOMAIN requests', requests'[i].op = "release",
               NEW u, NEW h, u = requests'[i].t, h = requests'[i].g
        PROVE  ~Current(u, h)'
    BY <1>1, <2>1 DEF CancelInv, CancelOK, ReleasesAreMeant
  <2>2. \A u \in Ids, h \in Gens : proc'[u][h].released => ~Current(u, h)'
    BY <1>1 DEF CancelInv, CancelOK, ReleasesAreMeant
  <2>. QED BY <2>1, <2>2 DEF ReleasesAreMeant, Current
<1>5. SpawnedIsFirst'
  <2>. SUFFICES ASSUME NEW k \in DOMAIN events', events'[k].kind = "spawned",
                       NEW u, NEW h, u = events'[k].t, h = events'[k].g
                PROVE  /\ \A j \in DOMAIN events' : j < k => ~(events'[j].t = u /\ events'[j].g = h)
                       /\ \A i \in DOMAIN terminals :
                            terminals[i].id = u /\ terminals[i].gen = h => terminals'[i].status = "starting"
    BY <1>1 DEF SpawnedIsFirst
  <2>1. k + 1 \in DOMAIN events /\ events'[k] = events[k + 1] /\ 1 < k + 1
    BY <1>1
  <2>2. /\ \A j \in DOMAIN events : j < k + 1 => ~(events[j].t = u /\ events[j].g = h)
        /\ \A i \in DOMAIN terminals :
             terminals[i].id = u /\ terminals[i].gen = h => terminals[i].status = "starting"
    BY <2>1 DEF CancelInv, CancelOK, SpawnedIsFirst
  <2>3. ASSUME NEW j \in DOMAIN events', j < k PROVE ~(events'[j].t = u /\ events'[j].g = h)
    <3>1. j + 1 \in DOMAIN events /\ events'[j] = events[j + 1] /\ j + 1 < k + 1
      BY <1>1, <2>3
    <3>. QED BY <2>2, <3>1
  <2>4. ~(e.t = u /\ e.g = h)
    BY <1>1, <2>1, <2>2
  <2>5. ASSUME NEW i \in DOMAIN terminals, terminals[i].id = u, terminals[i].gen = h
        PROVE  terminals'[i].status = "starting"
    BY <1>2, <2>2, <2>4, <2>5
  <2>. QED BY <2>3, <2>5
\* Of a run on the present process, before the event is heard
<1>6. ASSUME NEW r \in DOMAIN runs, NEW i \in DOMAIN terminals,
             terminals[i].id = runs[r].terminal, terminals[i].gen = 1
      PROVE  /\ terminals[i].status = "starting" => Unfinished(runs[r])
             /\ terminals[i].status = "exited" => ~Unfinished(runs[r])
  BY <1>6 DEF CancelInv, CancelOK, RunsFollowTheirTabs
<1>7. RunsFollowTheirTabs'
  <2>. SUFFICES ASSUME NEW r \in DOMAIN runs, NEW i \in DOMAIN terminals,
                       terminals[i].id = runs[r].terminal, terminals[i].gen = 1
                PROVE  /\ terminals'[i].status = "starting" => Unfinished(runs'[r])
                       /\ terminals'[i].status = "exited" => ~Unfinished(runs'[r])
    BY <1>1 DEF RunsFollowTheirTabs, Unfinished
  <2>1. CASE runs[r].terminal = e.t /\ Current(e.t, e.g)
    <3>1. terminals[i].id = e.t /\ terminals[i].gen = e.g /\ ~terminals[i].released
      BY <1>3, <2>1 DEF Current
    <3>2. TabHears(terminals[i], terminals'[i], e) /\ RunHears(runs[r], runs'[r], e)
      BY <1>2, <2>1, <3>1
    <3>3. CASE e.kind = "spawned"
      BY <3>2, <3>3 DEF TabHears
    <3>4. CASE e.kind = "output"
      BY <1>6, <3>2, <3>4 DEF TabHears, RunHears
    <3>5. CASE e.kind \in {"exited", "failed"}
      <4>1. terminals'[i].status # "starting"
        BY <3>2, <3>5 DEF TabHears
      <4>2. ~Unfinished(runs'[r])
        BY <1>3, <1>6, <3>1, <3>2, <3>5 DEF RunHears
      <4>. QED BY <4>1, <4>2
    <3>. QED BY <3>2, <3>3, <3>4, <3>5 DEF TabHears
  <2>2. CASE ~(runs[r].terminal = e.t /\ Current(e.t, e.g))
    <3>1. runs'[r] = runs[r]
      BY <1>2, <2>2
    <3>2. terminals'[i] = terminals[i]
      BY <1>2, <2>2 DEF Current
    <3>. QED BY <1>6, <3>1, <3>2
  <2>. QED BY <2>1, <2>2
\* A run that is unfinished afterwards was so before, and its end was not what is heard.
<1>8. ASSUME NEW r \in DOMAIN runs, NEW u, u = runs[r].terminal, Unfinished(runs'[r]), Current(u, 1)
      PROVE  Unfinished(runs[r]) /\ (EndReported(u, 1) => EndReported(u, 1)')
  <2>1. CASE u = e.t /\ Current(e.t, e.g)
    <3>1. PICK i \in DOMAIN terminals : terminals[i].id = u /\ terminals[i].gen = 1 /\ ~terminals[i].released
      BY <1>8 DEF Current
    <3>2. e.g = 1
      BY <1>3, <2>1, <3>1 DEF Current
    <3>3. RunHears(runs[r], runs'[r], e)
      BY <1>2, <1>8, <2>1
    <3>4. e.kind = "spawned" => terminals[i].status = "starting"
      BY <1>1, <2>1, <3>1, <3>2 DEF CancelInv, CancelOK, SpawnedIsFirst
    <3>5. e.kind = "spawned" => Unfinished(runs[r])
      BY <1>6, <1>8, <3>1, <3>4
    <3>6. e.kind = "output" => Unfinished(runs[r])
      BY <1>8, <3>3 DEF RunHears
    <3>7. e.kind \notin {"exited", "failed"}
      <4>. SUFFICES ASSUME e.kind \in {"exited", "failed"} PROVE FALSE
        OBVIOUS
      <4>1. runs'[r] = runs[r] /\ terminals[i].status = "exited"
        BY <1>3, <1>8, <2>1, <3>1, <3>3 DEF RunHears
      <4>. QED BY <1>6, <1>8, <3>1, <4>1
    <3>8. e.kind \in {"spawned", "output"}
      BY <3>3, <3>7 DEF RunHears
    <3>9. EndReported(u, 1) => EndReported(u, 1)'
      BY <1>1, <3>8 DEF EndReported
    <3>. QED BY <3>5, <3>6, <3>8, <3>9
  <2>2. CASE ~(u = e.t /\ Current(e.t, e.g))
    <3>1. runs'[r] = runs[r]
      BY <1>2, <1>8, <2>2
    <3>2. ~(e.t = u /\ e.g = 1)
      BY <1>8, <2>2
    <3>3. EndReported(u, 1) => EndReported(u, 1)'
      BY <1>1, <3>2 DEF EndReported
    <3>. QED BY <1>8, <3>1, <3>3
  <2>. QED BY <2>1, <2>2
<1>9. RunsAreServed'
  <2>. SUFFICES ASSUME NEW r \in DOMAIN runs', NEW u, u = runs'[r].terminal,
                       Unfinished(runs'[r]), Current(u, 1)', live'[u] = 0
                PROVE  \/ \E j \in DOMAIN requests' : requests'[j].op = "spawn" /\ requests'[j].t = u /\ requests'[j].g = 1
                       \/ EndReported(u, 1)'
    BY DEF RunsAreServed, EndReported, Unfinished, Current
  <2>1. r \in DOMAIN runs /\ u = runs[r].terminal /\ Current(u, 1) /\ live[u] = 0 /\ requests' = requests
    BY <1>1
  <2>2. Unfinished(runs[r]) /\ (EndReported(u, 1) => EndReported(u, 1)')
    BY <1>8, <2>1
  <2>. QED BY <2>1, <2>2 DEF CancelInv, CancelOK, RunsAreServed
<1>10. CancelServed'
  <2>. SUFFICES ASSUME NEW r \in DOMAIN runs, NEW u, u = runs[r].terminal,
                       Unfinished(runs'[r]), runs[r].cancel, Current(u, 1)
                PROVE  \/ \E j \in DOMAIN requests : requests[j].op = "kill" /\ requests[j].t = u /\ requests[j].g = 1
                       \/ proc[u][1].doomed \/ proc[u][1].waiter \in {"draining", "holding"}
                       \/ EndReported(u, 1)'
    BY <1>1 DEF CancelServed, EndReported, Unfinished, Current
  <2>1. Unfinished(runs[r]) /\ (EndReported(u, 1) => EndReported(u, 1)')
    BY <1>8
  <2>. QED BY <2>1 DEF CancelInv, CancelOK, CancelServed
<1>. QED BY <1>4, <1>5, <1>7, <1>9, <1>10 DEF CancelOK

----------------------------------------------------------------------------
(***************************************************************************)
(* Commands                                                                *)
(***************************************************************************)

\* A request about a tab that is open names that tab and its process.
LEMMA RequestOf ==
  ASSUME Kinds, NEW i \in DOMAIN terminals,
         NEW op \in {"spawn", "write", "resize", "kill", "release"}
  PROVE  /\ Req(op, terminals[i]) \in Request /\ Req(op, terminals[i]).op = op
         /\ Req(op, terminals[i]).t = terminals[i].id /\ Req(op, terminals[i]).g = terminals[i].gen
         /\ <<Req(op, terminals[i])>> \in Seq(Request)
         /\ \A x \in DOMAIN <<Req(op, terminals[i])>> : <<Req(op, terminals[i])>>[x] = Req(op, terminals[i])
<1>1. terminals[i].id \in Ids /\ terminals[i].gen \in Gens
  BY Fields
<1>2. Req(op, terminals[i]) \in Request
  BY <1>1 DEF Req, Request
<1>. QED BY <1>2 DEF Req

\* A command that only asks something of open tabs
LEMMA Asks ==
  ASSUME TabsInv, NEW X \in Seq(Request), requests' = requests \o X,
         UNCHANGED <<terminals, opened, live, proc, events>>, active' \in 0..Len(terminals),
         \A x \in DOMAIN X :
           /\ X[x].op \notin {"spawn", "release"}
           /\ \E i \in DOMAIN terminals : X[x].t = terminals[i].id /\ X[x].g = terminals[i].gen
  PROVE  LetGo(X)
<1>1. terminals' \in Seq(Session) /\ Distinct' /\ active' \in 0..Len(terminals')
  BY DEF TabsInv, Kinds, Distinct
<1>. QED BY <1>1 DEF LetGo

\* A command that asks nothing
LEMMA Moves ==
  ASSUME TabsInv, UNCHANGED <<terminals, opened, requests, live, proc, events>>, active' \in 0..Len(terminals)
  PROVE  LetGo(<<>>)
<1>1. requests' = requests \o <<>> /\ <<>> \in Seq(Request) /\ DOMAIN <<>> = {}
  BY DEF TabsInv, Kinds
<1>. QED BY <1>1, Asks

\* What removing a tab asks of the worker
LEMMA RemovalAsks ==
  ASSUME Kinds, NEW i \in DOMAIN terminals, NEW kill \in BOOLEAN
  PROVE  /\ RemoveRequests(terminals[i], kill) \in Seq(Request)
         /\ \A x \in DOMAIN RemoveRequests(terminals[i], kill) :
              /\ RemoveRequests(terminals[i], kill)[x].op \in {"kill", "release"}
              /\ RemoveRequests(terminals[i], kill)[x].t = terminals[i].id
              /\ RemoveRequests(terminals[i], kill)[x].g = terminals[i].gen
         /\ terminals[i].released \/ \E x \in DOMAIN RemoveRequests(terminals[i], kill) :
              /\ RemoveRequests(terminals[i], kill)[x].op = "release"
<1>. DEFINE X == RemoveRequests(terminals[i], kill)
            a == Req("kill", terminals[i])
            b == Req("release", terminals[i])
<1>1. /\ a \in Request /\ a.op = "kill" /\ a.t = terminals[i].id /\ a.g = terminals[i].gen
      /\ b \in Request /\ b.op = "release" /\ b.t = terminals[i].id /\ b.g = terminals[i].gen
  BY RequestOf
<1>2. X = IF terminals[i].released THEN <<>> ELSE (IF kill THEN <<a>> ELSE <<>>) \o <<b>>
  BY DEF RemoveRequests
<1>. HIDE DEF X, a, b
<1>3. CASE terminals[i].released
  <2>1. X = <<>>
    BY <1>2, <1>3
  <2>. QED BY <1>3, <2>1 DEF X
<1>4. CASE ~terminals[i].released /\ kill
  <2>1. X = <<a>> \o <<b>>
    BY <1>2, <1>4
  <2>2. X \in Seq(Request) /\ DOMAIN X = {1, 2} /\ X[1] = a /\ X[2] = b
    BY <1>1, <2>1
  <2>. QED BY <1>1, <2>2 DEF X
<1>5. CASE ~terminals[i].released /\ ~kill
  <2>1. X = <<b>>
    BY <1>2, <1>5
  <2>2. X \in Seq(Request) /\ DOMAIN X = {1} /\ X[1] = b
    BY <1>1, <2>1
  <2>. QED BY <1>1, <2>2 DEF X
<1>. QED BY <1>3, <1>4, <1>5

\* A tab is removed: its process is let go of.
LEMMA Removes ==
  ASSUME TabsInv, NEW i \in DOMAIN terminals, NEW kill \in BOOLEAN,
         requests' = requests \o RemoveRequests(terminals[i], kill),
         terminals' = RemoveAt(terminals, i), active' = NextActive(i),
         UNCHANGED <<opened, live, proc, events>>
  PROVE  LetGo(RemoveRequests(terminals[i], kill))
<1>. DEFINE X == RemoveRequests(terminals[i], kill)
<1>1. /\ X \in Seq(Request)
      /\ \A x \in DOMAIN X : X[x].op \in {"kill", "release"} /\ X[x].t = terminals[i].id /\ X[x].g = terminals[i].gen
      /\ terminals[i].released \/ \E x \in DOMAIN X : X[x].op = "release"
  BY RemovalAsks DEF TabsInv
<1>2. requests' = requests \o X
  OBVIOUS
<1>. HIDE DEF X
<1>3. terminals \in Seq(Session) /\ active \in 0..Len(terminals)
      /\ i \in 1..Len(terminals) /\ Len(terminals) \in Nat
  BY DEF TabsInv, Kinds
<1>4. /\ terminals' \in Seq(Session) /\ Len(terminals') = Len(terminals) - 1
      /\ \A j \in DOMAIN terminals' :
           j + 1 \in DOMAIN terminals /\ terminals'[j] = IF j < i THEN terminals[j] ELSE terminals[j + 1]
  BY <1>3, Removed
<1>5. active' \in 0..Len(terminals')
  BY <1>3, <1>4 DEF NextActive
<1>6. DOMAIN terminals' = 1..(Len(terminals) - 1) /\ DOMAIN terminals = 1..Len(terminals)
  BY <1>3, <1>4
<1>7. \A j, k \in DOMAIN terminals : terminals[j].id = terminals[k].id => j = k
  BY DEF TabsInv, Distinct
\* Where the tabs that stay are
<1>8. ASSUME NEW j \in DOMAIN terminals'
      PROVE  \E k \in DOMAIN terminals : k # i /\ terminals'[j] = terminals[k] /\ k = (IF j < i THEN j ELSE j + 1)
  BY <1>3, <1>4, <1>6
<1>9. ASSUME NEW k \in DOMAIN terminals, k # i
      PROVE  \E j \in DOMAIN terminals' : terminals'[j] = terminals[k]
  <2>1. CASE k < i
    <3>1. k \in DOMAIN terminals'
      BY <1>3, <1>6, <2>1
    <3>. QED BY <1>4, <2>1, <3>1
  <2>2. CASE k > i
    <3>1. k - 1 \in DOMAIN terminals' /\ ~(k - 1 < i) /\ (k - 1) + 1 = k
      BY <1>3, <1>6, <2>2
    <3>. QED BY <1>4, <3>1
  <2>. QED BY <1>3, <1>6, <1>9, <2>1, <2>2
<1>10. Distinct'
  <2>. SUFFICES ASSUME NEW j \in DOMAIN terminals', NEW l \in DOMAIN terminals', terminals'[j].id = terminals'[l].id
                PROVE  j = l
    BY DEF Distinct
  <2>1. (IF j < i THEN j ELSE j + 1) = (IF l < i THEN l ELSE l + 1)
    BY <1>7, <1>8
  <2>. QED BY <1>3, <1>6, <2>1
<1>11. \A j \in DOMAIN terminals' : terminals'[j].id # terminals[i].id
  BY <1>7, <1>8
<1>12. \A x \in DOMAIN X :
         /\ X[x].op # "spawn"
         /\ \E j \in DOMAIN terminals : X[x].t = terminals[j].id /\ X[x].g = terminals[j].gen
         /\ \A j \in DOMAIN terminals' : terminals'[j].id # X[x].t
  BY <1>1, <1>11
<1>13. \A j \in DOMAIN terminals :
         \/ terminals[j].released
         \/ \E k \in DOMAIN terminals' :
              /\ terminals'[k].id = terminals[j].id /\ terminals'[k].gen = terminals[j].gen
              /\ ~terminals'[k].released
         \/ \E x \in DOMAIN X : X[x].op = "release" /\ X[x].t = terminals[j].id /\ X[x].g = terminals[j].gen
  BY <1>1, <1>9
<1>14. \A j \in DOMAIN terminals' : \E k \in DOMAIN terminals :
         /\ terminals'[j].id = terminals[k].id /\ terminals'[j].gen = terminals[k].gen
         /\ terminals'[j].status = terminals[k].status /\ terminals'[j].shown = terminals[k].shown
         /\ terminals[k].released => terminals'[j].released
  BY <1>8
<1>15. LetGo(X)
  BY <1>1, <1>2, <1>4, <1>5, <1>10, <1>12, <1>13, <1>14 DEF LetGo
<1>. QED BY <1>15 DEF X

\* Tabs are released where they stand.
LEMMA Releasing ==
  ASSUME TabsInv, NEW D \in SUBSET DOMAIN terminals, NEW X \in Seq(Request), requests' = requests \o X,
         terminals' = [i \in 1..Len(terminals) |->
                         IF i \in D THEN [terminals[i] EXCEPT !.released = TRUE] ELSE terminals[i]],
         UNCHANGED <<opened, active, live, proc, events>>,
         \A x \in DOMAIN X : \E i \in D :
           /\ X[x].op \in {"kill", "release"} /\ X[x].t = terminals[i].id /\ X[x].g = terminals[i].gen,
         \A i \in D : terminals[i].released \/ \E x \in DOMAIN X :
           X[x].op = "release" /\ X[x].t = terminals[i].id /\ X[x].g = terminals[i].gen
  PROVE  LetGo(X)
<1>1. terminals \in Seq(Session) /\ active \in 0..Len(terminals) /\ DOMAIN terminals = 1..Len(terminals)
  BY DEF TabsInv, Kinds
<1>2. \A i \in DOMAIN terminals :
        LET s == [terminals[i] EXCEPT !.released = TRUE]
        IN /\ s \in Session /\ s.id = terminals[i].id /\ s.gen = terminals[i].gen
           /\ s.status = terminals[i].status /\ s.shown = terminals[i].shown /\ s.released = TRUE
  <2>1. \A i \in DOMAIN terminals : terminals[i] \in Session
    BY <1>1
  <2>. QED BY <2>1 DEF Session
<1>3. DOMAIN terminals' = DOMAIN terminals
  BY <1>1
<1>4. \A i \in DOMAIN terminals :
        /\ terminals'[i] \in Session /\ terminals'[i].id = terminals[i].id /\ terminals'[i].gen = terminals[i].gen
        /\ terminals'[i].status = terminals[i].status /\ terminals'[i].shown = terminals[i].shown
        /\ i \in D => terminals'[i].released
        /\ i \notin D => terminals'[i] = terminals[i]
  BY <1>1, <1>2
<1>5. terminals' \in Seq(Session) /\ Len(terminals') = Len(terminals)
  <2>1. \A i \in 1..Len(terminals) : terminals'[i] \in Session
    BY <1>1, <1>4
  <2>2. terminals' = [i \in 1..Len(terminals) |-> terminals'[i]]
    BY <1>1
  <2>. QED BY <1>1, <2>1, <2>2
<1>6. \A i, j \in DOMAIN terminals : terminals[i].id = terminals[j].id => i = j
  BY DEF TabsInv, Distinct
<1>7. Distinct'
  BY <1>3, <1>4, <1>6 DEF Distinct
<1>8. \A x \in DOMAIN X :
        /\ X[x].op # "spawn"
        /\ \E i \in DOMAIN terminals : X[x].t = terminals[i].id /\ X[x].g = terminals[i].gen
        /\ \A i \in DOMAIN terminals' : terminals'[i].id = X[x].t => terminals'[i].released
  <2>. TAKE x \in DOMAIN X
  <2>1. PICK i \in D : X[x].op \in {"kill", "release"} /\ X[x].t = terminals[i].id /\ X[x].g = terminals[i].gen
    OBVIOUS
  <2>2. i \in DOMAIN terminals
    OBVIOUS
  <2>3. ASSUME NEW j \in DOMAIN terminals', terminals'[j].id = X[x].t PROVE terminals'[j].released
    <3>1. j \in DOMAIN terminals /\ terminals[j].id = terminals[i].id
      BY <1>3, <1>4, <2>1, <2>3
    <3>2. j = i
      BY <1>6, <2>2, <3>1
    <3>. QED BY <1>4, <2>2, <3>2
  <2>. QED BY <2>1, <2>2, <2>3
<1>9. \A j \in DOMAIN terminals :
        \/ terminals[j].released
        \/ \E i \in DOMAIN terminals' :
             /\ terminals'[i].id = terminals[j].id /\ terminals'[i].gen = terminals[j].gen
             /\ ~terminals'[i].released
        \/ \E x \in DOMAIN X : X[x].op = "release" /\ X[x].t = terminals[j].id /\ X[x].g = terminals[j].gen
  BY <1>3, <1>4
<1>10. \A i \in DOMAIN terminals' : \E j \in DOMAIN terminals :
         /\ terminals'[i].id = terminals[j].id /\ terminals'[i].gen = terminals[j].gen
         /\ terminals'[i].status = terminals[j].status /\ terminals'[i].shown = terminals[j].shown
         /\ terminals[j].released => terminals'[i].released
  <2>. TAKE i \in DOMAIN terminals'
  <2>1. i \in DOMAIN terminals /\ (terminals[i].released => terminals'[i].released)
    BY <1>3, <1>4
  <2>. QED BY <1>4, <2>1
<1>. QED BY <1>1, <1>5, <1>7, <1>8, <1>9, <1>10 DEF LetGo

\* A new tab: its process is asked for.
LEMMA Opens ==
  ASSUME TabsInv, NEW owner \in Owners, CreateTerminal(owner), UNCHANGED <<live, proc, events>>
  PROVE  Starts(opened + 1, 1, <<>>)
<1>. DEFINE n == opened + 1
            s == [id |-> n, gen |-> 1, owner |-> owner, status |-> "starting",
                  released |-> FALSE, shown |-> {}]
            spawn == [op |-> "spawn", t |-> n, g |-> 1]
<1>1. /\ opened < MaxTerminals /\ opened' = n
      /\ terminals' = Append(terminals, s) /\ requests' = Append(requests, Req("spawn", s))
      /\ active' \in {active, Len(terminals) + 1}
  BY DEF CreateTerminal
<1>2. n \in Ids /\ 1 \in Gens /\ opened \in Nat /\ opened' \in 0..MaxTerminals
  BY <1>1, BoundsAreNumbers DEF TabsInv, Kinds, Ids, Gens
<1>3. /\ s \in Session /\ s.id = n /\ s.gen = 1 /\ s.status = "starting"
      /\ s.released = FALSE /\ s.shown = {}
  BY <1>2 DEF Session, Owners, Statuses
<1>4. Req("spawn", s) = spawn /\ spawn \in Request
  BY <1>2 DEF Req, Request
<1>5. terminals \in Seq(Session) /\ requests \in Seq(Request) /\ active \in 0..Len(terminals)
  BY DEF TabsInv, Kinds
<1>6. requests' = (requests \o <<>>) \o <<spawn>> /\ <<>> \in Seq(Request)
  <2>1. requests \o <<>> = requests /\ requests' = Append(requests, spawn)
    BY <1>1, <1>4, <1>5
  <2>. HIDE DEF spawn
  <2>. QED BY <1>4, <1>5, <2>1
<1>. HIDE DEF s
<1>7. /\ terminals' \in Seq(Session) /\ Len(terminals') = Len(terminals) + 1
      /\ \A i \in DOMAIN terminals : i \in DOMAIN terminals' /\ terminals'[i] = terminals[i]
      /\ \E i \in DOMAIN terminals' : terminals'[i] = s
      /\ \A i \in DOMAIN terminals' : (i \in DOMAIN terminals /\ terminals'[i] = terminals[i]) \/ (i = Len(terminals) + 1 /\ terminals'[i] = s)
  <2>1. terminals' \in Seq(Session) /\ Len(terminals') = Len(terminals) + 1
    BY <1>1, <1>3, <1>5
  <2>2. \A i \in DOMAIN terminals' : (i \in DOMAIN terminals /\ terminals'[i] = terminals[i]) \/ (i = Len(terminals) + 1 /\ terminals'[i] = s)
    BY <1>1, <1>3, <1>5
  <2>3. /\ \A i \in DOMAIN terminals : i \in DOMAIN terminals' /\ terminals'[i] = terminals[i]
        /\ \E i \in DOMAIN terminals' : terminals'[i] = s
    <3>1. Len(terminals) + 1 \in DOMAIN terminals' /\ terminals'[Len(terminals) + 1] = s
      BY <1>1, <1>3, <1>5
    <3>2. \A i \in DOMAIN terminals : i \in DOMAIN terminals' /\ terminals'[i] = terminals[i]
      BY <1>1, <1>3, <1>5
    <3>. QED BY <3>1, <3>2
  <2>. QED BY <2>1, <2>2, <2>3
<1>8. \A i \in DOMAIN terminals : terminals[i].id <= opened /\ terminals[i].id \in Nat
  BY WhatIsKnown, Fields, Numbers DEF TabsInv
<1>9. \A i \in DOMAIN terminals : terminals[i].id # n
  BY <1>2, <1>8
<1>10. Distinct'
  <2>. SUFFICES ASSUME NEW i \in DOMAIN terminals', NEW j \in DOMAIN terminals', terminals'[i].id = terminals'[j].id
                PROVE  i = j
    BY DEF Distinct
  <2>1. \A k, l \in DOMAIN terminals : terminals[k].id = terminals[l].id => k = l
    BY DEF TabsInv, Distinct
  <2>. QED BY <1>3, <1>7, <1>9, <2>1
<1>11. active' \in 0..Len(terminals')
  BY <1>1, <1>5, <1>7
<1>12. \A h : ~Known(n, h) /\ ~Current(n, h)
  BY <1>2, <1>9 DEF Known, Current
<1>13. /\ \E i \in DOMAIN terminals' :
            terminals'[i].id = n /\ terminals'[i].gen = 1 /\ ~terminals'[i].released
       /\ \A i \in DOMAIN terminals' :
            \/ /\ terminals'[i].id = n /\ terminals'[i].gen = 1 /\ terminals'[i].status = "starting"
               /\ terminals'[i].shown = {} /\ ~terminals'[i].released
            \/ terminals'[i].id # n /\ \E j \in DOMAIN terminals : terminals'[i] = terminals[j]
       /\ \A j \in DOMAIN terminals :
            terminals[j].id # n => \E i \in DOMAIN terminals' : terminals'[i] = terminals[j]
  <2>1. \E i \in DOMAIN terminals' :
          terminals'[i].id = n /\ terminals'[i].gen = 1 /\ ~terminals'[i].released
    BY <1>3, <1>7
  <2>2. \A i \in DOMAIN terminals' :
          \/ /\ terminals'[i].id = n /\ terminals'[i].gen = 1 /\ terminals'[i].status = "starting"
             /\ terminals'[i].shown = {} /\ ~terminals'[i].released
          \/ terminals'[i].id # n /\ \E j \in DOMAIN terminals : terminals'[i] = terminals[j]
    BY <1>3, <1>7, <1>9
  <2>. QED BY <1>7, <2>1, <2>2
<1>14. opened <= opened' /\ n <= opened'
  BY <1>1, <1>2
<1>15. DOMAIN <<>> = {}
  OBVIOUS
<1>. HIDE DEF n
<1>16. Starts(n, 1, <<>>)
  BY <1>2, <1>6, <1>7, <1>10, <1>11, <1>12, <1>13, <1>14, <1>15 DEF Starts
<1>. QED BY <1>16 DEF n

\* A task run is attached to the new tab, and the oldest may be forgotten.
LEMMA Attaches ==
  ASSUME TabsInv, opened < MaxTerminals, AttachTaskRun(opened + 1) \/ runs' = runs
  PROVE  RunsAttached(opened + 1, 1)
<1>. DEFINE r == [terminal |-> opened + 1, status |-> "starting", cancel |-> FALSE]
            all == Append(runs, r)
<1>1. r \in Run /\ r.terminal = opened + 1 /\ r.status = "starting" /\ ~r.cancel
  <2>1. opened + 1 \in Ids
    BY BoundsAreNumbers DEF TabsInv, Kinds, Ids
  <2>. QED BY <2>1 DEF Run, RunStatuses
<1>2. runs \in Seq(Run)
  BY DEF TabsInv, Kinds
<1>3. runs' \in {runs, all, Tail(all)}
  BY DEF AttachTaskRun
<1>. HIDE DEF r
<1>4. all \in Seq(Run) /\ all # <<>> /\ \A i \in DOMAIN all : all[i] = r \/ \E q \in DOMAIN runs : all[i] = runs[q]
  BY <1>1, <1>2
<1>. HIDE DEF all
<1>5. Tail(all) \in Seq(Run) /\ \A i \in DOMAIN Tail(all) : i + 1 \in DOMAIN all /\ Tail(all)[i] = all[i + 1]
  BY <1>4
<1>6. CASE runs' = runs
  BY <1>2, <1>6 DEF RunsAttached
<1>7. CASE runs' = all
  BY <1>1, <1>4, <1>7 DEF RunsAttached
<1>8. CASE runs' = Tail(all)
  <2>1. runs' \in Seq(Run) /\ \A i \in DOMAIN runs' : runs'[i] = r \/ \E q \in DOMAIN runs : runs'[i] = runs[q]
    BY <1>4, <1>5, <1>8
  <2>. QED BY <1>1, <2>1 DEF RunsAttached
<1>. QED BY <1>3, <1>6, <1>7, <1>8

\* A restart: the process of the tab is let go of and the next one asked for.
LEMMA Restarts ==
  ASSUME TabsInv, RestartTerminal
  PROVE  \E t, g, Y : Starts(t, g, Y)
<1>. DEFINE s == terminals[active]
            t == s.id
            g == s.gen + 1
            A == IF IsLive(s) THEN <<Req("kill", s)>> ELSE <<>>
            B == IF s.released THEN <<>> ELSE <<Req("release", s)>>
            Y == A \o B
            spawn == [op |-> "spawn", t |-> t, g |-> g]
            x == [s EXCEPT !.gen = s.gen + 1, !.status = "starting", !.released = FALSE, !.shown = {}]
<1>0. Kinds
  BY DEF TabsInv
<1>1. /\ active # 0 /\ s.gen < MaxGen /\ requests' = requests \o RestartRequests(s)
      /\ terminals' = [terminals EXCEPT ![active] = x]
      /\ UNCHANGED <<active, opened, live, proc, events>>
  BY DEF RestartTerminal, ActiveSession, service
<1>2. active \in DOMAIN terminals /\ terminals \in Seq(Session) /\ requests \in Seq(Request)
      /\ DOMAIN terminals = 1..Len(terminals)
  BY <1>0, <1>1 DEF Kinds
<1>3. s \in Session /\ t \in Ids /\ s.gen \in Gens /\ g \in Gens /\ s.gen \in Nat /\ g \in Nat /\ g - 1 = s.gen
  <2>1. s \in Session /\ t \in Ids /\ s.gen \in Gens
    BY <1>0, <1>2, Fields
  <2>2. s.gen \in Nat /\ s.gen + 1 \in Gens
    BY <1>1, <2>1, BoundsAreNumbers DEF Gens
  <2>. HIDE DEF s
  <2>. QED BY <2>1, <2>2
<1>4. /\ x \in Session /\ x.id = t /\ x.gen = g /\ x.status = "starting"
      /\ x.released = FALSE /\ x.shown = {}
  <2>. HIDE DEF s
  <2>. QED BY <1>3 DEF Session, Statuses
<1>5. /\ Req("kill", s) \in Request /\ Req("kill", s).op = "kill"
      /\ Req("kill", s).t = t /\ Req("kill", s).g = s.gen
      /\ Req("release", s) \in Request /\ Req("release", s).op = "release"
      /\ Req("release", s).t = t /\ Req("release", s).g = s.gen
  BY <1>0, <1>2, RequestOf
<1>6. /\ A \in Seq(Request) /\ B \in Seq(Request) /\ spawn \in Request
      /\ \A y \in DOMAIN A : A[y] = Req("kill", s)
      /\ \A y \in DOMAIN B : B[y] = Req("release", s)
      /\ ~s.released => B = <<Req("release", s)>>
  <2>1. spawn \in Request
    BY <1>3 DEF Request
  <2>. HIDE DEF s
  <2>. QED BY <1>5, <2>1
<1>7. RestartRequests(s) = Y \o <<spawn>>
  BY DEF RestartRequests
<1>. HIDE DEF A, B
<1>8. /\ Y \in Seq(Request) /\ \A y \in DOMAIN Y : Y[y] \in {Req("kill", s), Req("release", s)}
      /\ ~s.released => \E y \in DOMAIN Y : Y[y] = Req("release", s)
  <2>1. Y \in Seq(Request) /\ \A y \in DOMAIN Y :
          (y \in DOMAIN A /\ Y[y] = A[y]) \/ (y - Len(A) \in DOMAIN B /\ Y[y] = B[y - Len(A)])
    BY <1>6
  <2>2. ASSUME ~s.released PROVE \E y \in DOMAIN Y : Y[y] = Req("release", s)
    <3>1. Len(B) = 1 /\ B[1] = Req("release", s)
      BY <1>6, <2>2
    <3>2. A \in Seq(Request) /\ B \in Seq(Request)
      BY <1>6
    <3>3. Len(A \o B) = Len(A) + 1 /\ (A \o B)[Len(A) + 1] = B[1]
      <4>1. /\ Len(A \o B) = Len(A) + Len(B)
            /\ \A i \in 1..(Len(A) + Len(B)) : (A \o B)[i] = IF i <= Len(A) THEN A[i] ELSE B[i - Len(A)]
        BY <3>2, ConcatProperties
      <4>2. Len(A) \in Nat /\ Len(A) + 1 \in 1..(Len(A) + Len(B)) /\ ~(Len(A) + 1 <= Len(A)) /\ (Len(A) + 1) - Len(A) = 1
        BY <3>1, <3>2
      <4>. QED BY <3>1, <4>1, <4>2
    <3>4. Len(A) + 1 \in DOMAIN Y /\ Y[Len(A) + 1] = B[1]
      BY <2>1, <3>2, <3>3
    <3>. QED BY <3>1, <3>4
  <2>. QED BY <1>6, <2>1, <2>2
<1>9. requests' = (requests \o Y) \o <<spawn>>
  <2>1. <<spawn>> \in Seq(Request)
    BY <1>6
  <2>. HIDE DEF Y, spawn
  <2>. QED BY <1>1, <1>2, <1>7, <1>8, <2>1, ConcatAssociative
<1>. HIDE DEF Y
<1>10. \A y \in DOMAIN Y : Y[y].op \in {"kill", "release"} /\ Y[y].t = t /\ Y[y].g = g - 1
  BY <1>3, <1>5, <1>8
<1>11. \A i, j \in DOMAIN terminals : terminals[i].id = terminals[j].id => i = j
  BY DEF TabsInv, Distinct
<1>12. \A h \in Nat : Known(t, h) => h < g
  BY <1>2, <1>3 DEF Known
<1>13. ~Known(t, g)
  BY <1>3, <1>12
<1>14. \A h \in Gens : Current(t, h) => h = g - 1 /\ \E y \in DOMAIN Y : Y[y].op = "release"
  BY <1>2, <1>3, <1>5, <1>8, <1>11 DEF Current
<1>. HIDE DEF x
<1>15. /\ terminals' \in Seq(Session) /\ DOMAIN terminals' = DOMAIN terminals /\ Len(terminals') = Len(terminals)
       /\ terminals'[active] = x /\ \A i \in DOMAIN terminals : i # active => terminals'[i] = terminals[i]
  BY <1>1, <1>2, <1>4
<1>16. Distinct'
  <2>. SUFFICES ASSUME NEW i \in DOMAIN terminals', NEW j \in DOMAIN terminals', terminals'[i].id = terminals'[j].id
                PROVE  i = j
    BY DEF Distinct
  <2>. QED BY <1>2, <1>4, <1>11, <1>15
<1>17. \A i \in DOMAIN terminals' :
         \/ /\ terminals'[i].id = t /\ terminals'[i].gen = g /\ terminals'[i].status = "starting"
            /\ terminals'[i].shown = {} /\ ~terminals'[i].released
         \/ terminals'[i].id # t /\ \E j \in DOMAIN terminals : terminals'[i] = terminals[j]
  BY <1>2, <1>4, <1>11, <1>15
<1>18. \A j \in DOMAIN terminals :
         terminals[j].id # t => \E i \in DOMAIN terminals' : terminals'[i] = terminals[j]
  BY <1>2, <1>15
<1>19. \E i \in DOMAIN terminals' :
         terminals'[i].id = t /\ terminals'[i].gen = g /\ ~terminals'[i].released
  BY <1>2, <1>4, <1>15
<1>20. opened <= opened' /\ t <= opened' /\ opened' \in 0..MaxTerminals /\ active' \in 0..Len(terminals')
  <2>1. t <= opened
    BY <1>2, WhatIsKnown DEF TabsInv
  <2>2. opened \in 0..MaxTerminals /\ opened <= opened /\ active \in 0..Len(terminals)
    BY <1>0, BoundsAreNumbers DEF Kinds
  <2>. QED BY <1>1, <1>15, <2>1, <2>2
<1>. HIDE DEF t, g, spawn
<1>21. Starts(t, g, Y)
  BY <1>1, <1>3, <1>8, <1>9, <1>10, <1>12, <1>13, <1>14, <1>15, <1>16, <1>17, <1>18, <1>19, <1>20 DEF Starts, spawn
<1>. QED BY <1>21

\* Every command lets go of something or of nothing ...
LEMMA CommandCases ==
  ASSUME TabsInv, Command
  PROVE  \E X : LetGo(X) /\ RunsMarked(X)
<1>0. /\ Kinds /\ Distinct /\ terminals \in Seq(Session) /\ active \in 0..Len(terminals) /\ Len(terminals) \in Nat
      /\ DOMAIN terminals = 1..Len(terminals) /\ requests \in Seq(Request)
  BY DEF TabsInv, Kinds
<1>1. /\ \A t : IsOpen(t) => IndexOf(t) \in DOMAIN terminals /\ SessionOf(t) = terminals[IndexOf(t)]
      /\ \A i \in DOMAIN terminals : IndexOf(terminals[i].id) = i
  BY <1>0, Found
<1>2. active # 0 => active \in DOMAIN terminals
  BY <1>0
<1>3. ASSUME UNCHANGED <<terminals, opened, requests, live, proc, events, runs>>, active' \in 0..Len(terminals)
      PROVE  \E X : LetGo(X) /\ RunsMarked(X)
  BY <1>3, Moves DEF RunsMarked
<1>4. CASE LeaveTerminalPane \/ EnterTerminalPane \/ KeepTerminal
  BY <1>0, <1>3, <1>4 DEF LeaveTerminalPane, EnterTerminalPane, KeepTerminal, service
<1>5. ASSUME NEW delta \in {0, 1}, CycleTerminal(delta) PROVE \E X : LetGo(X) /\ RunsMarked(X)
  <2>. DEFINE n == Len(terminals)
              c == (IF active = 0 THEN 0 ELSE active - 1) + n + delta
  <2>1. n > 0 /\ c \in Nat /\ active' = (c % n) + 1
    BY <1>0, <1>5 DEF CycleTerminal
  <2>2. UNCHANGED <<terminals, opened, requests, live, proc, events, runs>>
    BY <1>5 DEF CycleTerminal, service
  <2>. HIDE DEF c
  <2>3. c % n \in 0..(n - 1)
    BY <1>0, <2>1
  <2>. HIDE DEF n
  <2>4. active' \in 0..n
    BY <1>0, <2>1, <2>3 DEF n
  <2>. QED BY <1>3, <2>2, <2>4 DEF n
\* One request about an open tab
<1>6. ASSUME NEW i \in DOMAIN terminals, NEW op \in {"write", "resize", "kill"},
             requests' = Append(requests, Req(op, terminals[i])), active' = active,
             UNCHANGED <<terminals, opened, live, proc, events>>
      PROVE  LetGo(<<Req(op, terminals[i])>>)
  <2>. DEFINE r == Req(op, terminals[i])
              X == <<r>>
  <2>0. r \in Request /\ r.op = op /\ r.t = terminals[i].id /\ r.g = terminals[i].gen
    <3>1. op \in {"spawn", "write", "resize", "kill", "release"}
      OBVIOUS
    <3>. QED BY <1>0, <3>1, RequestOf
  <2>6. requests' = Append(requests, r)
    BY <1>6
  <2>. HIDE DEF r
  <2>1. /\ X \in Seq(Request)
        /\ \A x \in DOMAIN X : X[x].op = op /\ X[x].t = terminals[i].id /\ X[x].g = terminals[i].gen
    BY <2>0
  <2>2. requests' = requests \o X
    BY <1>0, <2>0, <2>6, AppendIsConcat
  <2>3. active' \in 0..Len(terminals)
    BY <1>0, <1>6
  <2>. HIDE DEF X
  <2>4. \A x \in DOMAIN X :
          /\ X[x].op \notin {"spawn", "release"}
          /\ \E j \in DOMAIN terminals : X[x].t = terminals[j].id /\ X[x].g = terminals[j].gen
    BY <2>1
  <2>5. LetGo(X)
    BY <1>6, <2>1, <2>2, <2>3, <2>4, Asks
  <2>. QED BY <2>5 DEF X, r
\* A tab is removed.
<1>7. ASSUME NEW t, IsOpen(t), NEW kill \in BOOLEAN, RemoveTerminal(t, kill),
             UNCHANGED <<opened, live, proc, events, runs>>
      PROVE  \E X : LetGo(X) /\ RunsMarked(X)
  <2>1. /\ IndexOf(t) \in DOMAIN terminals /\ active' = NextActive(IndexOf(t))
        /\ requests' = requests \o RemoveRequests(terminals[IndexOf(t)], kill)
        /\ terminals' = RemoveAt(terminals, IndexOf(t))
    BY <1>1, <1>7 DEF RemoveTerminal
  <2>. QED BY <1>7, <2>1, Removes DEF RunsMarked
<1>8. CASE CloseTerminal
  <2>1. active \in DOMAIN terminals /\ UNCHANGED <<opened, live, proc, events, runs>>
    BY <1>2, <1>8 DEF CloseTerminal, service
  <2>2. CASE IsLive(ActiveSession)
    <3>1. UNCHANGED <<terminals, requests, active>>
      BY <1>8, <2>2 DEF CloseTerminal
    <3>. QED BY <1>0, <1>3, <2>1, <3>1
  <2>3. CASE ~IsLive(ActiveSession)
    <3>1. RemoveTerminal(ActiveSession.id, FALSE)
      BY <1>8, <2>3 DEF CloseTerminal
    <3>2. IsOpen(ActiveSession.id)
      BY <1>0, <2>1, Found DEF ActiveSession
    <3>. QED BY <1>7, <2>1, <3>1, <3>2
  <2>. QED BY <2>2, <2>3
<1>9. CASE ConfirmClose
  <2>1. UNCHANGED <<opened, live, proc, events, runs>>
    BY <1>9 DEF ConfirmClose, service
  <2>2. CASE IsOpen(closing)
    <3>1. RemoveTerminal(closing, TRUE)
      BY <1>9, <2>2 DEF ConfirmClose
    <3>. QED BY <1>7, <2>1, <2>2, <3>1
  <2>3. CASE ~IsOpen(closing)
    <3>1. UNCHANGED <<terminals, requests, active>>
      BY <1>9, <2>3 DEF ConfirmClose
    <3>. QED BY <1>0, <1>3, <2>1, <3>1
  <2>. QED BY <2>2, <2>3
<1>10. CASE TypeTerminalChord
  <2>1. active # 0 /\ requests' = Append(requests, Req("write", terminals[active])) /\ active' = active
        /\ UNCHANGED <<terminals, opened, live, proc, events, runs>>
    BY <1>10 DEF TypeTerminalChord, AcceptsInput, ActiveSession, model, service
  <2>2. LetGo(<<Req("write", terminals[active])>>)
    BY <1>2, <1>6, <2>1
  <2>. QED BY <2>1, <2>2 DEF RunsMarked
<1>11. CASE SetTerminalSize
  <2>. DEFINE s == [i \in 1..Len(terminals) |->
                     IF IsLive(terminals[i]) THEN <<Req("resize", terminals[i])>> ELSE <<>>]
              X == FlattenSeq(s)
  <2>1. requests' = requests \o X /\ active' = active /\ UNCHANGED <<terminals, opened, live, proc, events, runs>>
    BY <1>11 DEF SetTerminalSize, model, service
  <2>2. \A i \in DOMAIN terminals :
          /\ s[i] \in Seq(Request)
          /\ \A j \in DOMAIN s[i] : s[i][j].op = "resize" /\ s[i][j].t = terminals[i].id /\ s[i][j].g = terminals[i].gen
    <3>. TAKE i \in DOMAIN terminals
    <3>1. /\ <<Req("resize", terminals[i])>> \in Seq(Request)
          /\ \A j \in DOMAIN <<Req("resize", terminals[i])>> :
               /\ <<Req("resize", terminals[i])>>[j].op = "resize"
               /\ <<Req("resize", terminals[i])>>[j].t = terminals[i].id
               /\ <<Req("resize", terminals[i])>>[j].g = terminals[i].gen
      BY <1>0, RequestOf
    <3>2. s[i] = IF IsLive(terminals[i]) THEN <<Req("resize", terminals[i])>> ELSE <<>>
      BY <1>0
    <3>3. <<>> \in Seq(Request) /\ DOMAIN <<>> = {}
      OBVIOUS
    <3>. HIDE DEF s
    <3>. QED BY <3>1, <3>2, <3>3
  <2>3. s \in Seq(Seq(Request)) /\ DOMAIN s = DOMAIN terminals
    <3>1. s = [i \in 1..Len(terminals) |-> s[i]] /\ \A i \in 1..Len(terminals) : s[i] \in Seq(Request)
      BY <1>0, <2>2
    <3>. HIDE DEF s
    <3>. QED BY <1>0, <3>1
  <2>. HIDE DEF s
  <2>4. X \in Seq(Request) /\ \A k \in DOMAIN X : \E i \in DOMAIN s : \E j \in DOMAIN s[i] : X[k] = s[i][j]
    BY <2>3, FlattenFacts
  <2>. HIDE DEF X
  <2>5. \A k \in DOMAIN X :
          /\ X[k].op \notin {"spawn", "release"}
          /\ \E i \in DOMAIN terminals : X[k].t = terminals[i].id /\ X[k].g = terminals[i].gen
    <3>. TAKE k \in DOMAIN X
    <3>1. PICK i \in DOMAIN s : \E j \in DOMAIN s[i] : X[k] = s[i][j]
      BY <2>4
    <3>2. PICK j \in DOMAIN s[i] : X[k] = s[i][j]
      BY <3>1
    <3>. QED BY <2>2, <2>3, <3>2
  <2>6. LetGo(X)
    BY <1>0, <2>1, <2>4, <2>5, Asks
  <2>. QED BY <2>1, <2>6 DEF RunsMarked
<1>12. CASE CancelLatestTask
  <2>. DEFINE k == NewestCancellable
              t == runs[k].terminal
  <2>1. /\ Cancellable # {} /\ IsOpen(t) /\ runs' = [runs EXCEPT ![k].cancel = TRUE]
        /\ requests' = Append(requests, Req("kill", SessionOf(t)))
        /\ UNCHANGED <<terminals, active, opened, live, proc, events>>
    BY <1>12 DEF CancelLatestTask, service
  <2>2. k \in DOMAIN runs
    <3>1. runs \in Seq(Run) /\ Cancellable \subseteq 1..Len(runs)
      BY <1>0 DEF Cancellable, Kinds
    <3>2. \E i \in Cancellable : \A j \in Cancellable : j <= i
      <4>1. Len(runs) \in Nat
        BY <3>1
      <4>. QED BY <2>1, <3>1, <4>1, GreatestNatural
    <3>3. k \in Cancellable
      BY <3>2 DEF NewestCancellable
    <3>. QED BY <3>1, <3>3
  <2>. HIDE DEF k
  <2>3. IndexOf(t) \in DOMAIN terminals /\ SessionOf(t) = terminals[IndexOf(t)]
    BY <1>1, <2>1
  <2>. DEFINE X == <<Req("kill", terminals[IndexOf(t)])>>
  <2>4. LetGo(X)
    BY <1>6, <2>1, <2>3
  <2>5. /\ 1 \in DOMAIN X /\ X[1].op = "kill"
        /\ X[1].t = terminals[IndexOf(t)].id /\ X[1].g = terminals[IndexOf(t)].gen
    <3>. DEFINE r == Req("kill", terminals[IndexOf(t)])
    <3>1. r.op = "kill" /\ r.t = terminals[IndexOf(t)].id /\ r.g = terminals[IndexOf(t)].gen
      BY <1>0, <2>3, RequestOf
    <3>2. X = <<r>>
      OBVIOUS
    <3>. HIDE DEF r, X
    <3>. QED BY <3>1, <3>2
  <2>6. \A i \in DOMAIN terminals : terminals[i].id = t => i = IndexOf(t)
    BY <1>1
  <2>. HIDE DEF X
  <2>7. RunsMarked(X)
    BY <2>1, <2>2, <2>5, <2>6 DEF RunsMarked
  <2>. QED BY <2>4, <2>7
<1>13. ASSUME NEW t, AgentsTerminal(t)
       PROVE  IndexOf(t) \in DOMAIN terminals /\ SessionOf(t) = terminals[IndexOf(t)]
  BY <1>1, <1>13 DEF AgentsTerminal
<1>14. ASSUME NEW t, AgentKill(t) PROVE \E X : LetGo(X) /\ RunsMarked(X)
  <2>1. /\ IndexOf(t) \in DOMAIN terminals /\ requests' = Append(requests, Req("kill", terminals[IndexOf(t)]))
        /\ active' = active /\ UNCHANGED <<terminals, opened, live, proc, events, runs>>
    BY <1>13, <1>14 DEF AgentKill, model, service
  <2>2. LetGo(<<Req("kill", terminals[IndexOf(t)])>>)
    BY <1>6, <2>1
  <2>. QED BY <2>1, <2>2 DEF RunsMarked
<1>15. ASSUME NEW t, AgentRelease(t) PROVE \E X : LetGo(X) /\ RunsMarked(X)
  <2>. DEFINE i == IndexOf(t)
              kill == IsLive(terminals[i])
              X == RemoveRequests(terminals[i], kill)
  <2>1. /\ i \in DOMAIN terminals /\ requests' = requests \o X
        /\ terminals' = [terminals EXCEPT ![i].released = TRUE]
        /\ UNCHANGED <<opened, active, live, proc, events, runs>>
    BY <1>13, <1>15 DEF AgentRelease, service
  <2>2. kill \in BOOLEAN
    BY DEF IsLive
  <2>. HIDE DEF i, kill
  <2>3. /\ X \in Seq(Request)
        /\ \A x \in DOMAIN X : X[x].op \in {"kill", "release"} /\ X[x].t = terminals[i].id /\ X[x].g = terminals[i].gen
        /\ terminals[i].released \/ \E x \in DOMAIN X : X[x].op = "release"
    BY <1>0, <2>1, <2>2, RemovalAsks
  <2>. HIDE DEF X
  <2>4. terminals' = [j \in 1..Len(terminals) |->
                        IF j \in {i} THEN [terminals[j] EXCEPT !.released = TRUE] ELSE terminals[j]]
    BY <1>0, <2>1
  <2>5. \A x \in DOMAIN X : \E j \in {i} :
          /\ X[x].op \in {"kill", "release"} /\ X[x].t = terminals[j].id /\ X[x].g = terminals[j].gen
    BY <2>3
  <2>6. \A j \in {i} : terminals[j].released \/ \E x \in DOMAIN X :
          X[x].op = "release" /\ X[x].t = terminals[j].id /\ X[x].g = terminals[j].gen
    BY <2>3
  <2>7. {i} \in SUBSET DOMAIN terminals
    BY <2>1
  <2>8. LetGo(X)
    BY <2>1, <2>3, <2>4, <2>5, <2>6, <2>7, Releasing
  <2>. QED BY <2>1, <2>8 DEF RunsMarked
<1>16. CASE Quit
  <2>. DEFINE s == [i \in 1..Len(terminals) |-> RemoveRequests(terminals[i], IsLive(terminals[i]))]
              X == FlattenSeq(s)
              D == DOMAIN terminals
  <2>1. /\ requests' = requests \o X /\ UNCHANGED <<opened, active, live, proc, events, runs>>
        /\ terminals' = [i \in 1..Len(terminals) |-> [terminals[i] EXCEPT !.released = TRUE]]
    BY <1>16 DEF Quit, service
  <2>2. \A i \in DOMAIN terminals :
          /\ s[i] \in Seq(Request)
          /\ \A j \in DOMAIN s[i] : s[i][j].op \in {"kill", "release"} /\ s[i][j].t = terminals[i].id /\ s[i][j].g = terminals[i].gen
          /\ terminals[i].released \/ \E j \in DOMAIN s[i] : s[i][j].op = "release"
    <3>. TAKE i \in DOMAIN terminals
    <3>. DEFINE kill == IsLive(terminals[i])
    <3>1. kill \in BOOLEAN
      BY DEF IsLive
    <3>2. s[i] = RemoveRequests(terminals[i], kill)
      BY <1>0
    <3>. HIDE DEF s, kill
    <3>. QED BY <1>0, <3>1, <3>2, RemovalAsks
  <2>3. s \in Seq(Seq(Request)) /\ DOMAIN s = DOMAIN terminals
    <3>1. s = [i \in 1..Len(terminals) |-> s[i]] /\ \A i \in 1..Len(terminals) : s[i] \in Seq(Request)
      BY <1>0, <2>2
    <3>. HIDE DEF s
    <3>. QED BY <1>0, <3>1
  <2>. HIDE DEF s
  <2>4. /\ X \in Seq(Request)
        /\ \A k \in DOMAIN X : \E i \in DOMAIN s : \E j \in DOMAIN s[i] : X[k] = s[i][j]
        /\ \A i \in DOMAIN s : \A j \in DOMAIN s[i] : \E k \in DOMAIN X : X[k] = s[i][j]
    BY <2>3, FlattenFacts
  <2>. HIDE DEF X
  <2>5. terminals' = [i \in 1..Len(terminals) |->
                        IF i \in D THEN [terminals[i] EXCEPT !.released = TRUE] ELSE terminals[i]]
    BY <1>0, <2>1
  <2>6. \A k \in DOMAIN X : \E i \in D :
          /\ X[k].op \in {"kill", "release"} /\ X[k].t = terminals[i].id /\ X[k].g = terminals[i].gen
    <3>. TAKE k \in DOMAIN X
    <3>1. PICK i \in DOMAIN s : \E j \in DOMAIN s[i] : X[k] = s[i][j]
      BY <2>4
    <3>2. PICK j \in DOMAIN s[i] : X[k] = s[i][j]
      BY <3>1
    <3>3. /\ s[i][j].op \in {"kill", "release"}
          /\ s[i][j].t = terminals[i].id /\ s[i][j].g = terminals[i].gen
      BY <2>2, <2>3
    <3>4. i \in D
      BY <2>3
    <3>. QED BY <3>2, <3>3, <3>4
  <2>7. \A i \in D : terminals[i].released \/ \E k \in DOMAIN X :
          X[k].op = "release" /\ X[k].t = terminals[i].id /\ X[k].g = terminals[i].gen
    <3>. TAKE i \in D
    <3>1. CASE \E j \in DOMAIN s[i] : s[i][j].op = "release"
      <4>1. PICK j \in DOMAIN s[i] : s[i][j].op = "release"
        BY <3>1
      <4>2. PICK k \in DOMAIN X : X[k] = s[i][j]
        BY <2>3, <2>4
      <4>. QED BY <2>2, <4>1, <4>2
    <3>. QED BY <2>2, <3>1
  <2>8. D \in SUBSET DOMAIN terminals
    OBVIOUS
  <2>. HIDE DEF D
  <2>9. LetGo(X)
    BY <2>1, <2>4, <2>5, <2>6, <2>7, <2>8, Releasing
  <2>. QED BY <2>1, <2>9 DEF RunsMarked
<1>. QED BY <1>4, <1>5, <1>8, <1>9, <1>10, <1>11, <1>12, <1>14, <1>15, <1>16 DEF Command

\* ... and those that ask for a process start one.
LEMMA OpeningCases ==
  ASSUME TabsInv, Opening
  PROVE  \E t, g, Y : Starts(t, g, Y) /\ RunsAttached(t, g)
<1>1. CASE RestartTerminal
  <2>1. PICK t, g, Y : Starts(t, g, Y)
    BY <1>1, Restarts
  <2>2. runs' = runs /\ runs \in Seq(Run)
    BY <1>1 DEF RestartTerminal, TabsInv, Kinds
  <2>. QED BY <2>1, <2>2 DEF RunsAttached
<1>2. ASSUME NEW owner \in Owners, CreateTerminal(owner), UNCHANGED <<live, proc, events>>,
             AttachTaskRun(opened + 1) \/ runs' = runs
      PROVE  Starts(opened + 1, 1, <<>>) /\ RunsAttached(opened + 1, 1)
  <2>1. opened < MaxTerminals
    BY <1>2 DEF CreateTerminal
  <2>. QED BY <1>2, <2>1, Opens, Attaches
<1>3. CASE NewShellTerminal \/ RunTask
  BY <1>2, <1>3 DEF NewShellTerminal, RunTask, Owners, service
<1>4. ASSUME NEW isTask \in BOOLEAN, SpawnAgentTerminal(isTask)
      PROVE  Starts(opened + 1, 1, <<>>) /\ RunsAttached(opened + 1, 1)
  BY <1>2, <1>4 DEF SpawnAgentTerminal, Owners, service
<1>. QED BY <1>1, <1>3, <1>4, <1>2 DEF Opening

----------------------------------------------------------------------------
(***************************************************************************)
(* The specification                                                       *)
(***************************************************************************)

TerminalsInv == TabsInv /\ TruthOK /\ CancelOK

\* Without a tab, and with one whose process runs, all is in order.
LEMMA InitIsFit == Init => TerminalsInv
<1>. SUFFICES ASSUME Init PROVE TerminalsInv
  OBVIOUS
<1>0. requests = <<>> /\ events = <<>> /\ DOMAIN <<>> = {}
  BY DEF Init
<1>1. 1 \in Ids /\ 1 \in Gens /\ 0 \in 0..MaxGen /\ 1 \in 0..MaxGen /\ 0 \in 0..MaxTerminals /\ 1 \in 0..MaxTerminals
  BY BoundsAreNumbers DEF Ids, Gens
<1>2. /\ NoProc \in Proc /\ StartedProc \in Proc /\ StartedProc.active /\ StartedProc.waiter = "waiting"
      /\ StartedProc.reader = "reading" /\ ~StartedProc.released /\ ~NoProc.released /\ ~NoProc.active
      /\ NoProc.reader = "none" /\ NoProc.waiter = "none"
  BY DEF NoProc, StartedProc, Proc
<1>3. RequestsFit <=> LiveEnds
  BY <1>0 DEF RequestsFit, LiveFits, SpawnFits, SpawnEnds
<1>4. SpawnsAreNew /\ EventsTellTheTruth /\ ExitIsLast /\ SpawnedIsFirst
  BY <1>0 DEF SpawnsAreNew, EventsTellTheTruth, ExitIsLast, SpawnedIsFirst
<1>5. requests \in Seq(Request) /\ events \in Seq(Event)
  BY <1>0
<1>6. CASE terminals = <<>> /\ active = 0 /\ opened = 0 /\ runs = <<>>
           /\ live = [t \in Ids |-> 0] /\ proc = [t \in Ids |-> [g \in Gens |-> NoProc]]
  <2>1. terminals \in Seq(Session) /\ runs \in Seq(Run) /\ Len(terminals) = 0
    BY <1>6
  <2>2. live \in [Ids -> 0..MaxGen] /\ proc \in [Ids -> [Gens -> Proc]]
    BY <1>1, <1>2, <1>6
  <2>3. Kinds
    BY <1>1, <1>5, <1>6, <2>1, <2>2 DEF Kinds
  <2>4. DOMAIN terminals = {} /\ DOMAIN runs = {} /\ DOMAIN requests = {} /\ DOMAIN events = {}
    BY <1>0, <1>6
  <2>5. \A t \in Ids, g \in Gens : ~Mentioned(t, g)
    <3>1. \A g \in Gens : g # 0
      BY Numbers DEF Gens
    <3>. QED BY <1>6, <2>4, <3>1 DEF Mentioned
  <2>6. Distinct /\ AllKnown /\ LiveEnds
    BY <1>6, <2>4, <2>5 DEF Distinct, AllKnown, LiveEnds
  <2>7. ThreadsInOrder
    BY <1>2, <1>6 DEF ThreadsInOrder
  <2>8. TabShowsItsProcess
    BY <2>1 DEF TabShowsItsProcess
  <2>9. CancelOK
    BY <1>2, <1>4, <1>6, <2>4 DEF CancelOK, ReleasesAreMeant, RunsFollowTheirTabs, RunsAreServed, CancelServed
  <2>. QED BY <1>3, <1>4, <2>3, <2>6, <2>7, <2>8, <2>9 DEF TerminalsInv, TabsInv, TruthOK
<1>7. ASSUME NEW owner \in Owners,
             terminals = <<[id |-> 1, gen |-> 1, owner |-> owner, status |-> "running",
                            released |-> FALSE, shown |-> {}]>>,
             active = 1, opened = 1,
             runs \in {<<>>, <<[terminal |-> 1, status |-> "running", cancel |-> FALSE]>>},
             live = [t \in Ids |-> IF t = 1 THEN 1 ELSE 0],
             proc = [t \in Ids |-> [g \in Gens |-> IF t = 1 /\ g = 1 THEN StartedProc ELSE NoProc]]
      PROVE  TerminalsInv
  <2>. DEFINE s == [id |-> 1, gen |-> 1, owner |-> owner, status |-> "running",
                    released |-> FALSE, shown |-> {}]
              r == [terminal |-> 1, status |-> "running", cancel |-> FALSE]
  <2>1. /\ s \in Session /\ s.id = 1 /\ s.gen = 1 /\ s.status = "running"
        /\ s.released = FALSE /\ s.shown = {}
    BY <1>1 DEF Session, Statuses
  <2>2. r \in Run /\ r.terminal = 1 /\ r.status = "running" /\ ~r.cancel
    BY <1>1 DEF Run, RunStatuses
  <2>3. terminals = <<s>> /\ runs \in {<<>>, <<r>>}
    BY <1>7
  <2>. HIDE DEF s, r
  <2>4. terminals \in Seq(Session) /\ DOMAIN terminals = {1} /\ terminals[1] = s /\ Len(terminals) = 1
    BY <2>1, <2>3
  <2>5. runs \in Seq(Run) /\ \A i \in DOMAIN runs : runs[i] = r
    <3>1. CASE runs = <<>>
      <4>1. DOMAIN runs = {}
        BY <3>1
      <4>. QED BY <3>1, <4>1
    <3>2. CASE runs = <<r>>
      <4>1. DOMAIN runs = {1} /\ runs[1] = r
        BY <3>2
      <4>2. runs \in Seq(Run)
        BY <2>2, <3>2
      <4>. QED BY <4>1, <4>2
    <3>. QED BY <2>3, <3>1, <3>2
  <2>6. live \in [Ids -> 0..MaxGen] /\ \A t \in Ids : live[t] = IF t = 1 THEN 1 ELSE 0
    BY <1>1, <1>7
  <2>7. /\ proc \in [Ids -> [Gens -> Proc]]
        /\ \A t \in Ids, g \in Gens : proc[t][g] = IF t = 1 /\ g = 1 THEN StartedProc ELSE NoProc
    BY <1>1, <1>2, <1>7
  <2>8. Kinds
    BY <1>1, <1>5, <1>7, <2>4, <2>5, <2>6, <2>7 DEF Kinds
  <2>9. DOMAIN requests = {} /\ DOMAIN events = {}
    BY <1>0
  <2>10. Distinct
    BY <2>4 DEF Distinct
  <2>11. AllKnown
    <3>1. Known(1, 1)
      BY <1>7, <2>1, <2>4 DEF Known
    <3>2. \A t \in Ids, g \in Gens : Mentioned(t, g) => t = 1 /\ g = 1
      <4>1. \A g \in Gens : g # 0
        BY Numbers DEF Gens
      <4>. QED BY <2>6, <2>7, <2>9, <4>1 DEF Mentioned
    <3>. QED BY <1>7, <2>1, <2>2, <2>4, <2>5, <3>1, <3>2 DEF AllKnown
  <2>12. Current(1, 1)
    BY <2>1, <2>4 DEF Current
  <2>13. LiveEnds
    BY <2>6, <2>12 DEF LiveEnds
  <2>14. ThreadsInOrder
    BY <1>2, <2>7 DEF ThreadsInOrder
  <2>15. TabShowsItsProcess
    BY <1>1, <1>2, <2>1, <2>4, <2>7 DEF TabShowsItsProcess
  <2>16. ReleasesAreMeant
    BY <1>2, <2>7, <2>9 DEF ReleasesAreMeant
  <2>17. RunsFollowTheirTabs
    BY <2>1, <2>4 DEF RunsFollowTheirTabs
  <2>18. RunsAreServed /\ CancelServed
    BY <1>1, <2>2, <2>5, <2>6 DEF RunsAreServed, CancelServed
  <2>. QED BY <1>3, <1>4, <2>8, <2>10, <2>11, <2>13, <2>14, <2>15, <2>16, <2>17, <2>18
            DEF TerminalsInv, TabsInv, TruthOK, CancelOK
<1>. QED BY <1>6, <1>7 DEF Init

\* Each step keeps it: a command, the worker, the loop or a thread.
LEMMA StepsAreFit == TerminalsInv /\ [Next]_vars => TerminalsInv'
<1>. SUFFICES ASSUME TerminalsInv, [Next]_vars PROVE TerminalsInv'
  OBVIOUS
<1>0. TabsInv /\ TruthInv /\ CancelInv /\ ThreadsInOrder
  BY DEF TerminalsInv, TruthInv, CancelInv, TruthOK
<1>1. CASE Opening
  <2>1. PICK t, g, Y : Starts(t, g, Y) /\ RunsAttached(t, g)
    BY <1>0, <1>1, OpeningCases
  <2>. QED BY <1>0, <2>1, StartsKeeps, StartsTruth, StartsCancel DEF TerminalsInv
<1>2. CASE Command
  <2>1. PICK X : LetGo(X) /\ RunsMarked(X)
    BY <1>0, <1>2, CommandCases
  <2>. QED BY <1>0, <2>1, LetGoKeeps, LetGoTruth, LetGoCancel DEF TerminalsInv
<1>3. CASE Worker
  <2>1. PICK op, t, g : Spawned(t, g) \/ Handles(op, t, g)
    BY <1>0, <1>3, WorkerCases
  <2>2. CASE Spawned(t, g)
    BY <1>0, <2>2, SpawnedTabs, SpawnedTruth, SpawnedCancel DEF TerminalsInv
  <2>3. CASE Handles(op, t, g)
    BY <1>0, <2>3, HandlesTabs, HandlesTruth, HandlesCancel DEF TerminalsInv
  <2>. QED BY <2>1, <2>2, <2>3
<1>4. CASE Loop
  BY <1>0, <1>4, LoopCases, HearsTabs, HearsTruth, HearsCancel DEF TerminalsInv
<1>5. ASSUME NEW t \in Ids, NEW g \in Gens, Process(t, g) PROVE TerminalsInv'
  BY <1>0, <1>5, ThreadCases, ThreadTabs, ThreadTruth, ThreadCancel DEF TerminalsInv
<1>6. CASE UNCHANGED vars
  <2>1. UNCHANGED <<terminals, active, opened, runs, requests, events, live, proc>>
    BY <1>6 DEF vars, model, service
  <2>2. TabsInv'
    BY <1>0, <2>1 DEF TabsInv, Kinds, Distinct, AllKnown, Mentioned, Known, RequestsFit, LiveFits, SpawnFits,
                      LiveEnds, SpawnEnds, Releases, Current, SpawnsAreNew, Unborn
  <2>3. TruthOK'
    BY <1>0, <2>1 DEF TruthInv, TruthOK, ThreadsInOrder, EventsTellTheTruth, TabShowsItsProcess, ExitIsLast
  <2>4. CancelOK'
    BY <1>0, <2>1 DEF CancelInv, CancelOK, ReleasesAreMeant, Current, SpawnedIsFirst, RunsFollowTheirTabs,
                      RunsAreServed, EndReported, CancelServed
  <2>. QED BY <2>2, <2>3, <2>4 DEF TerminalsInv
<1>. QED BY <1>1, <1>2, <1>3, <1>4, <1>5, <1>6 DEF Next

\* The invariant holds in every state.
LEMMA AlwaysFit == Spec => []TerminalsInv
  BY InitIsFit, StepsAreFit, PTL DEF Spec

\* The worker knows a PTY by its tab alone, the model by tab and process: whatever is
\* closed, restarted, released or quit meanwhile, a request meets the process it was meant
\* for or none, a spawn finds no predecessor, and no process is left without a tab or a
\* release under way (terminal/src/service.rs, model.rs restart_terminal, remove_terminal).
THEOREM WorkerAndModelAgree == Spec => []WorkerFollowsTheModel
<1>1. TerminalsInv => WorkerFollowsTheModel
  <2>. SUFFICES ASSUME TerminalsInv PROVE WorkerFollowsTheModel
    OBVIOUS
  <2>0. TabsInv /\ Kinds /\ Distinct /\ RequestsFit
    BY DEF TerminalsInv, TabsInv
  <2>1. RequestsMeetTheirProcess
    <3>. SUFFICES ASSUME requests # <<>>
                  PROVE  live[Head(requests).t] \in IF Head(requests).op = "spawn" THEN {0} ELSE {0, Head(requests).g}
      BY DEF RequestsMeetTheirProcess
    <3>1. Head(requests) = requests[1]
      BY <2>0 DEF Kinds
    <3>2. live[requests[1].t] # 0 => live[requests[1].t] = requests[1].g /\ requests[1].op # "spawn"
      BY <2>0, HeadMeets
    <3>. QED BY <3>1, <3>2
  <2>2. NoOrphanedProcess
    <3>. SUFFICES ASSUME NEW t \in Ids, live[t] # 0
                  PROVE  \/ \E i \in 1..Len(requests) : requests[i] = [op |-> "release", t |-> t, g |-> live[t]]
                         \/ IsOpen(t) /\ SessionOf(t).gen = live[t] /\ ~SessionOf(t).released
      BY DEF NoOrphanedProcess
    <3>1. Current(t, live[t]) \/ \E j \in DOMAIN requests : Releases(j, t, live[t])
      BY <2>0 DEF RequestsFit, LiveEnds
    <3>2. CASE Current(t, live[t])
      BY <2>0, <3>2, Found DEF Current
    <3>3. ASSUME NEW j \in DOMAIN requests, Releases(j, t, live[t])
          PROVE  \E i \in 1..Len(requests) : requests[i] = [op |-> "release", t |-> t, g |-> live[t]]
      <4>1. requests[j] \in Request /\ j \in 1..Len(requests)
        BY <2>0, Fields DEF Kinds
      <4>2. requests[j] = [op |-> "release", t |-> t, g |-> live[t]]
        BY <3>3, <4>1 DEF Request, Releases
      <4>. QED BY <4>1, <4>2
    <3>. QED BY <3>1, <3>2, <3>3
  <2>. QED BY <2>1, <2>2 DEF WorkerFollowsTheModel
<1>. QED BY <1>1, AlwaysFit, PTL

\* Whatever the order of reader, waiter, worker and loop, a tab shows only what its present
\* process printed, says running or exited only of it, and nothing a process printed comes
\* after its end (on_pty_event, publication lock of the threads).
THEOREM TabsTellTheTruth == Spec => []TabTellsTheTruth
<1>1. TerminalsInv => TabTellsTheTruth
  <2>. SUFFICES ASSUME TerminalsInv PROVE TabTellsTheTruth
    OBVIOUS
  <2>0. TabsInv /\ Kinds /\ Distinct /\ ExitIsLast
    BY DEF TerminalsInv, TabsInv, TruthOK
  <2>1. TabShowsItsProcess
    BY DEF TerminalsInv, TruthOK
  <2>2. NothingAfterExit
    <3>. SUFFICES ASSUME NEW j \in 1..Len(events), events[j].kind = "output"
                  PROVE  /\ ~\E i \in 1..(j - 1) :
                               events[i] \in {Evt("exited", events[j].t, events[j].g, ok) : ok \in BOOLEAN}
                         /\ IsForCurrent(events[j]) => SessionOf(events[j].t).status # "exited"
      BY DEF NothingAfterExit
    <3>1. j \in DOMAIN events /\ \A i \in 1..(j - 1) : i \in DOMAIN events /\ i < j
      BY <2>0 DEF Kinds
    <3>2. \A i \in DOMAIN events :
            i < j /\ events[i].kind = "exited" => ~(events[i].t = events[j].t /\ events[i].g = events[j].g)
      BY <2>0, <3>1 DEF ExitIsLast
    <3>3. ~\E i \in 1..(j - 1) : \E ok \in BOOLEAN : events[i] = Evt("exited", events[j].t, events[j].g, ok)
      <4>1. \A u, h, ok : /\ Evt("exited", u, h, ok).kind = "exited"
                          /\ Evt("exited", u, h, ok).t = u /\ Evt("exited", u, h, ok).g = h
        BY DEF Evt
      <4>. QED BY <3>1, <3>2, <4>1
    <3>4. IsForCurrent(events[j]) => SessionOf(events[j].t).status # "exited"
      BY <2>0, <3>1, Found DEF ExitIsLast, IsForCurrent
    <3>. QED BY <3>3, <3>4
  <2>. QED BY <2>1, <2>2 DEF TabTellsTheTruth
<1>. QED BY <1>1, AlwaysFit, PTL

\* However the kill of a cancelled task races its start, its end, a restart, a release or the
\* quitting of the application, it is on its way, or has been served, or the end of the task
\* is reported (cancel_latest_task, RealPtyService::kill, the waiter).
THEOREM CancellationsAreServed == Spec => []CancelIsUnderWay
<1>1. TerminalsInv => CancelIsUnderWay
  <2>. SUFFICES ASSUME TerminalsInv, NEW i \in 1..Len(runs), NEW t, t = runs[i].terminal,
                       runs[i].cancel, Unfinished(runs[i]),
                       IsOpen(t), SessionOf(t).gen = 1, ~SessionOf(t).released
                PROVE  \/ \E j \in 1..Len(requests) : requests[j] = Req("kill", SessionOf(t))
                       \/ proc[t][1].doomed \/ proc[t][1].waiter \in {"draining", "holding"}
                       \/ \E j \in 1..Len(events) :
                            events[j].t = t /\ events[j].g = 1 /\ events[j].kind \in {"exited", "failed"}
    BY DEF CancelIsUnderWay
  <2>0. /\ TabsInv /\ Kinds /\ Distinct /\ CancelServed
        /\ i \in DOMAIN runs /\ DOMAIN requests = 1..Len(requests) /\ DOMAIN events = 1..Len(events)
    BY DEF TerminalsInv, TabsInv, CancelOK, Kinds
  <2>1. /\ IndexOf(t) \in DOMAIN terminals /\ terminals[IndexOf(t)].id = t
        /\ SessionOf(t) = terminals[IndexOf(t)] /\ Current(t, 1)
    BY <2>0, Found DEF Current
  <2>2. \/ \E j \in DOMAIN requests : requests[j].op = "kill" /\ requests[j].t = t /\ requests[j].g = 1
        \/ proc[t][1].doomed \/ proc[t][1].waiter \in {"draining", "holding"}
        \/ EndReported(t, 1)
    BY <2>0, <2>1 DEF CancelServed
  <2>3. ASSUME NEW j \in DOMAIN requests, requests[j].op = "kill", requests[j].t = t, requests[j].g = 1
        PROVE  requests[j] = Req("kill", SessionOf(t))
    <3>1. requests[j] \in Request
      BY <2>0, Fields
    <3>2. requests[j] = [op |-> "kill", t |-> t, g |-> 1]
      BY <2>3, <3>1 DEF Request
    <3>. QED BY <2>1, <3>2 DEF Req
  <2>. QED BY <2>0, <2>2, <2>3 DEF EndReported
<1>. QED BY <1>1, AlwaysFit, PTL

-----------------------------------------------------------------------------
(* Copy mode.  The screen's own cursor is only ever read with the emulator's *)
(* grid of the same moment, so what a step needs to know of the grid is that *)
(* its size, its history and its viewport fit together.                      *)
GridFields == {"size", "history", "offset", "cursor", "selection"}
Points == [line : Int, col : Int]
FitsTogether(g) ==
  /\ g.size \in GridSizes
  /\ g.history \in 0..MaxHistory
  /\ g.offset \in 0..g.history
  /\ g.cursor \in GridCells(g) /\ g.cursor.line >= 0
IsGrid(g) == (\E S : g \in [GridFields -> S]) /\ FitsTogether(g)
CopyInv ==
  /\ IsGrid(grid)
  /\ copy # <<>> => \E c, a \in Points : copy = <<[cursor |-> c, anchor |-> a]>>

\* What the sizes of a grid are.
LEMMA GridNumbers ==
  ASSUME NEW g, FitsTogether(g)
  PROVE  /\ g.size.rows \in Nat /\ g.size.rows >= 1 /\ g.size.cols \in Nat /\ g.size.cols >= 1
         /\ g.history \in Nat /\ g.offset \in Nat /\ g.offset <= g.history
         /\ g.history <= MaxHistory /\ MaxHistory \in Nat
BY CopyAssumption DEF FitsTogether

\* A cell of a grid is a point within its bounds, and every such point is a cell.
LEMMA CellFacts ==
  ASSUME NEW g, FitsTogether(g), NEW p
  PROVE  p \in GridCells(g) <=>
           /\ p \in Points
           /\ -g.history <= p.line /\ p.line <= g.size.rows - 1
           /\ 0 <= p.col /\ p.col <= g.size.cols - 1
<1>1. g.size.rows \in Nat /\ g.size.cols \in Nat /\ g.history \in Nat
  BY GridNumbers
<1>2. ASSUME p \in GridCells(g)
      PROVE  /\ p \in Points
             /\ -g.history <= p.line /\ p.line <= g.size.rows - 1
             /\ 0 <= p.col /\ p.col <= g.size.cols - 1
  BY <1>1, <1>2 DEF GridCells, Points, Point, Topmost, Bottommost
<1>3. ASSUME p \in Points, -g.history <= p.line, p.line <= g.size.rows - 1,
             0 <= p.col, p.col <= g.size.cols - 1
      PROVE  p \in GridCells(g)
  <2>1. p = Point(p.line, p.col)
    BY <1>3 DEF Points, Point
  <2>2. p.line \in Topmost(g)..Bottommost(g) /\ p.col \in 0..(g.size.cols - 1)
    BY <1>1, <1>3 DEF Points, Topmost, Bottommost
  <2>. QED BY <2>1, <2>2 DEF GridCells
<1>. QED BY <1>2, <1>3

\* A number of whole rows and a remainder, kept below n rows, is in a row below n.
LEMMA RowOfCell ==
  ASSUME NEW n \in Nat, NEW c \in Nat, c >= 1, NEW x \in Nat, x <= n * c - 1
  PROVE  x \div c \in Nat /\ x \div c <= n - 1 /\ x % c \in 0..(c - 1)
<1>1. x \div c \in Int
  OBVIOUS
<1>2. x \div c >= 0
  OBVIOUS
<1>3. x % c \in 0..(c - 1)
  OBVIOUS
<1>4. n * c \in Nat /\ x < n * c
  OBVIOUS
<1>5. x \div c < n
  BY <1>4
<1>. QED BY <1>1, <1>2, <1>3, <1>5

\* A move lands on a cell of the grid, wherever it starts (move_selection).
LEMMA SteppedIsACell ==
  ASSUME NEW g, FitsTogether(g), NEW from \in Points, NEW rows \in Int, NEW cols \in Int
  PROVE  Stepped(g, from, <<rows, cols>>) \in GridCells(g)
<1>. DEFINE n == g.size.rows + g.history
            c == g.size.cols
            next == Within((from.line - Topmost(g)) * c + from.col + rows * c + cols, 0, n * c - 1)
<1>1. /\ g.size.rows \in Nat /\ g.size.rows >= 1 /\ c \in Nat /\ c >= 1
      /\ g.history \in Nat /\ n \in Nat /\ n >= 1
  BY GridNumbers
<1>2. Bottommost(g) - Topmost(g) + 1 = n /\ Topmost(g) = -g.history
  BY <1>1 DEF Bottommost, Topmost
<1>3. Stepped(g, from, <<rows, cols>>) = Point(Topmost(g) + next \div c, next % c)
  BY <1>2 DEF Stepped
<1>4. n * c \in Nat /\ n * c >= 1
  <2>. HIDE DEF n, c
  <2>1. n * c \in Nat
    BY <1>1
  <2>2. n * c # 0
    BY <1>1
  <2>. QED BY <2>1, <2>2
<1>5. (from.line - Topmost(g)) * c + from.col + rows * c + cols \in Int
  <2>1. from.line - Topmost(g) \in Int /\ from.col \in Int
    BY <1>1, <1>2 DEF Points
  <2>. HIDE DEF c
  <2>2. (from.line - Topmost(g)) * c \in Int /\ rows * c \in Int
    BY <1>1, <2>1
  <2>. QED BY <2>1, <2>2
<1>6. next \in Nat /\ next <= n * c - 1
  <2>. HIDE DEF n, c
  <2>. QED BY <1>4, <1>5 DEF Within
<1>7. next \div c \in Nat /\ next \div c <= n - 1 /\ next % c \in 0..(c - 1)
  <2>. HIDE DEF next, n, c
  <2>. QED BY <1>1, <1>6, RowOfCell
<1>. DEFINE l == next \div c
            k == next % c
<1>8. Topmost(g) + l \in Topmost(g)..Bottommost(g) /\ k \in 0..(g.size.cols - 1)
  <2>. HIDE DEF next
  <2>1. l \in Nat /\ l <= n - 1 /\ k \in 0..(c - 1)
    BY <1>7
  <2>. HIDE DEF l, k
  <2>. QED BY <1>1, <1>2, <2>1 DEF Bottommost
<1>. HIDE DEF next
<1>. QED BY <1>3, <1>8 DEF GridCells

\* Only the viewport moves to show a point, and then the point is in it.
LEMMA FollowedShows ==
  ASSUME NEW g, IsGrid(g), NEW p \in GridCells(g)
  PROVE  /\ IsGrid(Followed(g, p))
         /\ Followed(g, p).selection = g.selection
         /\ Followed(g, p).size = g.size /\ Followed(g, p).history = g.history
         /\ p.line + Followed(g, p).offset \in 0..(g.size.rows - 1)
<1>. DEFINE f == Followed(g, p)
<1>1. /\ g.size.rows \in Nat /\ g.size.rows >= 1
      /\ g.history \in Nat /\ g.offset \in Nat /\ g.offset <= g.history
  BY GridNumbers DEF IsGrid
<1>2. p.line \in Int /\ -g.history <= p.line /\ p.line <= g.size.rows - 1
  BY CellFacts DEF IsGrid, Points
<1>3. PICK S : g \in [GridFields -> S]
  BY DEF IsGrid
<1>4. ASSUME NEW o \in 0..g.history, NEW r, r = [g EXCEPT !.offset = o]
      PROVE  /\ IsGrid(r) /\ r.offset = o /\ r.selection = g.selection
             /\ r.size = g.size /\ r.history = g.history
  <2>1. r \in [GridFields -> S \cup {o}]
    BY <1>3, <1>4 DEF GridFields
  <2>2. r.offset = o /\ r.selection = g.selection /\ r.size = g.size /\ r.history = g.history
        /\ r.cursor = g.cursor
    BY <1>3, <1>4 DEF GridFields
  <2>3. FitsTogether(r)
    BY <2>2 DEF IsGrid, FitsTogether, GridCells, Topmost, Bottommost
  <2>. QED BY <2>1, <2>2, <2>3 DEF IsGrid
<1>5. CASE p.line < -g.offset
  <2>1. f = [g EXCEPT !.offset = -p.line]
    BY <1>1, <1>2, <1>5 DEF Followed, ScrollDisplay, Within
  <2>2. -p.line \in 0..g.history
    BY <1>1, <1>2, <1>5
  <2>. HIDE DEF f
  <2>3. IsGrid(f) /\ f.offset = -p.line /\ f.selection = g.selection
        /\ f.size = g.size /\ f.history = g.history
    BY <1>4, <2>1, <2>2
  <2>4. p.line + f.offset \in 0..(g.size.rows - 1)
    BY <1>1, <1>2, <2>3
  <2>. QED BY <2>3, <2>4 DEF f
<1>6. CASE p.line > -g.offset + g.size.rows - 1
  <2>. DEFINE o == g.size.rows - 1 - p.line
  <2>1. o \in 0..g.history
    BY <1>1, <1>2, <1>6
  <2>2. f = [g EXCEPT !.offset = o]
    <3>1. g.offset + (-g.offset + g.size.rows - 1 - p.line) = o
      BY <1>1, <1>2
    <3>2. f = ScrollDisplay(g, -g.offset + g.size.rows - 1 - p.line)
      BY <1>1, <1>2, <1>6 DEF Followed
    <3>3. Within(o, 0, g.history) = o
      BY <1>1, <2>1 DEF Within
    <3>. QED BY <3>1, <3>2, <3>3 DEF ScrollDisplay
  <2>. HIDE DEF f
  <2>3. IsGrid(f) /\ f.offset = o /\ f.selection = g.selection
        /\ f.size = g.size /\ f.history = g.history
    BY <1>4, <2>1, <2>2
  <2>4. p.line + f.offset \in 0..(g.size.rows - 1)
    BY <1>1, <1>2, <2>3
  <2>. QED BY <2>3, <2>4 DEF f
<1>7. CASE ~(p.line < -g.offset) /\ ~(p.line > -g.offset + g.size.rows - 1)
  <2>1. f = g
    BY <1>7 DEF Followed
  <2>2. p.line + g.offset \in 0..(g.size.rows - 1)
    BY <1>1, <1>2, <1>7
  <2>. QED BY <2>1, <2>2
<1>. QED BY <1>5, <1>6, <1>7

\* The cells between two ends, in the order of the text.
CellsBetween(g, x, y) == {q \in GridCells(g) : ~Earlier(q, x) /\ ~Earlier(y, q)}

\* A selection from an anchor to another cell marks both and all between them, in
\* either direction (Selection::to_range with the sides move_selection gives it).
LEMMA ExtendedMarksBothEnds ==
  ASSUME NEW g, IsGrid(g), NEW a \in GridCells(g), NEW p \in GridCells(g), a # p,
         g.selection = Extended(a, p)
  PROVE  /\ Marked(g) = CellsBetween(g, a, p) \cup CellsBetween(g, p, a)
         /\ p \in Marked(g)
<1>1. /\ g.size.rows \in Nat /\ g.size.rows >= 1 /\ g.size.cols \in Nat
      /\ g.size.cols >= 1 /\ g.history \in Nat
  BY GridNumbers DEF IsGrid
<1>2. \A q \in GridCells(g) :
        /\ q.line \in Int /\ q.col \in Int
        /\ -g.history <= q.line /\ q.line <= g.size.rows - 1
        /\ 0 <= q.col /\ q.col <= g.size.cols - 1
  BY CellFacts DEF IsGrid, Points
<1>3. \A q \in GridCells(g) : q \in Points
  BY CellFacts DEF IsGrid
<1>4. \A q \in GridCells(g) : InGrid(g, q) = q
  <2>. SUFFICES ASSUME NEW q \in GridCells(g) PROVE InGrid(g, q) = q
    OBVIOUS
  <2>1. Within(q.line, Topmost(g), Bottommost(g)) = q.line
    BY <1>1, <1>2 DEF Within, Topmost, Bottommost
  <2>2. Within(q.col, 0, g.size.cols - 1) = q.col
    BY <1>1, <1>2 DEF Within
  <2>3. q = Point(q.line, q.col)
    BY <1>3 DEF Points, Point
  <2>. QED BY <2>1, <2>2, <2>3 DEF InGrid
<1>5. a.line # p.line \/ a.col # p.col
  BY <1>3 DEF Points
<1>6. \A x, y \in GridCells(g) :
        /\ Earlier(x, y) \/ Earlier(y, x) \/ (x.line = y.line /\ x.col = y.col)
        /\ Earlier(x, y) => ~Earlier(y, x)
  BY <1>2 DEF Earlier
<1>7. \A x, y \in GridCells(g) : Earlier(x, y) => CellsBetween(g, y, x) = {}
  BY <1>2 DEF CellsBetween, Earlier
<1>8. ASSUME NEW x \in GridCells(g), NEW y \in GridCells(g), Earlier(x, y),
             g.selection # <<>>, Ordered(g.selection) = <<End(x, "left"), End(y, "right")>>
      PROVE  Marked(g) = CellsBetween(g, x, y) /\ x \in Marked(g) /\ y \in Marked(g)
  <2>. DEFINE s == Ordered(g.selection)
  <2>1. s[1].at = x /\ s[1].side = "left" /\ s[2].at = y /\ s[2].side = "right" /\ s[1] # s[2]
    BY <1>8 DEF End
  <2>. HIDE DEF s
  <2>2. Marked(g) = {q \in GridCells(g) :
              /\ s[1] # s[2]
              /\ ~Earlier(q, InGrid(g, s[1].at)) /\ ~Earlier(InGrid(g, s[2].at), q)
              /\ q = InGrid(g, s[2].at) /\ s[2].side = "left" => FALSE
              /\ q = InGrid(g, s[1].at) /\ s[1].side = "right" => FALSE}
    BY <1>8 DEF Marked, s
  <2>3. Marked(g) = CellsBetween(g, x, y)
    BY <1>4, <2>1, <2>2 DEF CellsBetween
  <2>4. ~Earlier(x, x) /\ ~Earlier(y, y) /\ ~Earlier(y, x)
    BY <1>2, <1>6, <1>8 DEF Earlier
  <2>. QED BY <2>3, <2>4 DEF CellsBetween
<1>9. CASE Earlier(p, a)
  <2>1. g.selection = <<End(a, "right"), End(p, "left")>>
    BY <1>9 DEF Extended, Selection
  <2>2. g.selection # <<>> /\ Ordered(g.selection) = <<End(p, "left"), End(a, "right")>>
    BY <1>9, <2>1 DEF Ordered, End
  <2>. QED BY <1>7, <1>8, <1>9, <2>2
<1>10. CASE ~Earlier(p, a)
  <2>1. Earlier(a, p)
    BY <1>5, <1>6, <1>10
  <2>2. g.selection = <<End(a, "left"), End(p, "right")>>
    BY <1>10 DEF Extended, Selection
  <2>3. g.selection # <<>> /\ Ordered(g.selection) = <<End(a, "left"), End(p, "right")>>
    BY <1>10, <2>2 DEF Ordered, End
  <2>. QED BY <1>7, <1>8, <2>1, <2>3
<1>. QED BY <1>9, <1>10

\* What a copy key shows and marks, stated of one step.
MarksBothEnds ==
  LET p == copy'[1].cursor
      a == copy'[1].anchor
  IN  /\ p \in GridCells(grid')
      /\ p.line + grid'.offset \in 0..(grid'.size.rows - 1)
      /\ a \in GridCells(grid') \ {p} =>
           /\ Marked(grid') = CellsBetween(grid', a, p) \cup CellsBetween(grid', p, a)
           /\ p \in Marked(grid')

\* A change of the fields that the selection has nothing to do with.
LEMMA WithSelection ==
  ASSUME NEW g, IsGrid(g), NEW s
  PROVE  LET r == [g EXCEPT !.selection = s]
         IN  /\ IsGrid(r) /\ r.selection = s
             /\ r.size = g.size /\ r.history = g.history /\ r.offset = g.offset
             /\ r.cursor = g.cursor /\ GridCells(r) = GridCells(g)
<1>. DEFINE r == [g EXCEPT !.selection = s]
<1>1. PICK S : g \in [GridFields -> S]
  BY DEF IsGrid
<1>2. r \in [GridFields -> S \cup {s}]
  BY <1>1 DEF GridFields
<1>3. r.selection = s /\ r.size = g.size /\ r.history = g.history /\ r.offset = g.offset
      /\ r.cursor = g.cursor
  BY <1>1 DEF GridFields
<1>. HIDE DEF r
<1>4. GridCells(r) = GridCells(g)
  BY <1>3 DEF GridCells, Topmost, Bottommost
<1>5. FitsTogether(r)
  BY <1>3, <1>4 DEF IsGrid, FitsTogether
<1>6. IsGrid(r)
  BY <1>2, <1>5 DEF IsGrid
<1>. QED BY <1>3, <1>4, <1>6 DEF r

\* A copy key keeps the invariant and marks both ends.
LEMMA MoveMarks ==
  ASSUME CopyInv, NEW rows \in Int, NEW cols \in Int, NEW extend \in BOOLEAN,
         MoveSelection(<<rows, cols>>, extend)
  PROVE  CopyInv' /\ MarksBothEnds
<1>1. IsGrid(grid) /\ FitsTogether(grid)
  BY DEF CopyInv, IsGrid
<1>2. PICK c \in Points, a0 \in Points : copy = <<[cursor |-> c, anchor |-> a0]>>
  BY DEF CopyInv, MoveSelection
<1>. DEFINE p == Stepped(grid, c, <<rows, cols>>)
            a == IF extend THEN a0 ELSE p
            sel == IF extend THEN Extended(a, p) ELSE NewSelection(p)
            marked == [grid EXCEPT !.selection = sel]
            next == Followed(marked, p)
<1>3. p \in GridCells(grid)
  BY <1>1, SteppedIsACell
<1>4. copy[1].cursor = c /\ copy[1].anchor = a0
  BY <1>2
<1>5. copy' = <<[cursor |-> p, anchor |-> a]>> /\ grid' = next
  BY <1>4 DEF MoveSelection
<1>6. p \in Points
  BY <1>1, <1>3, CellFacts
<1>7. copy'[1].cursor = p /\ copy'[1].anchor = a /\ a \in Points
  BY <1>5, <1>6
<1>. HIDE DEF p, sel
<1>8. IsGrid(marked) /\ marked.selection = sel /\ marked.size = grid.size
      /\ marked.history = grid.history /\ GridCells(marked) = GridCells(grid)
  BY <1>1, WithSelection
<1>. HIDE DEF marked
<1>9. /\ IsGrid(next) /\ next.selection = sel /\ next.size = grid.size
      /\ next.history = grid.history /\ p.line + next.offset \in 0..(next.size.rows - 1)
  BY <1>3, <1>8, FollowedShows
<1>. HIDE DEF next
<1>10. GridCells(next) = GridCells(grid)
  BY <1>9 DEF GridCells, Topmost, Bottommost
<1>11. ASSUME a \in GridCells(next) \ {p}
       PROVE  /\ Marked(next) = CellsBetween(next, a, p) \cup CellsBetween(next, p, a)
              /\ p \in Marked(next)
  <2>1. sel = Extended(a, p)
    BY <1>11 DEF sel
  <2>. QED BY <1>3, <1>9, <1>10, <1>11, <2>1, ExtendedMarksBothEnds
<1>12. MarksBothEnds
  BY <1>3, <1>5, <1>7, <1>9, <1>10, <1>11 DEF MarksBothEnds
<1>13. CopyInv'
  BY <1>5, <1>6, <1>7, <1>9 DEF CopyInv
<1>. QED BY <1>12, <1>13

\* Entering copy mode puts the cursor where the emulator has its own.
LEMMA BeginMarks ==
  ASSUME CopyInv, BeginSelection
  PROVE  CopyInv' /\ MarksBothEnds
<1>1. IsGrid(grid) /\ FitsTogether(grid)
  BY DEF CopyInv, IsGrid
<1>2. PICK S : grid \in [GridFields -> S]
  BY DEF CopyInv, IsGrid
<1>. DEFINE g == [grid EXCEPT !.offset = 0]
            c == grid.cursor
<1>3. g \in [GridFields -> S \cup {0}] /\ g.offset = 0 /\ g.size = grid.size
      /\ g.history = grid.history /\ g.cursor = c
  BY <1>2 DEF GridFields
<1>4. grid' = [g EXCEPT !.selection = NewSelection(c)] /\ copy' = <<[cursor |-> c, anchor |-> c]>>
  BY <1>3 DEF BeginSelection
<1>. HIDE DEF g
<1>5. GridCells(g) = GridCells(grid)
  BY <1>3 DEF GridCells, Topmost, Bottommost
<1>6. 0 \in 0..grid.history
  BY <1>1, GridNumbers
<1>7. IsGrid(g)
  BY <1>1, <1>3, <1>5, <1>6 DEF IsGrid, FitsTogether
<1>8. /\ IsGrid(grid') /\ grid'.size = grid.size /\ grid'.offset = 0
      /\ GridCells(grid') = GridCells(grid)
  BY <1>3, <1>4, <1>5, <1>7, WithSelection
<1>9. c \in GridCells(grid) /\ c.line >= 0
  BY <1>1 DEF FitsTogether
<1>10. c \in Points /\ c.line <= grid.size.rows - 1 /\ grid.size.rows \in Nat
  BY <1>1, <1>9, CellFacts, GridNumbers
<1>11. c.line + grid'.offset \in 0..(grid'.size.rows - 1)
  BY <1>8, <1>9, <1>10 DEF Points
<1>12. copy'[1].cursor = c /\ copy'[1].anchor = c
  BY <1>4
<1>13. MarksBothEnds
  BY <1>8, <1>9, <1>11, <1>12 DEF MarksBothEnds
<1>14. CopyInv'
  BY <1>4, <1>8, <1>10 DEF CopyInv
<1>. QED BY <1>13, <1>14

\* Output and a new size leave a grid whose parts fit together.
LEMMA NewGrid ==
  ASSUME IsGrid(grid), NEW size \in GridSizes, NEW history \in 0..MaxHistory,
         NEW offset \in 0..history, NEW to \in Corners(size), NEW s,
         NEW r, r = [grid EXCEPT !.size = size, !.history = history, !.cursor = to,
                                 !.offset = offset, !.selection = s]
  PROVE  IsGrid(r)
<1>1. PICK S : grid \in [GridFields -> S]
  BY DEF IsGrid
<1>2. /\ r \in [GridFields -> S \cup {size, history, to, offset, s}]
      /\ r.size = size /\ r.history = history /\ r.cursor = to /\ r.offset = offset
  BY <1>1 DEF GridFields
<1>3. size.rows \in Nat /\ size.rows >= 1 /\ size.cols \in Nat /\ size.cols >= 1 /\ history \in Nat
  BY CopyAssumption
<1>4. to \in GridCells(r) /\ to.line >= 0
  <2>1. to = Point(0, 0) \/ to = Point(size.rows - 1, size.cols - 1)
    BY DEF Corners
  <2>2. \A l, k : l \in 0..(size.rows - 1) /\ k \in 0..(size.cols - 1) =>
          Point(l, k) \in GridCells(r) /\ Point(l, k).line = l
    <3>. SUFFICES ASSUME NEW l, NEW k, l \in 0..(size.rows - 1), k \in 0..(size.cols - 1)
                  PROVE  Point(l, k) \in GridCells(r) /\ Point(l, k).line = l
      OBVIOUS
    <3>1. l \in Topmost(r)..Bottommost(r)
      BY <1>2, <1>3 DEF Topmost, Bottommost
    <3>. QED BY <1>2, <3>1 DEF GridCells, Point
  <2>3. 0 \in 0..(size.rows - 1) /\ 0 \in 0..(size.cols - 1)
        /\ size.rows - 1 \in 0..(size.rows - 1) /\ size.cols - 1 \in 0..(size.cols - 1)
    BY <1>3
  <2>. QED BY <1>3, <2>1, <2>2, <2>3
<1>. QED BY <1>2, <1>4 DEF IsGrid, FitsTogether

\* What happens to the terminal meanwhile keeps the invariant and the screen's cursor.
LEMMA MeanwhileKeeps ==
  ASSUME CopyInv,
         \/ Feed
         \/ \E size \in GridSizes : Resize(size)
         \/ \E direction \in {-1, 1} : ScrollTerminalPage(direction)
  PROVE  CopyInv' /\ copy' = copy
<1>1. copy' = copy
  BY DEF Feed, Resize, ScrollTerminalPage
<1>2. IsGrid(grid) /\ FitsTogether(grid)
  BY DEF CopyInv, IsGrid
<1>3. grid.size \in GridSizes /\ grid.history \in Nat /\ grid.offset \in Nat
      /\ grid.offset <= grid.history /\ grid.history <= MaxHistory /\ MaxHistory \in Nat
      /\ grid.size.rows \in Nat /\ grid.size.rows >= 1
  BY <1>2, GridNumbers DEF FitsTogether
<1>4. PICK S : grid \in [GridFields -> S]
  BY <1>2 DEF IsGrid
<1>5. \A x \in Int, hi \in Nat : Within(x, 0, hi) \in 0..hi
  BY DEF Within
<1>6. CASE Feed
  <2>1. PICK lines \in 0..1, to \in Corners(grid.size), keep \in BOOLEAN :
          LET kept == Within(grid.history + lines, 0, MaxHistory)
              g == [grid EXCEPT !.history = kept, !.cursor = to,
                       !.offset = IF @ = 0 THEN 0 ELSE Within(@ + lines, 0, kept)]
          IN  grid' = [g EXCEPT !.selection =
                         IF @ = <<>> \/ ~keep THEN <<>> ELSE Rotated(g, @, lines)]
    BY <1>6, ZenonT(90) DEF Feed
  <2>. DEFINE kept == Within(grid.history + lines, 0, MaxHistory)
              off == IF grid.offset = 0 THEN 0 ELSE Within(grid.offset + lines, 0, kept)
              g == [grid EXCEPT !.history = kept, !.cursor = to, !.offset = off]
              sel == IF g.selection = <<>> \/ ~keep THEN <<>> ELSE Rotated(g, g.selection, lines)
  <2>2. grid' = [g EXCEPT !.selection = sel]
    BY <2>1
  <2>a. grid.history + lines \in Int /\ grid.offset + lines \in Int
    BY <1>3
  <2>b. kept \in 0..MaxHistory
    BY <1>3, <1>5, <2>a
  <2>3. kept \in 0..MaxHistory /\ kept \in Nat
    BY <1>3, <2>b
  <2>4. off \in 0..kept
    <3>. HIDE DEF kept
    <3>1. Within(grid.offset + lines, 0, kept) \in 0..kept
      BY <1>5, <2>a, <2>3
    <3>2. 0 \in 0..kept
      BY <2>3
    <3>. QED BY <3>1, <3>2
  <2>. HIDE DEF kept, off, sel
  <2>5. grid' = [grid EXCEPT !.size = grid.size, !.history = kept, !.cursor = to,
                             !.offset = off, !.selection = sel]
    BY <1>4, <2>2 DEF GridFields
  <2>6. IsGrid(grid')
    BY <1>2, <1>3, <2>3, <2>4, <2>5, NewGrid
  <2>. QED BY <1>1, <2>6 DEF CopyInv
<1>7. CASE \E size \in GridSizes : Resize(size)
  <2>0. PICK size \in GridSizes : Resize(size)
    BY <1>7
  <2>1. PICK history \in 0..MaxHistory, to \in Corners(size) :
          grid' = [grid EXCEPT !.size = size, !.history = history, !.cursor = to,
                               !.offset = Within(@, 0, history),
                               !.selection = IF size.cols # grid.size.cols THEN <<>> ELSE @]
    BY <2>0 DEF Resize
  <2>. DEFINE off == Within(grid.offset, 0, history)
              sel == IF size.cols # grid.size.cols THEN <<>> ELSE grid.selection
  <2>2. grid' = [grid EXCEPT !.size = size, !.history = history, !.cursor = to,
                             !.offset = off, !.selection = sel]
    BY <2>1
  <2>a. grid.offset \in Int /\ history \in Nat
    BY <1>3
  <2>3. off \in 0..history
    BY <1>5, <2>a
  <2>. HIDE DEF off, sel
  <2>4. IsGrid(grid')
    BY <1>2, <2>2, <2>3, NewGrid
  <2>. QED BY <1>1, <2>4 DEF CopyInv
<1>8. CASE \E direction \in {-1, 1} : ScrollTerminalPage(direction)
  <2>1. PICK direction \in {-1, 1} : ScrollTerminalPage(direction)
    BY <1>8
  <2>. DEFINE page == IF grid.size.rows = 1 THEN 1 ELSE grid.size.rows - 1
              off == Within(grid.offset + page * direction, 0, grid.history)
  <2>2. grid' = [grid EXCEPT !.offset = off]
    BY <2>1 DEF ScrollTerminalPage, ScrollDisplay
  <2>3. page * direction \in Int
    BY <1>3
  <2>4. off \in 0..grid.history
    <3>1. grid.offset + page * direction \in Int
      <4>. HIDE DEF page
      <4>. QED BY <1>3, <2>3
    <3>. QED BY <1>3, <1>5, <3>1
  <2>. HIDE DEF off
  <2>5. /\ grid' \in [GridFields -> S \cup {off}]
        /\ grid'.size = grid.size /\ grid'.history = grid.history /\ grid'.cursor = grid.cursor
        /\ grid'.offset = off
    BY <1>4, <2>2 DEF GridFields
  <2>6. GridCells(grid') = GridCells(grid)
    BY <2>5 DEF GridCells, Topmost, Bottommost
  <2>7. FitsTogether(grid')
    BY <1>2, <2>4, <2>5, <2>6 DEF FitsTogether
  <2>8. IsGrid(grid')
    BY <2>5, <2>7 DEF IsGrid
  <2>. QED BY <1>1, <2>8 DEF CopyInv
<1>. QED BY <1>6, <1>7, <1>8

\* Every step keeps the invariant, and a copy key marks both ends.
LEMMA NextCopy ==
  ASSUME CopyInv, [CopyNext]_copyVars
  PROVE  CopyInv' /\ (copyMode /\ copyMode' /\ copy # copy' => MarksBothEnds)
<1>1. CASE EnterTerminalCopyMode
  BY <1>1, BeginMarks DEF EnterTerminalCopyMode
<1>2. CASE \E stride \in Strides, extend \in BOOLEAN : MoveTerminalCopySelection(stride, extend)
  <2>1. PICK stride \in Strides, extend \in BOOLEAN : MoveSelection(stride, extend)
    BY <1>2 DEF MoveTerminalCopySelection
  <2>2. stride = <<stride[1], stride[2]>> /\ stride[1] \in Int /\ stride[2] \in Int
    BY CopyAssumption
  <2>3. MoveSelection(<<stride[1], stride[2]>>, extend)
    BY <2>1, <2>2
  <2>. QED BY <2>2, <2>3, MoveMarks
<1>3. CASE \E direction \in {-1, 1} : PageTerminalCopySelection(direction)
  <2>1. PICK direction \in {-1, 1} : MoveSelection(<<grid.size.rows * direction, 0>>, FALSE)
    BY <1>3 DEF PageTerminalCopySelection, MoveTerminalCopySelection
  <2>2. grid.size.rows \in Nat
    BY GridNumbers DEF CopyInv, IsGrid
  <2>3. grid.size.rows * direction \in Int
    BY <2>2
  <2>. DEFINE rows == grid.size.rows * direction
  <2>4. rows \in Int /\ MoveSelection(<<rows, 0>>, FALSE)
    BY <2>1, <2>3
  <2>. HIDE DEF rows
  <2>5. 0 \in Int
    OBVIOUS
  <2>6. FALSE \in BOOLEAN
    OBVIOUS
  <2>. QED BY <2>4, <2>5, <2>6, MoveMarks, Zenon
<1>4. CASE ConfirmTerminalCopyMode \/ CancelTerminalCopyMode
  <2>1. grid' = [grid EXCEPT !.selection = <<>>] /\ copy' = <<>> /\ copyMode' = FALSE
    BY <1>4 DEF ConfirmTerminalCopyMode, CancelTerminalCopyMode, ClearSelection
  <2>2. IsGrid(grid')
    BY <2>1, WithSelection DEF CopyInv
  <2>. QED BY <2>1, <2>2 DEF CopyInv
<1>5. CASE \/ Feed
           \/ \E size \in GridSizes : Resize(size)
           \/ \E direction \in {-1, 1} : ScrollTerminalPage(direction)
  BY <1>5, MeanwhileKeeps
<1>6. CASE UNCHANGED copyVars
  BY <1>6 DEF copyVars, CopyInv
<1>. QED BY <1>1, <1>2, <1>3, <1>4, <1>5, <1>6 DEF CopyNext

\* A terminal starts with an empty history, in a size that has a cell.
LEMMA InitCopy == CopyInit => CopyInv
<1>. SUFFICES ASSUME CopyInit PROVE CopyInv
  OBVIOUS
<1>1. PICK size \in GridSizes :
        grid = [size |-> size, history |-> 0, offset |-> 0, cursor |-> Point(0, 0), selection |-> <<>>]
  BY DEF CopyInit
<1>2. grid \in [GridFields -> {size, 0, Point(0, 0), <<>>}]
  BY <1>1 DEF GridFields
<1>3. size.rows \in Nat /\ size.rows >= 1 /\ size.cols \in Nat /\ size.cols >= 1 /\ MaxHistory \in Nat
  BY CopyAssumption
<1>4. grid.size = size /\ grid.history = 0 /\ grid.offset = 0 /\ grid.cursor = Point(0, 0)
  BY <1>1
<1>5. 0 \in Topmost(grid)..Bottommost(grid) /\ 0 \in 0..(size.cols - 1)
  BY <1>3, <1>4 DEF Topmost, Bottommost
<1>6. Point(0, 0) \in GridCells(grid) /\ Point(0, 0).line = 0
  BY <1>4, <1>5 DEF GridCells, Point
<1>7. FitsTogether(grid)
  BY <1>3, <1>4, <1>6 DEF FitsTogether
<1>8. copy = <<>>
  BY DEF CopyInit
<1>. QED BY <1>2, <1>7, <1>8 DEF CopyInv, IsGrid

\* Whatever output and resizing did since the last key, a copy key leaves its cursor on
\* a cell in the viewport, and one that extends marks every cell from the anchor to the
\* cursor, both ends included, in either direction (move_selection, snapshot).
THEOREM CopyKeysMarkBothEnds == CopyInit /\ [][CopyNext]_copyVars => MovesMarkBothEnds
<1>1. ASSUME CopyInv, [CopyNext]_copyVars
      PROVE  [copyMode /\ copyMode' /\ copy # copy' =>
       LET p == copy'[1].cursor
           a == copy'[1].anchor
           between(x, y) == {q \in GridCells(grid') : ~Earlier(q, x) /\ ~Earlier(y, q)}
           span == between(a, p) \cup between(p, a)
       IN  /\ p \in GridCells(grid')
           /\ p.line + grid'.offset \in 0..(grid'.size.rows - 1)
           /\ a \in GridCells(grid') \ {p} =>
                /\ Marked(grid') = span
                /\ Point(p.line + grid'.offset, p.col) \in Highlighted(grid')]_copyVars
  <2>. SUFFICES ASSUME copyMode, copyMode', copy # copy'
                PROVE  LET p == copy'[1].cursor
                           a == copy'[1].anchor
                           between(x, y) == {q \in GridCells(grid') : ~Earlier(q, x) /\ ~Earlier(y, q)}
                           span == between(a, p) \cup between(p, a)
                       IN  /\ p \in GridCells(grid')
                           /\ p.line + grid'.offset \in 0..(grid'.size.rows - 1)
                           /\ a \in GridCells(grid') \ {p} =>
                                /\ Marked(grid') = span
                                /\ Point(p.line + grid'.offset, p.col) \in Highlighted(grid')
    OBVIOUS
  <2>1. MarksBothEnds
    BY <1>1, NextCopy
  <2>. DEFINE p == copy'[1].cursor
  <2>2. ASSUME p \in Marked(grid'), p.line + grid'.offset \in 0..(grid'.size.rows - 1)
        PROVE  Point(p.line + grid'.offset, p.col) \in Highlighted(grid')
    BY <2>2 DEF Highlighted
  <2>. HIDE DEF p
  <2>. QED BY <2>1, <2>2 DEF MarksBothEnds, CellsBetween, p
<1>. QED BY <1>1, InitCopy, NextCopy, PTL DEF MovesMarkBothEnds
=============================================================================
