----------------------------- MODULE Terminals -----------------------------
(* The terminals of the application: tabs in the model, one worker thread   *)
(* that owns every PTY, a reader and a waiter thread per process, and the   *)
(* task runs that ride on tabs. A tab keeps its id over restarts and counts *)
(* its processes in a generation; requests and events carry both. Requests  *)
(* are served in order; the channel of events is bounded, and a full one    *)
(* blocks whoever publishes. What a process prints is one mark, its screen  *)
(* the set of generations that have printed on it.                          *)
EXTENDS Naturals, Sequences, SequencesExt

CONSTANTS
  MaxTerminals,  \* bound: tabs ever opened
  MaxGen,        \* bound: processes per tab
  MaxSpawns,     \* bound: processes over all tabs
  MaxMoves,      \* bound: commands of the human, the agent and the window
  MaxRequests,   \* bound: requests under way before an optional one is made
  MaxRuns,       \* task runs kept (20 in the code)
  Capacity       \* of the channel of events (256 in the code)

ASSUME BoundsAreNumbers == {MaxTerminals, MaxGen} \subseteq Nat \ {0}

VARIABLES
  terminals,  \* the tabs in order, records of Session
  active,     \* index of the visible tab, 0 for none
  opened,     \* next_terminal_id
  focus,      \* the terminal pane or any other pane
  closing,    \* the tab a close prompt asks about, 0 for none
  creating,   \* tabs whose terminal/create is not answered yet
  runs,       \* task runs, oldest first
  quitting,   \* shutdown_terminals has run
  moves,      \* commands given, for the bound
  spawns,     \* processes asked for, for the bound
  requests,   \* outbox of the model and channel of the worker
  live,       \* what the PTY service holds: generation by tab, 0 for none
  proc,       \* threads by tab and generation
  events      \* the channel back to the loop

model == <<terminals, active, opened, focus, closing, creating, runs>>
service == <<live, proc>>
bounds == <<moves, spawns>>
vars == <<model, quitting, requests, service, events, bounds>>

Ids == 1..MaxTerminals
Gens == 1..MaxGen
Owners == {"human", "agent"}
Statuses == {"starting", "running", "exited", "failed"}
RunStatuses == {"starting", "running", "succeeded", "failed", "cancelled"}
Session == [id : Ids, gen : Gens, owner : Owners, status : Statuses,
            released : BOOLEAN, shown : SUBSET Gens]
Run == [terminal : Ids, status : RunStatuses, cancel : BOOLEAN]
Request == [op : {"spawn", "write", "resize", "kill", "release"}, t : Ids, g : Gens]
Event == [kind : {"spawned", "output", "exited", "failed"}, t : Ids, g : Gens, ok : BOOLEAN]
Proc == [reader : {"none", "reading", "holding"},
         waiter : {"none", "waiting", "draining", "holding", "done"},
         active : BOOLEAN, released : BOOLEAN, doomed : BOOLEAN]
NoProc == [reader |-> "none", waiter |-> "none", active |-> FALSE,
           released |-> FALSE, doomed |-> FALSE]
StartedProc == [NoProc EXCEPT !.reader = "reading", !.waiter = "waiting", !.active = TRUE]

Req(op, s) == [op |-> op, t |-> s.id, g |-> s.gen]
Evt(kind, t, g, ok) == [kind |-> kind, t |-> t, g |-> g, ok |-> ok]
Room == Len(events) < Capacity
IsLive(s) == ~s.released /\ s.status \in {"starting", "running"}
IndexesOf(t) == {i \in 1..Len(terminals) : terminals[i].id = t}
IsOpen(t) == IndexesOf(t) # {}
IndexOf(t) == CHOOSE i \in IndexesOf(t) : TRUE
SessionOf(t) == terminals[IndexOf(t)]
ActiveSession == terminals[active]
Unfinished(r) == r.status \in {"starting", "running"}

----------------------------------------------------------------------------
(* Tabs.                                                                    *)

\* create_terminal_with_limit: focus follows the human, never the agent.
CreateTerminal(owner) ==
  /\ opened < MaxTerminals
  /\ opened' = opened + 1
  /\ LET s == [id |-> opened + 1, gen |-> 1, owner |-> owner, status |-> "starting",
               released |-> FALSE, shown |-> {}]
     IN /\ terminals' = Append(terminals, s)
        /\ requests' = Append(requests, Req("spawn", s))
  /\ active' = IF owner = "human" \/ focus # "terminal" THEN Len(terminals) + 1 ELSE active
  /\ focus' = IF owner = "human" THEN "terminal" ELSE focus

\* attach_task_run: the oldest run makes room for the newest.
AttachTaskRun(t) ==
  LET all == Append(runs, [terminal |-> t, status |-> "starting", cancel |-> FALSE])
  IN runs' = IF Len(all) > MaxRuns THEN Tail(all) ELSE all

\* terminal_accepts_input
AcceptsInput == active # 0 /\ IsLive(ActiveSession)

\* on_chord: an overlay and a running shell keep the keys to themselves;
\* pane focus and the cancellation of the task in view get through.
AtKeyboard == ~quitting /\ closing = 0
Commanding == AtKeyboard /\ ~(focus = "terminal" /\ AcceptsInput)

\* new_shell_terminal
NewShellTerminal ==
  /\ Commanding
  /\ CreateTerminal("human")
  /\ UNCHANGED <<closing, creating, runs, quitting, service, events>>

\* run_task
RunTask ==
  /\ Commanding
  /\ CreateTerminal("human")
  /\ AttachTaskRun(opened + 1)
  /\ UNCHANGED <<closing, creating, quitting, service, events>>

\* focus_pane, toggle_terminal_focus towards another pane
LeaveTerminalPane ==
  /\ AtKeyboard /\ focus = "terminal"
  /\ focus' = "other"
  /\ UNCHANGED <<terminals, active, opened, closing, creating, runs, quitting, requests, service, events>>

\* toggle_terminal_focus towards the terminals; with none open it opens a shell
EnterTerminalPane ==
  /\ AtKeyboard /\ focus = "other" /\ terminals # <<>>
  /\ focus' = "terminal"
  /\ UNCHANGED <<terminals, active, opened, closing, creating, runs,
                 quitting, requests, service, events>>

\* cycle_terminal
CycleTerminal(delta) ==
  /\ Commanding /\ terminals # <<>>
  /\ LET current == IF active = 0 THEN 0 ELSE active - 1
     IN active' = ((current + Len(terminals) + delta) % Len(terminals)) + 1
  /\ focus' = "terminal"
  /\ UNCHANGED <<terminals, opened, closing, creating, runs,
                 quitting, requests, service, events>>

\* What restart_terminal asks of the worker, in this order.
RestartRequests(s) ==
  (IF IsLive(s) THEN <<Req("kill", s)>> ELSE <<>>)
  \o (IF s.released THEN <<>> ELSE <<Req("release", s)>>)
  \o <<[op |-> "spawn", t |-> s.id, g |-> s.gen + 1]>>

\* restart_terminal: a tab whose create is still held is left alone.
RestartTerminal ==
  /\ Commanding /\ active # 0
  /\ LET s == ActiveSession
     IN /\ s.id \notin creating
        /\ s.gen < MaxGen
        /\ requests' = requests \o RestartRequests(s)
        /\ terminals' = [terminals EXCEPT ![active] =
             [s EXCEPT !.gen = s.gen + 1, !.status = "starting", !.released = FALSE,
                       !.shown = {}]]
  /\ UNCHANGED <<active, opened, focus, closing, creating, runs, quitting, service, events>>

\* remove_terminal: the tab in view stays in view when another one is removed.
NextActive(i) ==
  LET last == Len(terminals) - 1
  IN CASE last = 0 -> 0
       [] last > 0 /\ active \in {0, i} -> IF i > last THEN last ELSE i
       [] last > 0 /\ active > i -> active - 1
       [] OTHER -> active

\* Mutant: a tab without a running process takes its PTY with it.
RemoveRequestsIfLive(s, kill) ==
  IF ~IsLive(s) THEN <<>>
  ELSE (IF kill THEN <<Req("kill", s)>> ELSE <<>>) \o <<Req("release", s)>>

\* What remove_terminal asks of the worker.
RemoveRequests(s, kill) ==
  IF s.released THEN <<>>
  ELSE (IF kill THEN <<Req("kill", s)>> ELSE <<>>) \o <<Req("release", s)>>

\* remove_terminal
RemoveTerminal(t, kill) ==
  LET i == IndexOf(t)
  IN /\ requests' = requests \o RemoveRequests(terminals[i], kill)
     /\ terminals' = RemoveAt(terminals, i)
     /\ active' = NextActive(i)
     /\ creating' = creating \ {t}
     /\ focus' = IF Len(terminals) = 1 THEN "other" ELSE focus

\* close_terminal: a running process is asked about first.
CloseTerminal ==
  /\ Commanding /\ active # 0
  /\ IF IsLive(ActiveSession)
     THEN /\ closing' = ActiveSession.id
          /\ UNCHANGED <<terminals, active, focus, creating, requests>>
     ELSE /\ RemoveTerminal(ActiveSession.id, FALSE)
          /\ UNCHANGED closing
  /\ UNCHANGED <<opened, runs, quitting, service, events>>

\* confirm_prompt with ConfirmCloseTerminal
ConfirmClose ==
  /\ ~quitting /\ closing # 0
  /\ closing' = 0
  /\ IF IsOpen(closing)
     THEN RemoveTerminal(closing, TRUE)
     ELSE UNCHANGED <<terminals, active, focus, creating, requests>>
  /\ UNCHANGED <<opened, runs, quitting, service, events>>

\* prompt_chord with Esc
KeepTerminal ==
  /\ ~quitting /\ closing # 0
  /\ closing' = 0
  /\ UNCHANGED <<terminals, active, opened, focus, creating, runs,
                 quitting, requests, service, events>>

\* type_terminal_chord
TypeTerminalChord ==
  /\ AtKeyboard /\ focus = "terminal" /\ AcceptsInput
  /\ Len(requests) < MaxRequests
  /\ requests' = Append(requests, Req("write", ActiveSession))
  /\ UNCHANGED <<model, quitting, service, events>>

\* set_terminal_size: every tab that can still print is told.
SetTerminalSize ==
  /\ ~quitting
  /\ Len(requests) < MaxRequests
  /\ requests' = requests \o FlattenSeq([i \in 1..Len(terminals) |->
                   IF IsLive(terminals[i]) THEN <<Req("resize", terminals[i])>> ELSE <<>>])
  /\ UNCHANGED <<model, quitting, service, events>>

\* Task runs that cancel_latest_task considers.
Cancellable == {i \in 1..Len(runs) : Unfinished(runs[i]) /\ ~runs[i].cancel}
NewestCancellable == CHOOSE i \in Cancellable : \A j \in Cancellable : j <= i

\* cancel_latest_task; in the terminal pane the key gets through only while the
\* tab in view runs a task.
CancelLatestTask ==
  /\ AtKeyboard
  /\ focus = "terminal" /\ AcceptsInput =>
       \E i \in 1..Len(runs) : runs[i].terminal = ActiveSession.id /\ Unfinished(runs[i])
  /\ Cancellable # {}
  /\ LET r == runs[NewestCancellable]
     IN /\ IsOpen(r.terminal)
        /\ runs' = [runs EXCEPT ![NewestCancellable].cancel = TRUE]
        /\ requests' = Append(requests, Req("kill", SessionOf(r.terminal)))
  /\ UNCHANGED <<terminals, active, opened, focus, closing, creating,
                 quitting, service, events>>

\* shutdown_terminals and the end of the worker
Quit ==
  /\ ~quitting
  /\ quitting' = TRUE
  /\ creating' = {}
  /\ requests' = requests \o FlattenSeq([i \in 1..Len(terminals) |->
                   RemoveRequests(terminals[i], IsLive(terminals[i]))])
  /\ terminals' = [i \in 1..Len(terminals) |-> [terminals[i] EXCEPT !.released = TRUE]]
  /\ UNCHANGED <<active, opened, focus, closing, runs, service, events>>

----------------------------------------------------------------------------
(* The agent. What it may run is the subject of AgentBridge; here it has    *)
(* been allowed.                                                            *)

\* spawn_agent_terminal: a command from the task catalogue is a task run too.
SpawnAgentTerminal(isTask) ==
  /\ ~quitting
  /\ CreateTerminal("agent")
  /\ IF isTask THEN AttachTaskRun(opened + 1) ELSE UNCHANGED runs
  /\ creating' = creating \cup {opened + 1}
  /\ UNCHANGED <<closing, quitting, service, events>>

AgentsTerminal(t) ==
  /\ ~quitting /\ IsOpen(t) /\ t \notin creating
  /\ SessionOf(t).owner = "agent" /\ ~SessionOf(t).released

\* terminal/kill
AgentKill(t) ==
  /\ AgentsTerminal(t)
  /\ Len(requests) < MaxRequests
  /\ requests' = Append(requests, Req("kill", SessionOf(t)))
  /\ UNCHANGED <<model, quitting, service, events>>

\* terminal/release: the tab stays with what it shows.
AgentRelease(t) ==
  /\ AgentsTerminal(t)
  /\ requests' = requests \o RemoveRequests(SessionOf(t), IsLive(SessionOf(t)))
  /\ terminals' = [terminals EXCEPT ![IndexOf(t)].released = TRUE]
  /\ UNCHANGED <<active, opened, focus, closing, creating, runs,
                 quitting, service, events>>

Agent ==
  \/ \E isTask \in BOOLEAN : SpawnAgentTerminal(isTask)
  \/ \E t \in Ids : AgentKill(t) \/ AgentRelease(t)

\* Commands that ask for a process, and the others.
Opening ==
  \/ NewShellTerminal \/ RunTask \/ RestartTerminal
  \/ \E isTask \in BOOLEAN : SpawnAgentTerminal(isTask)

Command ==
  \/ LeaveTerminalPane \/ EnterTerminalPane \/ CycleTerminal(0) \/ CycleTerminal(1)
  \/ CloseTerminal \/ ConfirmClose \/ KeepTerminal
  \/ TypeTerminalChord \/ SetTerminalSize
  \/ CancelLatestTask \/ Quit
  \/ \E t \in Ids : AgentKill(t) \/ AgentRelease(t)

----------------------------------------------------------------------------
(* The worker thread: one request at a time. It looks a PTY up by the tab   *)
(* alone; the generation only labels a failure.                             *)

Serving(ops) == requests # <<>> /\ Head(requests).op \in ops
Served == requests' = Tail(requests)
Failure(r) == Room /\ events' = Append(events, Evt("failed", r.t, r.g, FALSE))

\* RealPtyService::spawn; Spawned is published before the threads start.
WorkerSpawn ==
  /\ Serving({"spawn"}) /\ Served
  /\ LET r == Head(requests)
     IN \/ /\ live[r.t] = 0 /\ Room
           /\ live' = [live EXCEPT ![r.t] = r.g]
           /\ proc' = [proc EXCEPT ![r.t][r.g] = StartedProc]
           /\ events' = Append(events, Evt("spawned", r.t, r.g, TRUE))
        \/ Failure(r) /\ UNCHANGED service
  /\ UNCHANGED <<model, quitting>>

\* RealPtyService::write and resize; either may fail, and does without a PTY.
WorkerWrite ==
  /\ Serving({"write", "resize"}) /\ Served
  /\ LET r == Head(requests)
     IN \/ live[r.t] # 0 /\ UNCHANGED events
        \/ Failure(r)
  /\ UNCHANGED <<model, quitting, service>>

\* Mutant: SIGHUP alone; a process that ignores it goes on.
TerminatedPolitely(p) == p

\* terminate_process_group: SIGHUP, a wait, SIGKILL.
Terminated(p) == [p EXCEPT !.doomed = TRUE]

\* RealPtyService::kill
WorkerKill ==
  /\ Serving({"kill"}) /\ Served
  /\ LET r == Head(requests)
         g == live[r.t]
     IN \/ g = 0 /\ UNCHANGED <<proc, events>>
        \/ g # 0 /\ proc' = [proc EXCEPT ![r.t][g] = Terminated(@)] /\ UNCHANGED events
        \/ g # 0 /\ Failure(r) /\ UNCHANGED proc
  /\ UNCHANGED <<model, quitting, live>>

\* RealPtyService::release: callbacks are suppressed, then the process ended.
WorkerRelease ==
  /\ Serving({"release"}) /\ Served
  /\ LET r == Head(requests)
         g == live[r.t]
     IN \/ g = 0 /\ UNCHANGED <<service, events>>
        \/ /\ g # 0
           /\ live' = [live EXCEPT ![r.t] = 0]
           /\ \/ /\ proc' = [proc EXCEPT ![r.t][g] =
                      [Terminated(@) EXCEPT !.released = TRUE, !.active = FALSE]]
                 /\ UNCHANGED events
              \/ /\ proc' = [proc EXCEPT ![r.t][g] =
                      [@ EXCEPT !.released = TRUE, !.active = FALSE]]
                 /\ Failure(r)
  /\ UNCHANGED <<model, quitting>>

Worker == (WorkerSpawn \/ WorkerWrite \/ WorkerKill \/ WorkerRelease) /\ UNCHANGED bounds

----------------------------------------------------------------------------
(* The threads of one process. Reader and waiter publish under one lock and *)
(* may block in it on a full channel, past the test of their flag: "holding".*)

Thread(t, g, p) ==
  /\ proc' = [proc EXCEPT ![t][g] = p]
  /\ UNCHANGED <<model, quitting, requests, live, bounds>>

\* The reader takes the lock, passes the flag, and publishes or blocks.
ReaderReads(t, g) ==
  LET p == proc[t][g]
  IN /\ p.reader = "reading" /\ p.waiter # "holding" /\ p.active
     /\ \/ Room /\ events' = Append(events, Evt("output", t, g, TRUE)) /\ Thread(t, g, p)
        \/ ~Room /\ Thread(t, g, [p EXCEPT !.reader = "holding"]) /\ UNCHANGED events

ReaderUnblocks(t, g) ==
  /\ proc[t][g].reader = "holding" /\ Room
  /\ events' = Append(events, Evt("output", t, g, TRUE))
  /\ Thread(t, g, [proc[t][g] EXCEPT !.reader = "reading"])

\* child.wait has returned and POST_EXIT_DRAIN_TIMEOUT is over: the reader has
\* seen the end of the file and reads no more, or is silenced.
ChildEnds(t, g) ==
  LET p == proc[t][g]
  IN /\ p.waiter = "waiting"
     /\ Thread(t, g, [p EXCEPT !.waiter = "draining", !.active = FALSE])
     /\ UNCHANGED events

Verdicts(t, g) == {Evt("exited", t, g, TRUE), Evt("exited", t, g, FALSE),
                   Evt("failed", t, g, FALSE)}

\* The waiter takes the lock, and publishes, blocks, or finds the PTY released.
WaiterLocks(t, g) ==
  LET p == proc[t][g]
  IN /\ p.waiter = "draining" /\ p.reader # "holding"
     /\ \/ p.released /\ Thread(t, g, [p EXCEPT !.waiter = "done"]) /\ UNCHANGED events
        \/ /\ ~p.released /\ Room
           /\ \E e \in Verdicts(t, g) : events' = Append(events, e)
           /\ Thread(t, g, [p EXCEPT !.waiter = "done"])
        \/ /\ ~p.released /\ ~Room
           /\ Thread(t, g, [p EXCEPT !.waiter = "holding"])
           /\ UNCHANGED events

WaiterUnblocks(t, g) ==
  /\ proc[t][g].waiter = "holding" /\ Room
  /\ \E e \in Verdicts(t, g) : events' = Append(events, e)
  /\ Thread(t, g, [proc[t][g] EXCEPT !.waiter = "done"])

Process(t, g) ==
  \/ ReaderReads(t, g) \/ ReaderUnblocks(t, g)
  \/ ChildEnds(t, g) \/ WaiterLocks(t, g) \/ WaiterUnblocks(t, g)

----------------------------------------------------------------------------
(* The loop: on_pty_event.                                                  *)

Took == ~quitting /\ events # <<>> /\ events' = Tail(events)
RunsOn(t) == {i \in 1..Len(runs) : runs[i].terminal = t}
WithRun(t, r(_)) ==
  runs' = [i \in 1..Len(runs) |-> IF i \in RunsOn(t) THEN r(runs[i]) ELSE runs[i]]

\* Mutant: the generation is not compared.
IsForOpen(e) == IsOpen(e.t) /\ ~SessionOf(e.t).released

\* Events for a tab that is gone, restarted or released are dropped.
IsForCurrent(e) ==
  /\ IsOpen(e.t)
  /\ SessionOf(e.t).gen = e.g
  /\ ~SessionOf(e.t).released

DropStaleEvent ==
  /\ Took /\ ~IsForCurrent(Head(events))
  /\ UNCHANGED <<model, quitting, requests, service>>

OnSpawned ==
  /\ Took /\ IsForCurrent(Head(events)) /\ Head(events).kind = "spawned"
  /\ LET t == Head(events).t
     IN /\ terminals' = [terminals EXCEPT ![IndexOf(t)].status = "running"]
        /\ WithRun(t, LAMBDA r : [r EXCEPT !.status = "running"])
        /\ creating' = creating \ {t}
  /\ UNCHANGED <<active, opened, focus, closing, quitting, requests, service>>

\* The screen and the capture take output only while the process is live.
OnOutput ==
  /\ Took /\ IsForCurrent(Head(events)) /\ Head(events).kind = "output"
  /\ LET e == Head(events)
     IN terminals' = IF IsLive(SessionOf(e.t))
                     THEN [terminals EXCEPT ![IndexOf(e.t)].shown = @ \cup {e.g}]
                     ELSE terminals
  /\ UNCHANGED <<active, opened, focus, closing, creating, runs,
                 quitting, requests, service>>

\* A run that was cancelled says so, whatever its process returned.
OnExited ==
  /\ Took /\ IsForCurrent(Head(events)) /\ Head(events).kind = "exited"
  /\ LET e == Head(events)
     IN /\ terminals' = [terminals EXCEPT ![IndexOf(e.t)].status = "exited"]
        /\ WithRun(e.t, LAMBDA r : [r EXCEPT !.status =
             IF r.cancel THEN "cancelled" ELSE IF e.ok THEN "succeeded" ELSE "failed"])
  /\ UNCHANGED <<active, opened, focus, closing, creating, quitting, requests, service>>

\* A terminal that has already reported how it ended keeps that answer.
OnFailed ==
  /\ Took /\ IsForCurrent(Head(events)) /\ Head(events).kind = "failed"
  /\ LET t == Head(events).t
     IN IF SessionOf(t).status = "exited"
        THEN UNCHANGED <<terminals, runs, creating>>
        ELSE /\ terminals' = [terminals EXCEPT ![IndexOf(t)].status = "failed"]
             /\ WithRun(t, LAMBDA r : [r EXCEPT !.status = "failed"])
             /\ creating' = creating \ {t}
  /\ UNCHANGED <<active, opened, focus, closing, quitting, requests, service>>

Loop ==
  /\ DropStaleEvent \/ OnSpawned \/ OnOutput \/ OnExited \/ OnFailed
  /\ UNCHANGED bounds

----------------------------------------------------------------------------

\* The application starts without a terminal. A bounded search wastes its moves
\* on opening the first one, so it also starts from a first tab whose process runs,
\* with nothing under way.
Init ==
  /\ closing = 0 /\ creating = {} /\ quitting = FALSE
  /\ requests = <<>> /\ events = <<>> /\ moves = 0
  /\ \/ /\ terminals = <<>> /\ active = 0 /\ opened = 0 /\ spawns = 0
        /\ focus = "other" /\ runs = <<>>
        /\ live = [t \in Ids |-> 0]
        /\ proc = [t \in Ids |-> [g \in Gens |-> NoProc]]
     \/ /\ active = 1 /\ opened = 1 /\ spawns = 1
        /\ \E owner \in Owners :
             terminals = <<[id |-> 1, gen |-> 1, owner |-> owner, status |-> "running",
                            released |-> FALSE, shown |-> {}]>>
        /\ focus \in {"terminal", "other"}
        /\ runs \in {<<>>, <<[terminal |-> 1, status |-> "running", cancel |-> FALSE]>>}
        /\ terminals[1].owner = "agent" => runs = <<>>
        /\ live = [t \in Ids |-> IF t = 1 THEN 1 ELSE 0]
        /\ proc = [t \in Ids |-> [g \in Gens |->
                     IF t = 1 /\ g = 1 THEN StartedProc ELSE NoProc]]

Next ==
  \/ /\ moves < MaxMoves /\ moves' = moves + 1
     /\ \/ Opening /\ spawns < MaxSpawns /\ spawns' = spawns + 1
        \/ Command /\ UNCHANGED spawns
  \/ Worker \/ Loop
  \/ \E t \in Ids, g \in Gens : Process(t, g)

Spec == Init /\ [][Next]_vars

----------------------------------------------------------------------------
(* Properties.                                                              *)

\* Every field holds a value of its kind and the index of the visible tab is
\* the index of a tab.
TypeOK ==
  /\ terminals \in Seq(Session) /\ active \in 0..Len(terminals)
  /\ active = 0 <=> terminals = <<>>
  /\ opened \in 0..MaxTerminals /\ focus \in {"terminal", "other"}
  /\ closing \in 0..MaxTerminals /\ creating \subseteq Ids
  /\ runs \in Seq(Run) /\ Len(runs) <= MaxRuns
  /\ quitting \in BOOLEAN /\ moves \in 0..MaxMoves /\ spawns \in 0..MaxSpawns
  /\ requests \in Seq(Request)
  /\ live \in [Ids -> 0..MaxGen] /\ proc \in [Ids -> [Gens -> Proc]]
  /\ events \in Seq(Event) /\ Len(events) <= Capacity

\* A tab shows only what its current process printed, and says running or
\* exited only of that process (generation check in on_pty_event).
TabShowsItsProcess ==
  \A i \in 1..Len(terminals) :
    LET s == terminals[i]
    IN /\ s.shown \subseteq {s.gen}
       /\ s.status = "exited" => proc[s.id][s.gen].waiter = "done"
       /\ s.status = "running" => proc[s.id][s.gen].waiter # "none"

\* A PTY the service holds belongs to a tab that has not released it, or its
\* release is on its way: closing, restarting, releasing and quitting leak no
\* process.
NoOrphanedProcess ==
  \A t \in Ids :
    live[t] # 0 =>
      \/ \E i \in 1..Len(requests) : requests[i] = [op |-> "release", t |-> t, g |-> live[t]]
      \/ IsOpen(t) /\ SessionOf(t).gen = live[t] /\ ~SessionOf(t).released

\* Where keys go: the tab in view when the terminal pane has the focus.
KeyTarget == IF focus = "terminal" /\ active # 0 THEN ActiveSession.id ELSE 0

\* A task that was cancelled is being ended, as long as it is the first process of its
\* tab and that tab is open: the kill is on its way, the process was terminated or its
\* end is on the way back (cancel_task, kill). Nothing is said of a tab that was
\* restarted, given up or released since.
CancelIsUnderWay ==
  \A i \in 1..Len(runs) :
    LET t == runs[i].terminal
    IN /\ runs[i].cancel /\ Unfinished(runs[i])
       /\ IsOpen(t) /\ SessionOf(t).gen = 1 /\ ~SessionOf(t).released
       => \/ \E j \in 1..Len(requests) : requests[j] = Req("kill", SessionOf(t))
          \/ proc[t][1].doomed \/ proc[t][1].waiter \in {"draining", "holding"}
          \/ \E j \in 1..Len(events) :
               events[j].t = t /\ events[j].g = 1 /\ events[j].kind \in {"exited", "failed"}

\* "Shift+F5 to cancel the newest running task" (docs/tasks.md): the run the key
\* picks still has its terminal.
CancelFindsATask ==
  Cancellable # {} => IsOpen(runs[NewestCancellable].terminal)

\* The worker finds a PTY by its tab alone; the order in which the model asks
\* makes sure that a request meets the process it was meant for, or none, and
\* that a spawn never finds its predecessor (AlreadyExists).
RequestsMeetTheirProcess ==
  requests # <<>> =>
    LET r == Head(requests)
    IN live[r.t] \in IF r.op = "spawn" THEN {0} ELSE {0, r.g}

\* Exited is the last word of a process: nothing it printed comes after it
\* (publication lock, drain time-out and flag of reader and waiter).
NothingAfterExit ==
  \A j \in 1..Len(events) :
    LET e == events[j]
    IN e.kind = "output" =>
         /\ ~\E i \in 1..(j - 1) : events[i] \in {Evt("exited", e.t, e.g, ok) : ok \in BOOLEAN}
         /\ IsForCurrent(e) => SessionOf(e.t).status # "exited"

\* The worker, which knows a PTY by its tab alone, and the model, which knows it by
\* tab and generation, never act on different processes (service.rs, model.rs).
WorkerFollowsTheModel == RequestsMeetTheirProcess /\ NoOrphanedProcess

\* What a tab says of a process is what that process did, to its last word
\* (on_pty_event and the exit protocol of the reader and waiter threads).
TabTellsTheTruth == TabShowsItsProcess /\ NothingAfterExit

=============================================================================
