----------------------------- MODULE MainLoop ------------------------------
(* The one channel and its many producers (crates/app/src/main.rs and the   *)
(* workers of crates/{filesystem,git,terminal,search}): the loop receives,  *)
(* the workers' sinks block on a full channel, and the end of run() drops   *)
(* the receiver and then joins the workers.  A message is only counted: its *)
(* handling is the business of the other modules.                           *)
EXTENDS Naturals, Sequences

CONSTANTS
  Joined,       \* the workers in the order their handles are dropped
  Capacity,     \* APP_MESSAGE_CAPACITY
  MaxInbox,     \* bound: requests a worker has not begun
  MaxMessages   \* bound: messages of the whole run

ASSUME LoopAssumption ==
  /\ Capacity \in Nat \ {0} /\ MaxInbox \in Nat /\ MaxMessages \in Nat
  /\ \E i \in DOMAIN Joined : Joined[i] = "fs"

Workers == {Joined[i] : i \in DOMAIN Joined}
Threads == Workers \cup {"watch"}

VARIABLES
  depth,     \* messages in the channel
  receiver,  \* the receiving end exists
  inbox,     \* [Workers -> Nat]: requests forwarded and not begun
  stopping,  \* threads told to stop
  emits,     \* [Threads -> Nat]: events a thread has still to send
  ended,     \* threads that returned
  main,      \* "loop", "leaving", "joining", "done"
  joining,   \* the handle being dropped
  sent       \* messages so far
loopVars == <<depth, receiver, inbox, stopping, emits, ended, main, joining, sent>>

LoopInit ==
  /\ depth = 0 /\ receiver = TRUE /\ inbox = [w \in Workers |-> 0] /\ stopping = {}
  /\ emits = [t \in Threads |-> 0] /\ ended = {} /\ main = "loop" /\ joining = 1 /\ sent = 0

\* AppSender::send: waits for room, fails at once when the receiver is gone.
Send == IF receiver THEN depth < Capacity /\ depth' = depth + 1 ELSE depth' = depth

\* The input pump: a detached thread nobody joins.
PumpInput ==
  /\ sent < MaxMessages /\ receiver /\ Send /\ sent' = sent + 1
  /\ UNCHANGED <<receiver, inbox, stopping, emits, ended, main, joining>>

\* One turn of the loop: a message is handled, and what it queued is
\* forwarded before the next receive.  The channels to the workers have no limit.
LoopTurn ==
  /\ main = "loop" /\ depth > 0 /\ depth' = depth - 1
  /\ \/ UNCHANGED inbox
     \/ \E w \in Workers : inbox[w] < MaxInbox /\ inbox' = [inbox EXCEPT ![w] = @ + 1]
  /\ UNCHANGED <<receiver, stopping, emits, ended, main, joining, sent>>
\* recv_timeout: the draft deadline passes and a draft is written.
DraftDeadline ==
  /\ main = "loop" /\ inbox["fs"] < MaxInbox /\ inbox' = [inbox EXCEPT !["fs"] = @ + 1]
  /\ UNCHANGED <<depth, receiver, stopping, emits, ended, main, joining, sent>>

\* A worker takes a request and has one or two events for it.
WorkerTakes(w) ==
  /\ inbox[w] > 0 /\ emits[w] = 0 /\ w \notin ended /\ sent < MaxMessages
  /\ inbox' = [inbox EXCEPT ![w] = @ - 1] /\ sent' = sent + 1
  /\ \E n \in 0..2 : emits' = [emits EXCEPT ![w] = n]
  /\ UNCHANGED <<depth, receiver, stopping, ended, main, joining>>
\* The debounce thread of the watcher has a batch of changes.
WatchFires ==
  /\ "watch" \notin ended \cup stopping /\ emits["watch"] = 0 /\ sent < MaxMessages
  /\ emits' = [emits EXCEPT !["watch"] = 1] /\ sent' = sent + 1
  /\ UNCHANGED <<depth, receiver, inbox, stopping, ended, main, joining>>
ThreadSends(t) ==
  /\ emits[t] > 0 /\ Send /\ emits' = [emits EXCEPT ![t] = @ - 1]
  /\ UNCHANGED <<receiver, inbox, stopping, ended, main, joining, sent>>

\* Shutdown is behind every request; a filesystem worker then drops its
\* watcher, which joins the debounce thread.
ThreadEnds(t) ==
  /\ t \in stopping \ ended /\ emits[t] = 0
  /\ t \in Workers => (inbox[t] = 0 \/ sent = MaxMessages)
  /\ IF t = "fs" /\ "watch" \notin ended
     THEN "watch" \notin stopping /\ stopping' = stopping \cup {"watch"} /\ UNCHANGED ended
     ELSE ended' = ended \cup {t} /\ UNCHANGED stopping
  /\ UNCHANGED <<depth, receiver, inbox, emits, main, joining, sent>>

\* The quit chord ends the loop.
QuitChord ==
  /\ main = "loop" /\ depth > 0 /\ depth' = depth - 1 /\ main' = "leaving"
  /\ UNCHANGED <<receiver, inbox, stopping, emits, ended, joining, sent>>
\* Mutant: the workers are joined while the receiver still exists.
LeaveHoldingTheReceiver ==
  /\ main = "leaving" /\ main' = "joining"
  /\ UNCHANGED <<depth, receiver, inbox, stopping, emits, ended, joining, sent>>
\* Session and grants are saved, the last requests forwarded, and the
\* receiver dropped before any worker.
Leave ==
  /\ main = "leaving" /\ main' = "joining" /\ receiver' = FALSE /\ depth' = 0
  /\ inbox' = [inbox EXCEPT !["pty"] = @ + 1]
  /\ UNCHANGED <<stopping, emits, ended, joining, sent>>
\* A draw or a size query fails: `?` leaves run() at once, and the locals are
\* dropped in the reverse of their order, the workers before the receiver.
DrawFails ==
  /\ main = "loop" /\ main' = "joining"
  /\ UNCHANGED <<depth, receiver, inbox, stopping, emits, ended, joining, sent>>
\* Drop of a worker: Shutdown, then join.
JoinWorker ==
  /\ main = "joining" /\ joining <= Len(Joined)
  /\ LET w == Joined[joining] IN
       IF w \in ended THEN joining' = joining + 1 /\ UNCHANGED stopping
       ELSE w \notin stopping /\ stopping' = stopping \cup {w} /\ UNCHANGED joining
  /\ UNCHANGED <<depth, receiver, inbox, emits, ended, main, sent>>
ReturnFromRun ==
  /\ main = "joining" /\ joining > Len(Joined) /\ main' = "done" /\ receiver' = FALSE
  /\ UNCHANGED <<depth, inbox, stopping, emits, ended, joining, sent>>

MainSteps == LoopTurn \/ Leave \/ JoinWorker \/ ReturnFromRun
LoopNext ==
  \/ PumpInput \/ DraftDeadline \/ WatchFires \/ QuitChord \/ DrawFails \/ MainSteps
  \/ \E w \in Workers : WorkerTakes(w)
  \/ \E t \in Threads : ThreadSends(t) \/ ThreadEnds(t)

\* The scheduler runs the main thread and every worker; a key or a change on
\* disk need not come.
LoopFairness ==
  /\ WF_loopVars(MainSteps)
  /\ \A w \in Workers : WF_loopVars(WorkerTakes(w))
  /\ \A t \in Threads : WF_loopVars(ThreadSends(t)) /\ WF_loopVars(ThreadEnds(t))

\* A clean quit ends, however full the channel is and whatever the workers
\* are doing: the dropped receiver wakes each one that waits to send.
QuitEnds == (main = "leaving") ~> (main = "done")

\* "Wake any bounded producer before its owning worker is dropped and joined":
\* nobody is joined while it waits for room that no one will make.
ProducersAreWoken ==
  main = "joining" => \A t \in Threads : ~(emits[t] > 0 /\ receiver /\ depth = Capacity)
============================================================================
