---------------------------- MODULE AgentBridge ----------------------------
(***************************************************************************)
(* The coding agent's requests, from the pipe to the human and back: the   *)
(* translator that speaks ACP (crates/agent/src/protocol.rs, acp.rs) and   *)
(* the handlers of the model that answer (crates/app/src/model.rs).        *)
(*                                                                         *)
(* The translator runs on a thread of its own.  It hands AgentEvents to    *)
(* the main loop through `events`, and the loop's AgentRequests come back  *)
(* through `requests`.  The agent has no timeout: a call that is dropped   *)
(* on the way hangs it.  A command runs only if the human approved it.     *)
(*                                                                         *)
(* A call's id stands for the agent's wire id and for ours; the terminal   *)
(* it creates goes by the same id.  The answers one handler gives travel   *)
(* as one message.  Calls refused at the door (unknown session, unknown    *)
(* terminal, bad parameters) are answered there and leave no trace.        *)
(***************************************************************************)
EXTENDS Naturals, Sequences, FiniteSets

CONSTANTS
  Commands,      \* TerminalSpecs: program, arguments, directory, environment
  NoCommand,     \* a call about no command
  Safe,          \* the commands PermissionPolicy::remember accepts
  Kinds,         \* the calls this agent makes
  Offers,        \* the sets of options a permission request may offer
  Acts,          \* what the human does besides prompting and deciding
  MaxCalls,      \* bound on the agent's calls
  MaxOf,         \* bounds on the calls of each kind
  MaxSessions,   \* bound on the sessions
  MaxAsks,       \* bound on what the human asks: sessions, prompts, modes
  MaxMoves,      \* bound on calls and asks together
  MaxEvents      \* capacity of the loop's channel: a full one blocks the translator

ASSUME BridgeAssumption ==
  /\ NoCommand \notin Commands
  /\ Safe \subseteq Commands
  /\ Kinds \subseteq {"read", "permission", "create", "output", "wait", "kill", "release"}
  /\ Offers \subseteq SUBSET {"allow_once", "allow_always", "reject_once", "reject_always"}
  /\ Acts \subseteq {"session", "mode", "close", "restart"}
  /\ {MaxCalls, MaxSessions, MaxAsks, MaxMoves, MaxEvents} \subseteq Nat
  /\ MaxOf \in [Kinds -> Nat]

Ids      == 1..MaxCalls
Sessions == 0..MaxSessions     \* 0 stands for "no session"
Allows   == {"allow_once", "allow_always"}

VARIABLES
  \* the agent process and the translator
  alive,         \* the agent runs and its worker with it
  ready,         \* Translator.ready
  calls,         \* the calls made, by id
  nextId,        \* Translator.next_id
  outcome,       \* what went back on the wire; "none" while the call is in its map
  grants,        \* one_shot_terminal_grants, by the permission call that gave them
  bound,         \* Translator.terminals
  started,       \* Translator.next_session
  owed,          \* Translator.pending: replies the agent owes, by kind and session
  ended,         \* how many prompts of a session have been answered
  \* the two channels
  events,        \* AgentEvents the loop has not absorbed
  requests,      \* AgentRequests the translator has not encoded
  \* the model
  session,       \* the session in Model.agent
  turnActive,    \* its turn_active
  slot,          \* its pending_permission: the call the prompt is about, or 0
  asking,        \* the session named by the open "Ask the agent" overlay, at most one
  heldPrompt,    \* Model.pending_prompt is set
  creates,       \* pending_terminal_creates
  waits,         \* pending_terminal_waits
  reads,         \* pending_agent_reads
  terms,         \* the agent's terminals
  remembered,    \* PermissionPolicy.grants
  \* history
  decided,       \* what the human chose on each prompt
  asks           \* how often the human asked for something

translator == <<ready, calls, nextId, outcome, grants, bound, started, owed, ended>>
people     == <<asking, heldPrompt, decided, remembered, asks>>
held       == <<creates, waits, reads, terms>>
conv       == <<session, turnActive, slot>>

vars == <<alive, translator, events, requests, conv, people, held>>

NoCall == [kind |-> "none", session |-> 0, command |-> NoCommand, terminal |-> 0,
           grant |-> 0, options |-> {}, turn |-> 0]

NoTerm == [status |-> "none", released |-> FALSE, restarted |-> FALSE]

Call == [kind : {"none"} \cup Kinds, session : Sessions, command : Commands \cup {NoCommand},
         terminal : {0} \cup Ids, grant : {0} \cup Ids,
         options : {{}} \cup Offers, turn : Nat]

\* "broken" and "failed" are both TerminalStatus::Failed: with and without a process.
Term == [status : {"none", "starting", "running", "broken", "failed", "exited", "closed"},
         released : BOOLEAN, restarted : BOOLEAN]

Event == [kind : {"call"}, session : Sessions, id : Ids]
           \cup [kind : {"session", "turn", "cancelled", "failed"}, session : Sessions, id : {0}]

Request == [kind : {"session", "prompt", "mode", "answer"}, session : Sessions,
            ids : SUBSET Ids, with : Allows \cup {"reject_once", "result"},
            errors : SUBSET Ids]

Debts == {"session", "prompt", "mode"}

----------------------------------------------------------------------------
(***************************************************************************)
(* Messages                                                                *)
(***************************************************************************)

\* sink(event): the worker thread's channel to the loop
Tell(k, s, i) == Append(events, [kind |-> k, session |-> s, id |-> i])

\* An answer to the calls in ids, and an error to those in errors
Answer(ids, with, errors) ==
  [kind |-> "answer", session |-> 0, ids |-> ids, with |-> with, errors |-> errors]

\* AgentRequest::NewSession, Prompt, SetMode
Ask(k, s) == [kind |-> k, session |-> s, ids |-> {}, with |-> "result", errors |-> {}]

\* agent_outbox.push and AcpAgent::send: nobody listens once the worker is gone
Push(q, m) ==
  IF ~alive \/ (m.kind = "answer" /\ m.ids \cup m.errors = {}) THEN q ELSE Append(q, m)

Reply(i, with) == requests' = Push(requests, Answer({i}, with, {}))

Refuse(i) == requests' = Push(requests, Answer({}, "result", {i}))

----------------------------------------------------------------------------
(***************************************************************************)
(* The agent speaks: Translator::on_request, on_response, on_error         *)
(***************************************************************************)

Budget == nextId + asks < MaxMoves

\* The call goes into its map and on to the model.
Admit(c) ==
  /\ alive
  /\ Len(events) < MaxEvents
  /\ nextId < MaxCalls /\ Budget
  /\ Cardinality({i \in Ids : calls[i].kind = c.kind}) < MaxOf[c.kind]
  /\ nextId' = nextId + 1
  /\ calls' = [calls EXCEPT ![nextId + 1] = c]
  /\ events' = Tell("call", c.session, nextId + 1)
  /\ UNCHANGED <<alive, ready, outcome, bound, started, owed, ended,
                 requests, conv, people, held>>

\* fs/read_text_file: an unknown session is no reason to refuse.
AskRead(s) ==
  /\ "read" \in Kinds
  /\ Admit([NoCall EXCEPT !.kind = "read", !.session = s, !.turn = ended[s]])
  /\ UNCHANGED grants

\* session/request_permission: for a command, or for something else (an edit)
AskPermission(s, c, offer) ==
  /\ "permission" \in Kinds
  /\ Admit([NoCall EXCEPT !.kind = "permission", !.session = s, !.command = c,
                          !.options = offer, !.turn = ended[s]])
  /\ UNCHANGED grants

\* The grants that cover the command
Covering(s, c) == {p \in grants : calls[p].session = s /\ calls[p].command = c}

\* terminal/create: a matching one-shot grant is spent on the spot.
AskCreate(s, c) ==
  /\ "create" \in Kinds
  /\ s # 0
  /\ \E grant \in IF Covering(s, c) = {} THEN {0} ELSE Covering(s, c) :
       /\ Admit([NoCall EXCEPT !.kind = "create", !.session = s, !.command = c,
                               !.grant = grant, !.turn = ended[s]])
       /\ grants' = grants \ {grant}

\* terminal/output, wait_for_exit, kill, release: on a terminal bound to this session
AskTerminal(k, t) ==
  /\ k \in Kinds \cap {"output", "wait", "kill", "release"}
  /\ bound[t] = "live"
  /\ Admit([NoCall EXCEPT !.kind = k, !.session = calls[t].session, !.terminal = t,
                          !.turn = ended[calls[t].session]])
  /\ UNCHANGED grants

\* expire_terminal_grants
Unexpired(s) == {p \in grants : calls[p].session # s}

\* The agent answers something we asked.  A refusal of session/new names no session.
AgentReplies(k, s, well) ==
  /\ alive
  /\ Len(events) < MaxEvents
  /\ owed[k][s] > 0
  /\ owed' = [owed EXCEPT ![k][s] = @ - 1]
  /\ ended' = IF k = "prompt" THEN [ended EXCEPT ![s] = @ + 1] ELSE ended
  /\ \/ /\ k = "session" /\ well = "ok" /\ started < MaxSessions
        /\ started' = started + 1
        /\ events' = Tell("session", started + 1, 0)
        /\ grants' = grants
     \/ /\ k = "mode" /\ well = "ok"
        /\ UNCHANGED <<started, events, grants>>
     \/ /\ k = "prompt" /\ well \in {"ok", "cancelled"}
        /\ started' = started
        /\ events' = Tell(IF well = "ok" THEN "turn" ELSE "cancelled", s, 0)
        /\ grants' = Unexpired(s)
     \/ /\ well = "error"
        /\ started' = started
        /\ events' = Tell("failed", s, 0)
        /\ grants' = Unexpired(s)
  /\ UNCHANGED <<alive, ready, calls, nextId, outcome, bound, requests, conv, people, held>>

\* initialize is answered: what was queued meanwhile goes out, in order.
Initialized ==
  /\ alive /\ ~ready
  /\ ready' = TRUE
  /\ UNCHANGED <<alive, calls, nextId, outcome, grants, bound, started, owed, ended,
                 events, requests, conv, people, held>>

\* The pipe closes: the worker reports it for no session in particular and ends.
AgentExits ==
  /\ alive
  /\ Len(events) < MaxEvents
  /\ alive' = FALSE
  /\ events' = Tell("failed", 0, 0)
  /\ requests' = <<>>
  /\ UNCHANGED <<translator, conv, people, held>>

----------------------------------------------------------------------------
(***************************************************************************)
(* The translator encodes a request: Translator::outgoing, encode          *)
(***************************************************************************)

\* Mutant: without the option asked for, any that was offered will do.
ChooseAnyOption(options, d) ==
  IF d \in options \/ options = {} THEN d ELSE CHOOSE o \in options : TRUE

\* choose_option: never across the direction of the decision
ChooseOption(options, d) ==
  IF d \in options THEN d
  ELSE LET fallback == IF d \in Allows THEN "allow_once" ELSE "reject_once"
       IN  IF fallback \in options THEN fallback ELSE "cancelled"

\* What the agent reads in reply to call i
Wire(i, m) ==
  CASE calls[i].kind = "permission" /\ i \in m.errors -> "cancelled"
    [] calls[i].kind = "permission" /\ i \notin m.errors ->
         ChooseOption(calls[i].options, m.with)
    [] OTHER -> IF i \in m.errors THEN "error" ELSE "result"

\* The calls of an answer still in their map; a decision only reaches a permission
\* request, and only a decision does.
Open(m) ==
  {i \in m.ids : outcome[i] = "none" /\ (calls[i].kind = "permission" <=> m.with # "result")}
    \cup {i \in m.errors : outcome[i] = "none"}

\* Mutant: any decision on a command leaves a grant.
GrantedAnyway(m) ==
  {p \in Open(m) : calls[p].kind = "permission" /\ calls[p].command # NoCommand}

\* An approval that reached the wire becomes a one-shot grant for its command.
Granted(m) ==
  {p \in Open(m) : /\ calls[p].kind = "permission"
                   /\ calls[p].command # NoCommand
                   /\ m.with \in Allows
                   /\ Wire(p, m) \in Allows}

EncodeAnswer(m) ==
  /\ outcome' = [i \in Ids |-> IF i \in Open(m) THEN Wire(i, m) ELSE outcome[i]]
  /\ grants' = grants \cup Granted(m)
  /\ bound' = [t \in Ids |->
       CASE t \in Open(m) \cap m.ids /\ calls[t].kind = "create" -> "live"
         [] \E i \in Open(m) \cap m.ids :
              calls[i].kind = "release" /\ calls[i].terminal = t -> "released"
         [] OTHER -> bound[t]]
  /\ owed' = owed

\* A prompt or a mode for a session the translator does not know goes nowhere.
EncodeAsk(m) ==
  /\ owed' = IF m.kind = "session" \/ m.session \in 1..started
             THEN [owed EXCEPT ![m.kind][m.session] = @ + 1] ELSE owed
  /\ UNCHANGED <<outcome, grants, bound>>

Encode ==
  /\ alive /\ ready
  /\ requests # <<>>
  /\ IF Head(requests).kind = "answer" THEN EncodeAnswer(Head(requests))
                                       ELSE EncodeAsk(Head(requests))
  /\ requests' = Tail(requests)
  /\ UNCHANGED <<alive, ready, calls, nextId, started, ended, events, conv, people, held>>

----------------------------------------------------------------------------
(***************************************************************************)
(* The model absorbs an event: Model::on_agent_event                       *)
(***************************************************************************)

Absorbing(k) == events # <<>> /\ Head(events).kind = k /\ events' = Tail(events)

AbsorbingCall(ks) == Absorbing("call") /\ calls[Head(events).id].kind \in ks

\* serve_read: from the open buffer or refused at once, or read by the worker first
OnRead ==
  /\ AbsorbingCall({"read"})
  /\ LET i == Head(events).id
     IN  \/ Reply(i, "result") /\ reads' = reads
         \/ Refuse(i) /\ reads' = reads
         \/ reads' = reads \cup {i} /\ UNCHANGED requests
  /\ UNCHANGED <<alive, translator, conv, people, creates, waits, terms>>

\* PermissionRequested: one prompt at a time, and for the session we have
OnPermission ==
  /\ AbsorbingCall({"permission"})
  /\ LET i == Head(events).id
     IN  IF session # 0 /\ calls[i].session = session /\ slot = 0
         THEN slot' = i /\ UNCHANGED requests
         ELSE Reply(i, "reject_once") /\ slot' = slot
  /\ UNCHANGED <<alive, translator, session, turnActive, people, held>>

\* spawn_agent_terminal; the answer waits for the PTY's word.
Spawn(i) ==
  /\ terms' = [terms EXCEPT ![i] = [NoTerm EXCEPT !.status = "starting"]]
  /\ creates' = creates \cup {i}

\* handle_agent_terminal, Create
OnCreate ==
  /\ AbsorbingCall({"create"})
  /\ LET i == Head(events).id
         permitted == calls[i].grant # 0 \/ calls[i].command \in remembered
     IN  CASE calls[i].session # session -> Refuse(i) /\ UNCHANGED <<slot, creates, terms>>
           [] calls[i].session = session /\ permitted ->
                Spawn(i) /\ UNCHANGED <<slot, requests>>
           [] calls[i].session = session /\ ~permitted /\ slot # 0 ->
                Refuse(i) /\ UNCHANGED <<slot, creates, terms>>
           [] OTHER -> slot' = i /\ UNCHANGED <<requests, creates, terms>>
  /\ UNCHANGED <<alive, translator, session, turnActive, people, waits, reads>>

WaitsOn(t) == {w \in waits : calls[w].terminal = t}

\* A terminal of session s that is in the list and not released
Usable(s, t) ==
  /\ calls[t].session = s
  /\ terms[t].status \notin {"none", "closed"}
  /\ ~terms[t].released

\* handle_agent_terminal, the other operations
OnOperation ==
  /\ AbsorbingCall({"output", "wait", "kill", "release"})
  /\ LET i == Head(events).id
         t == calls[i].terminal
         k == calls[i].kind
         usable == calls[i].session = session /\ Usable(session, t)
     IN  \/ /\ ~usable
            /\ Refuse(i) /\ UNCHANGED <<waits, terms>>
         \/ /\ usable /\ k = "output"
            /\ Reply(i, "result") /\ UNCHANGED <<waits, terms>>
         \/ /\ usable /\ k = "wait"
            /\ CASE terms[t].status = "exited" -> Reply(i, "result") /\ waits' = waits
                 [] terms[t].status \in {"broken", "failed"} -> Refuse(i) /\ waits' = waits
                 [] OTHER -> waits' = waits \cup {i} /\ UNCHANGED requests
            /\ terms' = terms
         \/ /\ usable /\ k = "kill"
            /\ requests' = Push(requests, Answer(WaitsOn(t) \cup {i}, "result", {}))
            /\ waits' = waits \ WaitsOn(t)
            /\ terms' = terms
         \/ /\ usable /\ k = "release"
            /\ requests' = Push(requests, Answer({i}, "result", WaitsOn(t)))
            /\ waits' = waits \ WaitsOn(t)
            /\ terms' = [terms EXCEPT ![t].released = TRUE]
  /\ UNCHANGED <<alive, translator, conv, people, creates, reads>>

\* cancel_agent_terminals with reject_pending_permission: what it answers with an error
Cancelled(s) ==
  {i \in {slot} \ {0} : session = s}
    \cup {i \in creates : calls[i].session = s}
    \cup {w \in waits : Usable(s, calls[w].terminal)}

\* Mutant: the calls are answered and the processes left running.
CancelCallsOnly(s) ==
  /\ creates' = creates \ Cancelled(s)
  /\ waits' = waits \ Cancelled(s)
  /\ UNCHANGED <<terms, reads>>

CancelTerminals(s) ==
  /\ creates' = creates \ Cancelled(s)
  /\ waits' = waits \ Cancelled(s)
  /\ terms' = [t \in Ids |-> IF Usable(s, t) THEN [terms[t] EXCEPT !.released = TRUE]
                             ELSE terms[t]]
  /\ reads' = reads

\* SessionStarted: a new conversation in place of the old one, and the held question
OnSessionStarted ==
  /\ Absorbing("session")
  /\ IF session = 0 THEN UNCHANGED held ELSE CancelTerminals(session)
  /\ LET told == IF session = 0 THEN requests
                 ELSE Push(requests, Answer({}, "result", Cancelled(session)))
     IN  requests' = IF heldPrompt THEN Push(told, Ask("prompt", Head(events).session))
                     ELSE told
  /\ session' = Head(events).session
  /\ turnActive' = heldPrompt
  /\ slot' = 0
  /\ heldPrompt' = FALSE
  /\ UNCHANGED <<alive, translator, asking, decided, remembered, asks>>

\* TurnEnded
OnTurnEnded ==
  /\ Absorbing("turn")
  /\ turnActive' = FALSE
  /\ UNCHANGED <<alive, translator, requests, session, slot, people, held>>

\* TurnEnded with StopReason::Cancelled, and Failed
OnCancelledOrFailed ==
  /\ Absorbing("cancelled") \/ Absorbing("failed")
  /\ LET s == Head(events).session
     IN  /\ requests' = Push(requests, Answer({}, "result", Cancelled(s)))
         /\ CancelTerminals(s)
         /\ slot' = IF session = s THEN 0 ELSE slot
  /\ turnActive' = FALSE
  /\ UNCHANGED <<alive, translator, session, people>>

\* The filesystem worker has the file, or cannot read it.
FileRead(i) ==
  /\ i \in reads
  /\ Reply(i, "result") \/ Refuse(i)
  /\ reads' = reads \ {i}
  /\ UNCHANGED <<alive, translator, events, conv, people, creates, waits, terms>>

----------------------------------------------------------------------------
(***************************************************************************)
(* The PTY reports, the human acts                                         *)
(***************************************************************************)

\* on_pty_event drops what comes from a released or a closed terminal.
PtyEvent(t, before, after) ==
  /\ terms[t].status \in before /\ ~terms[t].released
  /\ terms' = [terms EXCEPT ![t].status = after]
  /\ UNCHANGED <<alive, translator, events, conv, people, reads>>

Spawned(t) ==
  /\ PtyEvent(t, {"starting"}, "running")
  /\ requests' = Push(requests, Answer(creates \cap {t}, "result", {}))
  /\ creates' = creates \ {t}
  /\ waits' = waits

\* Mutant: the exit wakes nobody.
ExitedUnheard(t) ==
  /\ PtyEvent(t, {"running", "broken"}, "exited")
  /\ UNCHANGED <<requests, waits, creates>>

Exited(t) ==
  /\ PtyEvent(t, {"running", "broken"}, "exited")
  /\ requests' = Push(requests, Answer(WaitsOn(t), "result", {}))
  /\ waits' = waits \ WaitsOn(t)
  /\ creates' = creates

\* Mutant: a failed spawn leaves its terminal/create waiting.
PtyFailedUntold(t) ==
  /\ \/ PtyEvent(t, {"starting"}, "failed")
     \/ PtyEvent(t, {"running"}, "broken")
  /\ requests' = Push(requests, Answer({}, "result", WaitsOn(t)))
  /\ waits' = waits \ WaitsOn(t)
  /\ creates' = creates

\* The spawn failed, or a write to a running process did.
PtyFailed(t) ==
  /\ \/ PtyEvent(t, {"starting"}, "failed")
     \/ PtyEvent(t, {"running"}, "broken")
  /\ requests' = Push(requests, Answer({}, "result", (creates \cap {t}) \cup WaitsOn(t)))
  /\ creates' = creates \ {t}
  /\ waits' = waits \ WaitsOn(t)

\* remove_terminal, after the confirmation if one was needed
CloseTerminal(t) ==
  /\ "close" \in Acts
  /\ asking = {}
  /\ terms[t].status \notin {"none", "closed"}
  /\ terms' = [terms EXCEPT ![t].status = "closed"]
  /\ requests' = Push(requests, Answer({}, "result", (creates \cap {t}) \cup WaitsOn(t)))
  /\ creates' = creates \ {t}
  /\ waits' = waits \ WaitsOn(t)
  /\ UNCHANGED <<alive, translator, events, conv, people, reads>>

\* restart_terminal: the human runs the command again, in a new generation.
RestartTerminal(t) ==
  /\ "restart" \in Acts
  /\ asking = {}
  /\ terms[t].status \notin {"none", "closed"}
  /\ t \notin creates
  /\ terms' = [terms EXCEPT ![t] = [status |-> "starting", released |-> FALSE,
                                    restarted |-> TRUE]]
  /\ requests' = Push(requests, Answer({}, "result", WaitsOn(t)))
  /\ waits' = waits \ WaitsOn(t)
  /\ UNCHANGED <<alive, translator, events, conv, people, creates, reads>>

\* Mutant: whatever was allowed for good is remembered.
RememberAnything(d, c) == IF d = "allow_always" THEN remembered \cup {c} ELSE remembered

\* remember_permission: only a command that is safe to repeat
Remember(d, c) == IF d = "allow_always" THEN remembered \cup ({c} \cap Safe) ELSE remembered

\* decide_permission, for a permission request and for a held terminal/create
DecidePermission(d) ==
  /\ asking = {}
  /\ slot # 0
  /\ slot' = 0
  /\ decided' = [decided EXCEPT ![slot] = d]
  /\ remembered' = Remember(d, calls[slot].command)
  /\ \/ /\ calls[slot].kind = "permission"
        /\ Reply(slot, d)
        /\ UNCHANGED <<creates, terms>>
     \/ /\ calls[slot].kind = "create" /\ d \in Allows
        /\ Spawn(slot)
        /\ UNCHANGED requests
     \/ /\ calls[slot].kind = "create" /\ d \notin Allows
        /\ Refuse(slot)
        /\ UNCHANGED <<creates, terms>>
  /\ UNCHANGED <<alive, translator, events, session, turnActive, asking, heldPrompt, asks,
                 waits, reads>>

\* AgentSessionNew
NewSession ==
  /\ "session" \in Acts
  /\ asking = {}
  /\ asks < MaxAsks /\ Budget
  /\ asks' = asks + 1
  /\ requests' = Push(requests, Ask("session", 0))
  /\ UNCHANGED <<alive, translator, events, conv, asking, heldPrompt, decided, remembered, held>>

\* set_agent_mode
SetMode ==
  /\ "mode" \in Acts
  /\ asking = {}
  /\ session # 0
  /\ asks < MaxAsks /\ Budget
  /\ asks' = asks + 1
  /\ requests' = Push(requests, Ask("mode", session))
  /\ UNCHANGED <<alive, translator, events, conv, asking, heldPrompt, decided, remembered, held>>

\* prompt_agent: the overlay remembers the session of the moment.
OpenAsk ==
  /\ asking = {}
  /\ ~turnActive
  /\ asks < MaxAsks /\ Budget
  /\ asks' = asks + 1
  /\ asking' = {session}
  /\ UNCHANGED <<alive, translator, events, requests, conv, heldPrompt, decided, remembered,
                 held>>

CloseAsk ==
  /\ asking # {}
  /\ asking' = {}
  /\ UNCHANGED <<alive, translator, events, requests, conv, heldPrompt, decided, remembered,
                 asks, held>>

\* confirm_prompt, AgentPrompt: send_prompt, or a new session first
ConfirmAsk ==
  /\ asking # {}
  /\ asking' = {}
  /\ IF session = 0
     THEN /\ requests' = Push(requests, Ask("session", 0))
          /\ heldPrompt' = TRUE
          /\ turnActive' = turnActive
     ELSE /\ \E s \in asking : requests' = Push(requests, Ask("prompt", s))
          /\ turnActive' = TRUE
          /\ heldPrompt' = heldPrompt
  /\ UNCHANGED <<alive, translator, events, session, slot, decided, remembered, asks, held>>

----------------------------------------------------------------------------

Init ==
  /\ alive = TRUE
  /\ ready = FALSE
  /\ calls = [i \in Ids |-> NoCall]
  /\ nextId = 0
  /\ outcome = [i \in Ids |-> "none"]
  /\ grants = {}
  /\ bound = [i \in Ids |-> "none"]
  /\ started = 0
  /\ owed = [k \in Debts |-> [s \in Sessions |-> 0]]
  /\ ended = [s \in Sessions |-> 0]
  /\ events = <<>>
  /\ requests = <<>>
  /\ session = 0
  /\ turnActive = FALSE
  /\ slot = 0
  /\ asking = {}
  /\ heldPrompt = FALSE
  /\ creates = {}
  /\ waits = {}
  /\ reads = {}
  /\ terms = [i \in Ids |-> NoTerm]
  /\ remembered = {}
  /\ decided = [i \in Ids |-> "none"]
  /\ asks = 0

\* A session is known to the agent once session/new was answered.
AgentAsks ==
  \/ \E s \in 0..started : AskRead(s)
  \/ \E s \in 0..started, c \in Commands \cup {NoCommand}, offer \in Offers :
       AskPermission(s, c, offer)
  \/ \E s \in 0..started, c \in Commands : AskCreate(s, c)
  \/ \E k \in Kinds, t \in Ids : AskTerminal(k, t)

Absorb == \/ OnRead \/ OnPermission \/ OnCreate \/ OnOperation
          \/ OnSessionStarted \/ OnTurnEnded \/ OnCancelledOrFailed

HumanDecides == \E d \in Allows \cup {"reject_once"} : DecidePermission(d)

HumanActs ==
  \/ NewSession \/ SetMode \/ OpenAsk \/ CloseAsk \/ ConfirmAsk
  \/ \E t \in Ids : CloseTerminal(t) \/ RestartTerminal(t)

Next ==
  \/ AgentAsks
  \/ \E k \in Debts, s \in Sessions, well \in {"ok", "cancelled", "error"} :
       AgentReplies(k, s, well)
  \/ Initialized \/ AgentExits \/ Encode
  \/ Absorb
  \/ \E i \in Ids : FileRead(i) \/ Spawned(i) \/ Exited(i) \/ PtyFailed(i)
  \/ HumanDecides \/ HumanActs

Spec == Init /\ [][Next]_vars

PtyAnswers(t) == terms[t].status = "starting" /\ (Spawned(t) \/ PtyFailed(t))

\* The three loops keep running, the filesystem worker and the PTY report, and the human
\* leaves no prompt open for ever.  Nothing makes the agent ask or reply.
Fairness ==
  /\ WF_vars(Initialized)
  /\ WF_vars(Encode)
  /\ WF_vars(Absorb)
  /\ WF_vars(HumanDecides)
  /\ WF_vars(CloseAsk \/ ConfirmAsk)
  /\ \A i \in Ids : WF_vars(FileRead(i)) /\ WF_vars(PtyAnswers(i))

FairSpec == Spec /\ Fairness

----------------------------------------------------------------------------
(***************************************************************************)
(* Properties                                                              *)
(***************************************************************************)

\* Every variable holds a value of its kind: queues carry well-formed messages, maps are
\* keyed by calls that were made (the types of protocol.rs and core/src/agent.rs).
TypeOK ==
  /\ alive \in BOOLEAN /\ ready \in BOOLEAN
  /\ calls \in [Ids -> Call]
  /\ nextId \in 0..MaxCalls
  /\ outcome \in [Ids -> {"none", "error", "result", "cancelled", "reject_once"} \cup Allows]
  /\ grants \subseteq Ids
  /\ bound \in [Ids -> {"none", "live", "released"}]
  /\ started \in Sessions
  /\ owed \in [Debts -> [Sessions -> Nat]]
  /\ ended \in [Sessions -> Nat]
  /\ events \in Seq(Event)
  /\ requests \in Seq(Request)
  /\ session \in Sessions
  /\ turnActive \in BOOLEAN
  /\ slot \in {0} \cup Ids
  /\ asking \subseteq Sessions
  /\ heldPrompt \in BOOLEAN
  /\ creates \subseteq Ids /\ waits \subseteq Ids /\ reads \subseteq Ids
  /\ terms \in [Ids -> Term]
  /\ remembered \subseteq Commands
  /\ decided \in [Ids -> {"none", "reject_once"} \cup Allows]
  /\ asks \in 0..MaxAsks

\* What may justify the launch of call i
Approved(i) ==
  \/ decided[i] \in Allows
  \/ \E p \in Ids : decided[p] = "allow_always" /\ calls[p].command = calls[i].command
  \/ /\ calls[i].grant # 0
     /\ LET p == calls[i].grant
        IN  /\ decided[p] \in Allows
            /\ calls[p].kind = "permission"
            /\ calls[p].session = calls[i].session
            /\ calls[p].command = calls[i].command

\* No command of the agent runs unasked: the human allowed this very create, or chose
\* "always" for the same command, or allowed a permission request for it in the same
\* session; and one such approval starts one command only (ADR-0008 section 5; the grants
\* of protocol.rs, handle_agent_terminal and decide_permission of model.rs).
LaunchesApproved ==
  /\ \A i \in Ids : terms[i].status # "none" => Approved(i)
  /\ \A i, j \in Ids : i # j /\ calls[i].grant # 0 => calls[i].grant # calls[j].grant

\* The agent reads "allowed" only where the human allowed, "always" only where the human
\* said always, and a rejection only where the human did not allow: choose_option and the
\* prompt slot never turn an answer round, whatever options the agent offered.
WireSaysWhatWasDecided ==
  \A i \in Ids :
    /\ outcome[i] = "allow_always" => decided[i] = "allow_always"
    /\ outcome[i] = "allow_once" => decided[i] \in Allows
    /\ outcome[i] = "reject_once" => decided[i] \notin Allows

\* Call i is on its way to the prompt or in it: nothing has been decided about it.
Undecided(i) ==
  /\ i <= nextId
  /\ decided[i] = "none"
  /\ outcome[i] # "reject_once"
  /\ \A k \in DOMAIN requests : i \in requests[k].ids => requests[k].with = "result"

\* The calls in the loop's channel are distinct, undecided and not the one in the prompt.
InPlayOK ==
  /\ slot # 0 => Undecided(slot)
  /\ \A k \in DOMAIN events :
       events[k].kind = "call" => Undecided(events[k].id) /\ events[k].id # slot
  /\ \A j, k \in DOMAIN events : j # k /\ events[j].kind = "call" => events[j].id # events[k].id

\* An answer carries the human's decision.
AnswersOK ==
  \A k \in DOMAIN requests : \A p \in requests[k].ids :
    /\ requests[k].with \in Allows => decided[p] = requests[k].with
    /\ requests[k].with = "reject_once" => decided[p] \notin Allows
    /\ requests[k].with # "result" => p <= nextId

\* Nothing refers to a call that was not made.
FreshOK ==
  \A i \in Ids : i > nextId =>
    decided[i] = "none" /\ terms[i].status = "none" /\ outcome[i] # "reject_once"

\* A permission that was allowed and answered, and so cannot give a second grant
Spendable(p) == p \in Ids /\ decided[p] \in Allows /\ calls[p].kind = "permission"
                  /\ outcome[p] # "none"

\* Grants come from allowed permissions and are spent once, by their own session.
GrantsOK ==
  /\ \A p \in grants : Spendable(p)
  /\ \A i \in Ids : calls[i].grant # 0 =>
       /\ Spendable(calls[i].grant)
       /\ calls[i].grant \notin grants
       /\ calls[calls[i].grant].session = calls[i].session
       /\ calls[calls[i].grant].command = calls[i].command
       /\ \A j \in Ids \ {i} : calls[j].grant # calls[i].grant

RememberedOK ==
  \A c \in remembered : \E p \in Ids : decided[p] = "allow_always" /\ calls[p].command = c

\* The inductive strengthening of LaunchesApproved and WireSaysWhatWasDecided
ApprovalInv ==
  /\ TypeOK
  /\ InPlayOK
  /\ AnswersOK
  /\ FreshOK
  /\ GrantsOK
  /\ RememberedOK
  /\ LaunchesApproved
  /\ WireSaysWhatWasDecided

\* Where the answer to call i is to come from
Places(i) ==
  ({"event"} \X {k \in DOMAIN events : events[k].id = i})
    \cup ({"request"} \X {k \in DOMAIN requests :
                            i \in requests[k].ids \cup requests[k].errors})
    \cup ({"slot"} \X ({slot} \cap {i}))
    \cup ({"create"} \X (creates \cap {i}))
    \cup ({"wait"} \X (waits \cap {i}))
    \cup ({"read"} \X (reads \cap {i}))

\* What the model keeps waiting can still be woken: a held create has a terminal that is
\* starting, a held wait one whose process has not ended, neither released nor closed
\* (on_pty_event, restart_terminal, remove_terminal, cancel_agent_terminals).
HeldCallsCanEnd ==
  /\ \A i \in creates : terms[i].status = "starting" /\ ~terms[i].released
  /\ \A w \in waits : LET t == calls[w].terminal
                     IN  terms[t].status \in {"starting", "running"} /\ ~terms[t].released

\* A command of a session that was replaced no longer runs, unless the human restarted it
\* (SessionStarted, cancel_agent_terminals).
LiveTerminalsAreCurrent ==
  \A t \in Ids :
    terms[t].status \in {"starting", "running"} /\ ~terms[t].released /\ ~terms[t].restarted
      => calls[t].session = session

\* While the pane says the agent is working, something is under way that will end the turn
\* ("the one failure a user must never experience as a hang", acp.rs; send_prompt).
TurnHasAnOwner ==
  turnActive =>
    \/ \E k \in DOMAIN requests :
         requests[k].kind = "prompt" /\ requests[k].session \in 1..started
    \/ alive /\ \E s \in Sessions : owed["prompt"][s] > 0
    \/ \E k \in DOMAIN events : events[k].kind \in {"turn", "cancelled", "failed"}

\* A one-shot grant is spent in the turn it was asked in, or not at all (ADR-0008 section 5,
\* item 6; expire_terminal_grants).
GrantDiesWithTurn ==
  \A i \in Ids : calls[i].grant # 0 => calls[calls[i].grant].turn = calls[i].turn

\* Every call of a living agent is answered in the end; wait_for_exit may last as long as
\* its process (on_request: "until they get one the agent is blocked"). Which calls there
\* are is up to Kinds; creates, and permissions where it has them, share one prompt slot.
EveryCallIsAnswered ==
  \A i \in Ids : calls[i].kind \notin {"none", "wait"} ~> outcome[i] # "none" \/ ~alive

Ended(t) == terms[t].status \notin {"starting", "running"} \/ terms[t].released

============================================================================
