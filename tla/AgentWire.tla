----------------------------- MODULE AgentWire ------------------------------
(* What the agent writes, line by line, and what the pane makes of it       *)
(* (crates/agent/src/{jsonrpc,protocol}.rs, crates/app/src/model.rs): which *)
(* lines are messages, which fields they need, the answer every call is     *)
(* owed, the transcript and the session's mode.  Permissions, proposals and *)
(* commands are AgentBridge's and Review's; here they are only read.        *)
EXTENDS Naturals, FiniteSets, SequencesExt, TLC

CONSTANTS AgentLines,       \* sequence: what the agent may write unasked
          SessionModes,     \* sequence: the "modes" of its answers to session/new
          TranscriptLimit,  \* entries kept of a conversation (500 in the code)
          MaxTurns          \* bound: turns of the user and lines the agent writes unasked

VARIABLES wire,    \* the translator: handshake, requests, sessions, calls held
          toModel, \* events on their way to the loop
          chat,    \* the model's conversation, and the mode picker over it
          agent,   \* the agent itself: its sessions' modes, the calls it is owed, what it wrote
          turns
wireVars == <<wire, toModel, chat, agent, turns>>

-----------------------------------------------------------------------------
(* JSON values, by their type (serde_json::Value). *)
Absent == [t |-> "absent", v |-> 0]
Str(s) == [t |-> "string", v |-> s]
Num(n) == [t |-> "number", v |-> n]
Arr(s) == [t |-> "array", v |-> s]
Obj(r) == [t |-> "object", v |-> r]
True == [t |-> "boolean", v |-> TRUE]
Get(o, k) == IF o.t = "object" /\ k \in DOMAIN o.v THEN o.v[k] ELSE Absent
Has(o, k) == Get(o, k).t # "absent"
IsStr(x) == x.t = "string"
IsWord(x, s) == IsStr(x) /\ x.v = s
AllStr(x) == x.t = "array" /\ \A i \in DOMAIN x.v : IsStr(x.v[i])
Texts(s) == [i \in DOMAIN s |-> s[i].v]
\* The entries f takes, translated; the others are left out.
FilterMap(s, Takes(_), f(_)) ==
  LET taken == SelectSeq(s, Takes) IN [i \in DOMAIN taken |-> f(taken[i])]

\* Message::decode.  Only a number is an id: a call with another id is read
\* as a notification, and what has neither id nor method is skipped.
Decode(line) ==
  LET id == Get(line, "id") method == Get(line, "method")
      as(kind) == [kind |-> kind, id |-> id.v, method |-> method.v, params |-> Get(line, "params"),
                   result |-> Get(line, "result")]
  IN  CASE id.t = "number" /\ IsStr(method) -> as("request")
        [] id.t # "number" /\ IsStr(method) -> as("notification")
        [] id.t = "number" /\ ~IsStr(method) -> as(IF Has(line, "error") THEN "error" ELSE "response")
        [] OTHER -> as("none")

-----------------------------------------------------------------------------
(* What the fields say. *)
\* valid_absolute_path: rooted, and without "..".
AbsolutePaths == {"/work", "/work/sub"}
NoSpec == [program |-> "none", args |-> <<>>, cwd |-> "none", env |-> <<>>]
IsEnv(x) == x.t = "array" /\ \A i \in DOMAIN x.v :
  IsStr(Get(x.v[i], "name")) /\ Get(x.v[i], "name").v # "" /\ IsStr(Get(x.v[i], "value"))
EnvOf(x) == [i \in DOMAIN x.v |-> <<Get(x.v[i], "name").v, Get(x.v[i], "value").v>>]
TerminalSpecOfCreate(p) ==
  LET program == Get(p, "command") args == Get(p, "args") cwd == Get(p, "cwd") env == Get(p, "env")
  IN  IF /\ IsStr(program) /\ program.v # "" /\ (~Has(p, "args") \/ AllStr(args))
         /\ IsStr(cwd) /\ cwd.v \in AbsolutePaths /\ (~Has(p, "env") \/ IsEnv(env))
      THEN [program |-> program.v, args |-> IF Has(p, "args") THEN Texts(args.v) ELSE <<>>,
            cwd |-> cwd.v, env |-> IF Has(p, "env") THEN EnvOf(env) ELSE <<>>]
      ELSE NoSpec
OutputLimitOk(p) == ~Has(p, "outputByteLimit") \/ Get(p, "outputByteLimit").t = "number"
\* In a permission the command is one array, and nothing may be missing.
TerminalSpecOfPermission(tool) ==
  LET raw == Get(tool, "rawInput") command == Get(raw, "command") cwd == Get(raw, "cwd")
  IN  IF /\ AllStr(command) /\ command.v # <<>> /\ IsStr(cwd) /\ cwd.v \in AbsolutePaths
         /\ IsEnv(Get(raw, "env"))
      THEN [program |-> Head(command.v).v, args |-> Texts(Tail(command.v)), cwd |-> cwd.v,
            env |-> EnvOf(Get(raw, "env"))]
      ELSE NoSpec
\* What the human is shown as the command (argv_of).
ArgvOf(tool) ==
  LET command == Get(Get(tool, "rawInput"), "command")
  IN  CASE command.t = "array" -> Texts(SelectSeq(command.v, IsStr))
        [] IsStr(command) -> <<command.v>>
        [] OTHER -> <<>>
\* A mode needs an id; a list without one, or without a current mode, is none.
NoModes == [current |-> "none", modes |-> <<>>]
ParseSessionModes(m) ==
  LET offered == IF Get(m, "availableModes").t = "array"
                 THEN FilterMap(Get(m, "availableModes").v, LAMBDA x : IsStr(Get(x, "id")),
                                LAMBDA x : Get(x, "id").v) ELSE <<>>
  IN  IF ~IsStr(Get(m, "currentModeId")) \/ offered = <<>> THEN NoModes
      ELSE [current |-> Get(m, "currentModeId").v, modes |-> offered]
\* A flag the agent did not send is off.
ParseAgentCapabilities(result) ==
  LET caps == Get(result, "agentCapabilities") prompt == Get(caps, "promptCapabilities")
      on(o, flags) == {f \in flags : Get(o, f).t = "boolean" /\ Get(o, f).v}
  IN  on(caps, {"loadSession"}) \cup on(prompt, {"image", "audio", "embeddedContext"})
StopReasons == {"cancelled", "refusal", "max_tokens"}
StopReason(result) ==
  LET r == Get(result, "stopReason") IN IF IsStr(r) /\ r.v \in StopReasons THEN r.v ELSE "end_turn"

-----------------------------------------------------------------------------
(* The translator.  A request of ours is known by its place in `asked`.     *)
Event(kind, session, what) == [kind |-> kind, session |-> session, what |-> what]
OurSession(w, x) ==
  IF IsStr(x) THEN SelectInSeq(w.sessions, LAMBDA name : name = x.v) ELSE 0
Encode(w, r) ==
  IF r.kind # "new" /\ r.session \notin DOMAIN w.sessions THEN w
  ELSE [w EXCEPT !.asked = Append(@, r)]
Outgoing(w, r) == IF w.ready THEN Encode(w, r) ELSE [w EXCEPT !.queued = Append(@, r)]
Done == [kind |-> "done", session |-> 0, mode |-> "none"]
NoLongerAsked(w, id) == IF id \in DOMAIN w.asked THEN [w EXCEPT !.asked[id] = Done] ELSE w
AskedAs(w, id) == IF id \in DOMAIN w.asked THEN w.asked[id] ELSE Done

\* What one message does: the translator after it, the events for the loop,
\* and the calls of the agent that are answered at once.
Outcome(w, events, answered) == [wire |-> w, events |-> events, answered |-> answered]
OnResponse(w, id, result) ==
  LET was == AskedAs(w, id) now == NoLongerAsked(w, id)
      name == Get(result, "sessionId")
      session == Len(w.sessions) + 1
      modes == ParseSessionModes(Get(result, "modes"))
  IN  CASE was.kind = "initialize" ->
             Outcome([FoldLeft(Encode, now, w.queued) EXCEPT !.ready = TRUE, !.queued = <<>>],
                     <<Event("Ready", 0, ParseAgentCapabilities(result))>>, {})
        [] was.kind = "new" /\ ~IsStr(name) ->
             Outcome(now, <<Event("Failed", 0, {})>>, {})
        [] was.kind = "new" /\ IsStr(name) ->
             Outcome([now EXCEPT !.sessions = Append(@, name.v)],
                     <<Event("SessionStarted", session, {})>>
                       \o IF modes = NoModes THEN <<>> ELSE <<Event("ModesAvailable", session, modes)>>,
                     {})
        [] was.kind = "prompt" -> Outcome(now, <<Event("TurnEnded", was.session, StopReason(result))>>, {})
        [] was.kind = "mode" -> Outcome(now, <<Event("ModeChanged", was.session, was.mode)>>, {})
        [] OTHER -> Outcome(w, <<>>, {})
OnError(w, id) ==
  LET was == AskedAs(w, id)
  IN  Outcome(NoLongerAsked(w, id),
              <<Event("Failed", IF was.kind \in {"prompt", "mode"} THEN was.session ELSE 0, {})>>, {})

Chunk(s, speaker, u) ==
  LET text == Get(Get(u, "content"), "text")
  IN  IF IsStr(text) THEN <<Event("Chunk", s, <<speaker, text.v>>)>> ELSE <<>>
\* A diff in a tool call is a proposal; a terminal it names is shown with it.
Attached(w, s, x) ==
  LET id == Get(x, "terminalId") IN
  /\ IsStr(id)
  /\ \E i \in DOMAIN w.terminals : w.terminals[i].name = id.v /\ w.terminals[i].session = s
IsDiff(x) == IsStr(Get(x, "path")) /\ IsStr(Get(x, "newText"))
ToolEvents(w, s, u) ==
  LET content == Get(u, "content")
      type(x) == Get(x, "type").v
  IN  IF content.t # "array" THEN <<>>
      ELSE FilterMap(SelectSeq(content.v, LAMBDA x : IsStr(Get(x, "type"))),
             LAMBDA x : (type(x) = "diff" /\ IsDiff(x)) \/ (type(x) = "terminal" /\ Attached(w, s, x)),
             LAMBDA x : IF type(x) = "diff" THEN Event("ProposedEdit", s, Get(x, "path").v)
                        ELSE Event("TerminalAttached", s, Get(x, "terminalId").v))
OnNotification(w, method, p) ==
  LET s == OurSession(w, Get(p, "sessionId"))
      u == Get(p, "update")
      kind == IF IsStr(Get(u, "sessionUpdate")) THEN Get(u, "sessionUpdate").v ELSE ""
      mode == Get(u, "modeId")
  IN  IF method # "session/update" \/ s = 0 THEN <<>>
      ELSE CASE kind = "agent_message_chunk" -> Chunk(s, "Agent", u)
             [] kind = "agent_thought_chunk" -> Chunk(s, "Thought", u)
             [] kind \in {"tool_call", "tool_call_update"} -> ToolEvents(w, s, u)
             [] kind = "current_mode_update" /\ IsStr(mode) -> <<Event("ModeChanged", s, mode.v)>>
             [] OTHER -> <<>>

\* A call is answered at once, or held under an id of ours until the model
\* answers it.
HeldCall(id, kind, session, about) ==
  [id |-> id, kind |-> kind, session |-> session, about |-> about]
Holds(w, call, event) == Outcome([w EXCEPT !.held = Append(@, call)], <<event>>, {})
\* Mutant: a call that cannot be served is left without a word.
Ignores(w, id) == Outcome(w, <<>>, {})
Refuses(w, id) == Outcome(w, <<>>, {id})
TerminalCalls == {"terminal/output", "terminal/wait_for_exit", "terminal/kill", "terminal/release"}
LiveTerminal(w, s, x) ==
  IF IsStr(x) THEN SelectInSeq(w.terminals, LAMBDA b : b.name = x.v /\ b.session = s /\ ~b.released)
  ELSE 0
\* The edit a permission is about: the first whole diff of its tool call.
EditOf(tool) ==
  LET content == Get(tool, "content")
      i == IF content.t = "array"
           THEN SelectInSeq(content.v, LAMBDA x : IsWord(Get(x, "type"), "diff") /\ IsDiff(x)) ELSE 0
  IN  IF i = 0 THEN "none" ELSE Get(content.v[i], "path").v
WhatItAsks(tool) ==
  [shown |-> ArgvOf(tool), spec |-> TerminalSpecOfPermission(tool), edit |-> EditOf(tool)]
OnRequest(w, id, method, p) ==
  LET s == OurSession(w, Get(p, "sessionId"))
      spec == TerminalSpecOfCreate(p)
      terminal == LiveTerminal(w, s, Get(p, "terminalId"))
      hold(kind, about) == Holds(w, HeldCall(id, kind, s, about), Event(kind, s, about))
  IN  CASE method = "fs/read_text_file" ->
             IF IsStr(Get(p, "path")) THEN hold("read", Get(p, "path").v) ELSE Refuses(w, id)
        [] method = "fs/write_text_file" ->
             IF IsStr(Get(p, "path")) /\ IsStr(Get(p, "content"))
             THEN Outcome(w, <<Event("ProposedEdit", s, Get(p, "path").v)>>, {id}) ELSE Refuses(w, id)
        [] method = "session/request_permission" -> hold("permission", WhatItAsks(Get(p, "toolCall")))
        [] method = "terminal/create" ->
             IF s = 0 \/ spec = NoSpec \/ ~OutputLimitOk(p) THEN Refuses(w, id) ELSE hold("create", spec)
        [] method \in TerminalCalls ->
             IF s = 0 \/ terminal = 0 THEN Refuses(w, id) ELSE hold(method, terminal)
        [] OTHER -> Refuses(w, id)

Incoming(w, m) ==
  CASE m.kind = "response" -> OnResponse(w, m.id, m.result)
    [] m.kind = "error" -> OnError(w, m.id)
    [] m.kind = "notification" -> Outcome(w, OnNotification(w, m.method, m.params), {})
    [] m.kind = "request" -> OnRequest(w, m.id, m.method, m.params)
    [] OTHER -> Outcome(w, <<>>, {})

-----------------------------------------------------------------------------
(* The agent answers what it was asked when it likes, and writes what it    *)
(* likes meanwhile; it does not use an id of its own while it is in use.    *)
NewChat(session) ==
  [session |-> session, modes |-> <<>>, current |-> "none", transcript |-> <<>>, active |-> FALSE]
NoPicker == [open |-> FALSE, modes |-> <<>>, selected |-> 0]
WireInit ==
  /\ wire = [ready |-> FALSE, over |-> FALSE, queued |-> <<>>, sessions |-> <<>>, held |-> <<>>,
             asked |-> <<[kind |-> "initialize", session |-> 0, mode |-> "none"]>>,
             terminals |-> <<>>]
  /\ toModel = <<>>
  /\ chat = [waiting |-> FALSE, picker |-> NoPicker, can |-> {}] @@ NewChat(0)
  /\ agent = [alive |-> TRUE, owed |-> {}, named |-> 0, modes |-> <<>>, wrote |-> <<>>]
  /\ turns = 0

\* Nothing new is asked of a conversation that is over; a line without
\* effect is not counted.
Turn == turns < MaxTurns /\ turns' = turns + 1 /\ ~wire.over
\* What the agent says in a line, of which session, and the newest session it
\* had begun by then: a history that no handler reads.
Utterance(line) ==
  LET p == Get(line, "params") u == Get(p, "update") text == Get(Get(u, "content"), "text")
      Says(kind, speaker) ==
        IF OurSession(wire, Get(p, "sessionId")) # 0 /\ IsWord(Get(u, "sessionUpdate"), kind) /\ IsStr(text)
        THEN <<[said |-> <<speaker, text.v>>, newest |-> Len(agent.modes)]>> ELSE <<>>
  IN  Says("agent_message_chunk", "Agent") \o Says("agent_thought_chunk", "Thought")
\* The reader hands a line to the worker, which translates it; modes is what
\* the agent has then said of its sessions' modes.
Writes(line, modes) ==
  LET o == Incoming(wire, Decode(line))
      calls(id) == IF id.t # "absent" /\ IsStr(Get(line, "method")) THEN {id} ELSE {}
      numbered == {id.v : id \in {x \in calls(Get(line, "id")) : x.t = "number"}}
      named == Cardinality({x \in calls(Get(line, "id")) : IsStr(x)})
  IN  /\ ~wire.over
      /\ wire' = o.wire /\ toModel' = toModel \o o.events
      /\ agent' = [agent EXCEPT !.owed = (@ \cup numbered) \ o.answered,
                                !.named = @ + named, !.modes = modes,
                                !.wrote = @ \o Utterance(line)]
      /\ UNCHANGED chat

WritesUnasked(i) ==
  LET line == AgentLines[i]
      p == Get(line, "params") u == Get(p, "update")
      s == OurSession(wire, Get(p, "sessionId"))
  IN  /\ turns < MaxTurns
      /\ Get(line, "id").t = "number" => Get(line, "id").v \notin agent.owed
      /\ Writes(line, IF s # 0 /\ IsWord(Get(u, "sessionUpdate"), "current_mode_update")
                         /\ IsStr(Get(u, "modeId"))
                      THEN [agent.modes EXCEPT ![s] = Get(u, "modeId").v] ELSE agent.modes)
      /\ turns' = IF <<wire, toModel, agent>>' = <<wire, toModel, agent>> THEN turns ELSE turns + 1

\* What it may answer to each kind of request, and the mode that states.
SessionNames == <<"s1", "s2", "s3">>
Reply(id, result) == Obj([id |-> Num(id), result |-> result])
Refusal(id) == Obj([id |-> Num(id), error |-> Obj([code |-> Num(1)])])
Capabilities ==
  Obj([agentCapabilities |-> Obj([loadSession |-> True,
                                  promptCapabilities |-> Obj([image |-> True, audio |-> Num(1)])])])
AnswersInitialize(id) ==
  wire.asked[id].kind = "initialize"
  /\ \/ Writes(Reply(id, Capabilities), agent.modes)
     \/ Writes(Refusal(id), agent.modes)
AnswersNew(id) ==
  /\ wire.asked[id].kind = "new"
  /\ \/ \E i \in DOMAIN SessionModes :
          LET name == SessionNames[Len(wire.sessions) + 1]
          IN  Writes(Reply(id, Obj([sessionId |-> Str(name), modes |-> SessionModes[i]])),
                     Append(agent.modes, ParseSessionModes(SessionModes[i]).current))
     \/ Writes(Reply(id, True), agent.modes)
     \/ Writes(Refusal(id), agent.modes)
AnswersPrompt(id) ==
  /\ wire.asked[id].kind = "prompt"
  /\ \/ \E r \in {Str("cancelled"), Str("bored")} :
          Writes(Reply(id, Obj([stopReason |-> r])), agent.modes)
     \/ Writes(Refusal(id), agent.modes)
AnswersMode(id) ==
  /\ wire.asked[id].kind = "mode"
  /\ \/ Writes(Reply(id, True), [agent.modes EXCEPT ![wire.asked[id].session] = wire.asked[id].mode])
     \/ Writes(Refusal(id), agent.modes)
AgentAnswers ==
  /\ \E id \in DOMAIN wire.asked :
       AnswersInitialize(id) \/ AnswersNew(id) \/ AnswersPrompt(id) \/ AnswersMode(id)
  /\ UNCHANGED turns

\* The reader stops: at the end of the output, or at a line that is not UTF-8.
ReaderStops(exits) ==
  /\ ~wire.over /\ turns < MaxTurns
  /\ wire' = [wire EXCEPT !.over = TRUE] /\ toModel' = Append(toModel, Event("Failed", 0, {}))
  /\ agent' = [agent EXCEPT !.alive = ~exits]
  /\ turns' = MaxTurns
  /\ UNCHANGED chat

\* The model answers a call it held; a command it started gets a name, and
\* one it let go of is not to be named again.
AnswersHeld(i, well) ==
  LET call == wire.held[i]
      bound == [name |-> "t" \o ToString(Len(wire.terminals) + 1), session |-> call.session, released |-> FALSE]
  IN  /\ ~wire.over /\ (well \/ call.kind \in {"create", "terminal/release"})
      /\ wire' = [wire EXCEPT !.held = RemoveAt(@, i),
                    !.terminals = IF ~well THEN @
                                  ELSE IF call.kind = "create" THEN Append(@, bound)
                                  ELSE IF call.kind = "terminal/release"
                                  THEN [@ EXCEPT ![call.about].released = TRUE] ELSE @]
      /\ agent' = [agent EXCEPT !.owed = @ \ {call.id}]
      /\ UNCHANGED <<toModel, chat, turns>>

-----------------------------------------------------------------------------
(* The conversation.                                                        *)
Request(kind, mode) == [kind |-> kind, session |-> chat.session, mode |-> mode]
Sends(r) == wire' = IF wire.over THEN wire ELSE Outgoing(wire, r)
\* send_prompt begins an entry of its own, and cuts nothing off.
Asked(c) == [c EXCEPT !.active = TRUE,
                      !.transcript = Append(@, [speaker |-> "You", said |-> <<"ask">>])]
\* push_transcript: what one speaker goes on saying is one entry.
PushTranscript(transcript, speaker, text) ==
  LET n == Len(transcript)
      grown == IF n > 0 /\ transcript[n].speaker = speaker
               THEN [transcript EXCEPT ![n].said = Append(@, text)]
               ELSE Append(transcript, [speaker |-> speaker, said |-> <<text>>])
  IN  IF Len(grown) > TranscriptLimit THEN Tail(grown) ELSE grown

\* A mode is believed of the session on show, and only from the agent.
HearsMode(e) ==
  /\ chat' = CASE e.session # chat.session -> chat
               [] e.kind = "ModesAvailable" /\ e.session = chat.session ->
                    [chat EXCEPT !.modes = e.what.modes, !.current = e.what.current]
               [] OTHER -> [chat EXCEPT !.current = e.what]
  /\ UNCHANGED <<wire, agent>>
HearsSession(e) ==
  LET fresh == NewChat(e.session) @@ [chat EXCEPT !.waiting = FALSE]
  IN  /\ chat' = IF chat.waiting THEN Asked(fresh) ELSE fresh
      /\ IF chat.waiting
         THEN Sends([kind |-> "prompt", session |-> e.session, mode |-> "none"]) ELSE wire' = wire
      /\ UNCHANGED agent
\* Nobody asks for whom: a chunk of an earlier session is said in this one.
HearsChunk(e) ==
  /\ chat' = [chat EXCEPT !.transcript = PushTranscript(@, e.what[1], e.what[2])]
  /\ UNCHANGED <<wire, agent>>
HearsEvent ==
  /\ toModel # <<>> /\ toModel' = Tail(toModel)
  /\ LET e == Head(toModel)
     IN  CASE e.kind = "Ready" -> chat' = [chat EXCEPT !.can = e.what] /\ UNCHANGED <<wire, agent>>
           [] e.kind \in {"ModesAvailable", "ModeChanged"} -> HearsMode(e)
           [] e.kind = "SessionStarted" -> HearsSession(e)
           [] e.kind = "Chunk" -> HearsChunk(e)
           [] e.kind \in {"TurnEnded", "Failed"} -> chat' = [chat EXCEPT !.active = FALSE] /\ UNCHANGED <<wire, agent>>
           [] OTHER -> UNCHANGED <<wire, chat, agent>>
  /\ UNCHANGED turns

NewAgentSession == Turn /\ Sends(Request("new", "none")) /\ UNCHANGED <<toModel, chat, agent>>
AskAgent ==
  /\ Turn /\ ~chat.active
  /\ IF chat.session = 0
     THEN Sends(Request("new", "none")) /\ chat' = [chat EXCEPT !.waiting = TRUE]
     ELSE Sends(Request("prompt", "none")) /\ chat' = Asked(chat)
  /\ UNCHANGED <<toModel, agent>>
\* The picker shows the modes of the moment it was opened, the current one first.
OpenAgentModes ==
  /\ turns < MaxTurns /\ chat.modes # <<>> /\ ~chat.picker.open
  /\ chat' = [chat EXCEPT !.picker =
                [open |-> TRUE, modes |-> chat.modes,
                 selected |-> LET i == SelectInSeq(chat.modes, LAMBDA mode : mode = chat.current)
                              IN  IF i = 0 THEN 1 ELSE i]]
  /\ UNCHANGED <<wire, toModel, agent, turns>>
MoveInPicker(by) ==
  /\ chat.picker.open /\ chat.picker.selected + by \in DOMAIN chat.picker.modes
  /\ chat' = [chat EXCEPT !.picker.selected = @ + by]
  /\ UNCHANGED <<wire, toModel, agent, turns>>
LeavePicker ==
  /\ chat.picker.open /\ chat' = [chat EXCEPT !.picker = NoPicker]
  /\ UNCHANGED <<wire, toModel, agent, turns>>
SetAgentMode ==
  /\ Turn /\ chat.picker.open
  /\ Sends(Request("mode", chat.picker.modes[chat.picker.selected]))
  /\ chat' = [chat EXCEPT !.picker = NoPicker]
  /\ UNCHANGED <<toModel, agent>>

WireNext ==
  \/ \E i \in DOMAIN AgentLines : WritesUnasked(i)
  \/ AgentAnswers
  \/ \E exits \in BOOLEAN : ReaderStops(exits)
  \/ \E i \in DOMAIN wire.held, well \in BOOLEAN : AnswersHeld(i, well)
  \/ HearsEvent \/ NewAgentSession \/ AskAgent \/ OpenAgentModes \/ LeavePicker \/ SetAgentMode
  \/ \E by \in {-1, 1} : MoveInPicker(by)

-----------------------------------------------------------------------------
(* Properties. *)
\* Every numbered call the agent made is owed exactly one answer: it has had
\* it, or is held once for the model to give it.
CallsAreHeldOnce ==
  /\ agent.owed = {wire.held[i].id : i \in DOMAIN wire.held}
  /\ Cardinality(agent.owed) = Len(wire.held)

\* The mode on show is the one the agent last stated of the session on show,
\* whatever was asked of it, of this session or of those before.
ModeIsTheAgents ==
  toModel = <<>> /\ chat.session # 0 => chat.current = agent.modes[chat.session]

\* The transcript is what the agent wrote since the session on show began, as
\* far as the loop has heard it: in order, nothing lost or said twice except at
\* the front once the limit is reached, each word under its speaker, and what
\* one speaker said in one go is one entry.  Of which session a word is, is not
\* asked: what the agent still says in an earlier session is shown in this one.
TranscriptIsWhatWasSaid ==
  LET since == SelectSeq(agent.wrote, LAMBDA w : w.newest = chat.session)
      next == SelectInSeq(toModel, LAMBDA e : e.kind = "SessionStarted")
      coming == SelectSeq(SubSeq(toModel, 1, IF next = 0 THEN Len(toModel) ELSE next - 1),
                          LAMBDA e : e.kind = "Chunk")
      heard == [i \in 1..(Len(since) - Len(coming)) |-> since[i].said]
      entry(i) == [j \in DOMAIN chat.transcript[i].said |->
                     <<chat.transcript[i].speaker, chat.transcript[i].said[j]>>]
      shown == SelectSeq(FlattenSeq([i \in DOMAIN chat.transcript |-> entry(i)]),
                         LAMBDA w : w[1] # "You")
  IN  /\ IsSuffix(shown, heard)
      /\ shown = heard \/ Len(chat.transcript) >= TranscriptLimit
      /\ \A i \in DOMAIN chat.transcript \ {1} :
           chat.transcript[i].speaker = chat.transcript[i - 1].speaker =>
             chat.transcript[i].speaker = "You"

\* The command a permission shows is the whole of the one it would launch.
ShownIsGranted ==
  \A i \in DOMAIN wire.held :
    wire.held[i].kind = "permission" /\ wire.held[i].about.spec # NoSpec =>
      wire.held[i].about.shown = <<wire.held[i].about.spec.program>> \o wire.held[i].about.spec.args

\* What the agent writes is read as it means it (protocol.rs, jsonrpc.rs): the
\* calls it numbered, the modes it states, its words and the command it asks
\* leave for.  A call with another id than a number is not (NoCallIsDropped),
\* nor the session its words are of.
WireIsReadAsWritten ==
  CallsAreHeldOnce /\ ModeIsTheAgents /\ TranscriptIsWhatWasSaid /\ ShownIsGranted

\* A call is answered whatever its id is made of ("nothing here may quietly
\* drop the id", protocol.rs).  The code drops calls with other ids than numbers.
NoCallIsDropped == agent.named = 0

\* Only the end of the agent ends the conversation ("a stray line is traffic
\* to skip, not a reason to end the session", acp.rs).
StrayLinesAreSkipped == wire.over => ~agent.alive

=============================================================================
