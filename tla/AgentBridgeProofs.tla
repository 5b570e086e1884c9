------------------------- MODULE AgentBridgeProofs -------------------------
(***************************************************************************)
(* Proofs about AgentBridge, for any number of calls, sessions, commands   *)
(* and requests: the types hold, every command the agent starts was        *)
(* approved, the agent is told what was decided, what runs belongs to the  *)
(* session of the moment, and a call that waits can still be woken.        *)
(***************************************************************************)
EXTENDS AgentBridge, TLAPS

\* The bounds are numbers, and 0 is a session.
LEMMA BoundsAreNumbers ==
  /\ MaxCalls \in Nat /\ MaxSessions \in Nat /\ MaxAsks \in Nat
  /\ 0 \in Sessions /\ Sessions \subseteq Nat
BY BridgeAssumption DEF Sessions

\* A call's id is a positive number.
LEMMA IdsAreNumbers == MaxCalls \in Nat /\ Ids \subseteq Nat \ {0}
BY BoundsAreNumbers DEF Ids

\* A session the agent knows of, and the turns of it that have ended
LEMMA StartedSessions == TypeOK => \A s \in 0..started : s \in Sessions /\ ended[s] \in Nat
<1>. SUFFICES ASSUME TypeOK, NEW s \in 0..started PROVE s \in Sessions /\ ended[s] \in Nat
  OBVIOUS
<1>1. started \in 0..MaxSessions /\ ended \in [Sessions -> Nat]
  BY DEF TypeOK, Sessions
<1>2. s \in Sessions
  BY <1>1, BoundsAreNumbers DEF Sessions
<1>. QED BY <1>1, <1>2

\* What the queue of requests holds after a push: what it held, and perhaps the message.
LEMMA PushEffect ==
  ASSUME NEW q \in Seq(Request), NEW m \in Request
  PROVE  /\ Push(q, m) \in Seq(Request)
         /\ \A k \in DOMAIN Push(q, m) :
              Push(q, m)[k] = m \/ \E j \in DOMAIN q : Push(q, m)[k] = q[j]
<1>1. Push(q, m) = q \/ Push(q, m) = Append(q, m)
  BY DEF Push
<1>2. ASSUME Push(q, m) = Append(q, m)
      PROVE  /\ Push(q, m) \in Seq(Request)
             /\ \A k \in DOMAIN Push(q, m) :
                  Push(q, m)[k] = m \/ \E j \in DOMAIN q : Push(q, m)[k] = q[j]
  BY <1>2
<1>. QED BY <1>1, <1>2

\* The messages that the handlers build are requests.
LEMMA MessageTypes ==
  /\ \A ids, errors \in SUBSET Ids : \A with \in Allows \cup {"reject_once", "result"} :
       Answer(ids, with, errors) \in Request
  /\ \A k \in Debts : \A s \in Sessions : Ask(k, s) \in Request
BY BoundsAreNumbers DEF Answer, Ask, Request, Debts, Sessions

\* Telling the loop something keeps its channel well typed.
LEMMA TellType ==
  ASSUME events \in Seq(Event), NEW k, NEW s \in Sessions, NEW i,
         \/ k = "call" /\ i \in Ids
         \/ k \in {"session", "turn", "cancelled", "failed"} /\ i = 0
  PROVE  Tell(k, s, i) \in Seq(Event)
<1>1. [kind |-> k, session |-> s, id |-> i] \in Event
  BY DEF Event
<1>. QED BY <1>1 DEF Tell

----------------------------------------------------------------------------

\* The first event is an event, and so is each of the others.
LEMMA AbsorbType ==
  ASSUME events \in Seq(Event), events # <<>>
  PROVE  Head(events) \in Event /\ Tail(events) \in Seq(Event)
OBVIOUS

\* The initial state is well typed.
LEMMA InitType == Init => TypeOK
<1>. SUFFICES ASSUME Init PROVE TypeOK
  OBVIOUS
<1>1. NoCall \in Call /\ NoTerm \in Term /\ 0 \in Sessions
  BY BoundsAreNumbers DEF NoCall, NoTerm, Call, Term, Sessions
<1>2. calls \in [Ids -> Call] /\ terms \in [Ids -> Term]
  BY <1>1 DEF Init
<1>3. owed \in [Debts -> [Sessions -> Nat]] /\ ended \in [Sessions -> Nat]
  BY DEF Init
<1>4. nextId \in 0..MaxCalls /\ asks \in 0..MaxAsks
  BY BoundsAreNumbers DEF Init
<1>5. events \in Seq(Event) /\ requests \in Seq(Request)
  BY DEF Init
<1>. QED BY <1>1, <1>2, <1>3, <1>4, <1>5 DEF Init, TypeOK

USE DEF translator, people, held, conv, vars

\* A call that is admitted is well typed, and so is what follows from it.
LEMMA AdmitType ==
  ASSUME TypeOK, NEW c \in Call, Admit(c), grants' \subseteq Ids
  PROVE  TypeOK'
<1>1. nextId + 1 \in Ids /\ nextId' \in 0..MaxCalls
  BY BoundsAreNumbers DEF TypeOK, Admit, Ids
<1>2. events' \in Seq(Event)
  BY <1>1, TellType DEF TypeOK, Admit, Call
<1>. QED BY <1>1, <1>2 DEF TypeOK, Admit

\* What the agent asks keeps the types.
LEMMA AgentAsksType == TypeOK /\ AgentAsks => TypeOK'
<1>. SUFFICES ASSUME TypeOK, AgentAsks PROVE TypeOK'
  OBVIOUS
<1>0. \A s \in 0..started : s \in Sessions /\ ended[s] \in Nat
  BY StartedSessions
<1>1. ASSUME NEW s \in 0..started, AskRead(s) PROVE TypeOK'
  <2>1. [NoCall EXCEPT !.kind = "read", !.session = s, !.turn = ended[s]] \in Call
    BY <1>0, <1>1 DEF AskRead, NoCall, Call
  <2>. QED BY <1>1, <2>1, AdmitType DEF AskRead, TypeOK
<1>2. ASSUME NEW s \in 0..started, NEW c \in Commands \cup {NoCommand}, NEW offer \in Offers,
             AskPermission(s, c, offer)
      PROVE TypeOK'
  <2>1. [NoCall EXCEPT !.kind = "permission", !.session = s, !.command = c,
                       !.options = offer, !.turn = ended[s]] \in Call
    BY <1>0, <1>2 DEF AskPermission, NoCall, Call
  <2>. QED BY <1>2, <2>1, AdmitType DEF AskPermission, TypeOK
<1>3. ASSUME NEW s \in 0..started, NEW c \in Commands, AskCreate(s, c) PROVE TypeOK'
  <2>1. PICK grant \in IF Covering(s, c) = {} THEN {0} ELSE Covering(s, c) :
          /\ Admit([NoCall EXCEPT !.kind = "create", !.session = s, !.command = c,
                                  !.grant = grant, !.turn = ended[s]])
          /\ grants' = grants \ {grant}
    BY <1>3 DEF AskCreate
  <2>2. grant \in {0} \cup Ids
    BY DEF Covering, TypeOK
  <2>3. [NoCall EXCEPT !.kind = "create", !.session = s, !.command = c,
                       !.grant = grant, !.turn = ended[s]] \in Call
    BY <1>0, <1>3, <2>2 DEF AskCreate, NoCall, Call
  <2>. QED BY <2>1, <2>3, AdmitType DEF TypeOK
<1>4. ASSUME NEW k \in Kinds, NEW t \in Ids, AskTerminal(k, t) PROVE TypeOK'
  <2>0. calls[t].session \in Sessions
    BY DEF TypeOK, Call
  <2>1. [NoCall EXCEPT !.kind = k, !.session = calls[t].session, !.terminal = t,
                       !.turn = ended[calls[t].session]] \in Call
    BY <2>0 DEF TypeOK, NoCall, Call
  <2>. QED BY <1>4, <2>1, AdmitType DEF AskTerminal, TypeOK
<1>. QED BY <1>1, <1>2, <1>3, <1>4 DEF AgentAsks

\* So does what it replies.
LEMMA AgentRepliesType ==
  ASSUME TypeOK, NEW k \in Debts, NEW s \in Sessions, NEW well, AgentReplies(k, s, well)
  PROVE  TypeOK'
<1>1. owed' \in [Debts -> [Sessions -> Nat]]
  BY DEF TypeOK, AgentReplies
<1>2. ended' \in [Sessions -> Nat]
  BY DEF TypeOK, AgentReplies
<1>3. started' \in Sessions
  <2>1. started \in Sessions
    BY DEF TypeOK
  <2>2. started' = started \/ (started < MaxSessions /\ started' = started + 1)
    BY DEF AgentReplies
  <2>. QED BY <2>1, <2>2, BoundsAreNumbers DEF Sessions
<1>4. events' \in Seq(Event)
  <2>1. CASE events' = events BY <2>1 DEF TypeOK
  <2>2. CASE started < MaxSessions /\ events' = Tell("session", started + 1, 0)
    <3>1. started + 1 \in Sessions
      BY <2>2, BoundsAreNumbers DEF TypeOK, Sessions
    <3>. QED BY <2>2, <3>1, TellType DEF TypeOK
  <2>3. CASE \E e \in {"turn", "cancelled", "failed"} : events' = Tell(e, s, 0)
    BY <2>3, TellType DEF TypeOK
  <2>. QED BY <2>1, <2>2, <2>3 DEF AgentReplies
<1>5. grants' \subseteq Ids
  BY DEF TypeOK, AgentReplies, Unexpired
<1>. QED BY <1>1, <1>2, <1>3, <1>4, <1>5 DEF TypeOK, AgentReplies

\* Encoding a request keeps the types.
LEMMA EncodeType == TypeOK /\ Encode => TypeOK'
<1>. SUFFICES ASSUME TypeOK, Encode PROVE TypeOK'
  OBVIOUS
<1>. DEFINE m == Head(requests)
<1>0. m \in Request /\ requests' \in Seq(Request)
  BY DEF Encode, TypeOK
<1>1. CASE m.kind = "answer"
  <2>. EncodeAnswer(m)
    BY <1>1 DEF Encode
  <2>1. \A i \in Ids : Wire(i, m) \in {"none", "error", "result", "cancelled", "reject_once"}
                                       \cup Allows
    BY <1>0 DEF Wire, ChooseOption, Request, Allows
  <2>2. outcome' \in [Ids -> {"none", "error", "result", "cancelled", "reject_once"} \cup Allows]
    BY <2>1 DEF EncodeAnswer, TypeOK
  <2>3. grants' \subseteq Ids
    BY <1>0 DEF EncodeAnswer, Granted, Open, Request, TypeOK
  <2>4. bound' \in [Ids -> {"none", "live", "released"}]
    BY DEF EncodeAnswer, TypeOK
  <2>. QED BY <1>0, <2>2, <2>3, <2>4 DEF EncodeAnswer, Encode, TypeOK
<1>2. CASE m.kind # "answer"
  <2>1. m.kind \in Debts /\ m.session \in Sessions
    BY <1>0, <1>2 DEF Request, Debts
  <2>3. EncodeAsk(m)
    BY <1>2 DEF Encode
  <2>4. PICK k \in Debts, s \in Sessions :
          owed' = owed \/ owed' = [owed EXCEPT ![k][s] = @ + 1]
    BY <2>1, <2>3 DEF EncodeAsk
  <2>5. owed' \in [Debts -> [Sessions -> Nat]]
    <3>1. owed \in [Debts -> [Sessions -> Nat]]
      BY DEF TypeOK
    <3>2. [owed[k] EXCEPT ![s] = @ + 1] \in [Sessions -> Nat]
      BY <3>1
    <3>. QED BY <2>4, <3>1, <3>2
  <2>. QED BY <1>0, <2>3, <2>5 DEF EncodeAsk, Encode, TypeOK
<1>. QED BY <1>1, <1>2

\* An answer to known calls keeps the queue well typed.
LEMMA AnswerType ==
  ASSUME TypeOK,
         NEW ids \in SUBSET Ids, NEW with \in Allows \cup {"reject_once", "result"},
         NEW errors \in SUBSET Ids
  PROVE  Push(requests, Answer(ids, with, errors)) \in Seq(Request)
BY PushEffect, MessageTypes DEF TypeOK

\* A reply and a refusal keep the queue well typed.
LEMMA ReplyType ==
  ASSUME TypeOK, NEW i \in Ids, NEW with \in Allows \cup {"reject_once", "result"},
         Reply(i, with) \/ Refuse(i)
  PROVE  requests' \in Seq(Request)
<1>1. Push(requests, Answer({i}, with, {})) \in Seq(Request)
  BY AnswerType
<1>2. Push(requests, Answer({}, "result", {i})) \in Seq(Request)
  BY AnswerType
<1>. QED BY <1>1, <1>2 DEF Reply, Refuse

\* The call at the head of the loop's channel
LEMMA HeadCall ==
  ASSUME TypeOK, NEW ks, AbsorbingCall(ks)
  PROVE  /\ Head(events).id \in Ids
         /\ calls[Head(events).id] \in Call
         /\ events' \in Seq(Event)
<1>1. Head(events) \in Event /\ events' \in Seq(Event)
  BY AbsorbType DEF AbsorbingCall, Absorbing, TypeOK
<1>2. Head(events).id \in Ids
  BY <1>1 DEF AbsorbingCall, Absorbing, Event
<1>. QED BY <1>1, <1>2 DEF TypeOK

\* A spawned command has a terminal record.
LEMMA SpawnType ==
  ASSUME TypeOK, NEW i \in Ids, Spawn(i)
  PROVE  creates' \subseteq Ids /\ terms' \in [Ids -> Term]
<1>1. [NoTerm EXCEPT !.status = "starting"] \in Term
  BY DEF NoTerm, Term
<1>. QED BY <1>1 DEF Spawn, TypeOK

\* Marking terminals released keeps their records.
LEMMA ReleasedType ==
  ASSUME TypeOK
  PROVE  \A t \in Ids : [terms[t] EXCEPT !.released = TRUE] \in Term
BY DEF TypeOK, Term

\* Cancelling keeps the types of what it changes.
LEMMA CancelType ==
  ASSUME TypeOK, NEW s, CancelTerminals(s)
  PROVE  /\ Cancelled(s) \in SUBSET Ids
         /\ creates' \subseteq Ids /\ waits' \subseteq Ids /\ reads' \subseteq Ids
         /\ terms' \in [Ids -> Term]
BY ReleasedType DEF CancelTerminals, Cancelled, TypeOK

\* The handlers of the loop keep the types.
LEMMA AbsorbPreservesType == TypeOK /\ Absorb => TypeOK'
<1>. SUFFICES ASSUME TypeOK, Absorb PROVE TypeOK'
  OBVIOUS
<1>. DEFINE i == Head(events).id
<1>1. CASE OnRead
  <2>1. i \in Ids /\ events' \in Seq(Event)
    BY <1>1, HeadCall DEF OnRead
  <2>2. requests' \in Seq(Request)
    <3>1. Reply(i, "result") \/ Refuse(i) \/ UNCHANGED requests
      BY <1>1 DEF OnRead
    <3>. QED BY <2>1, <3>1, ReplyType DEF TypeOK
  <2>. QED BY <1>1, <2>1, <2>2 DEF OnRead, TypeOK
<1>2. CASE OnPermission
  <2>1. i \in Ids /\ events' \in Seq(Event)
    BY <1>2, HeadCall DEF OnPermission
  <2>2. requests' \in Seq(Request)
    <3>1. Reply(i, "reject_once") \/ UNCHANGED requests
      BY <1>2 DEF OnPermission
    <3>. QED BY <2>1, <3>1, ReplyType DEF TypeOK
  <2>. QED BY <1>2, <2>1, <2>2 DEF OnPermission, TypeOK
<1>3. CASE OnCreate
  <2>1. i \in Ids /\ events' \in Seq(Event)
    BY <1>3, HeadCall DEF OnCreate
  <2>2. \/ Refuse(i) /\ UNCHANGED <<slot, creates, terms>>
        \/ Spawn(i) /\ UNCHANGED <<slot, requests>>
        \/ slot' = i /\ UNCHANGED <<requests, creates, terms>>
    BY <1>3 DEF OnCreate
  <2>3. requests' \in Seq(Request)
    BY <2>1, <2>2, ReplyType DEF TypeOK
  <2>4. creates' \subseteq Ids /\ terms' \in [Ids -> Term] /\ slot' \in {0} \cup Ids
    BY <2>1, <2>2, SpawnType DEF TypeOK
  <2>. QED BY <1>3, <2>1, <2>3, <2>4 DEF OnCreate, TypeOK
<1>4. CASE OnOperation
  <2>. DEFINE t == calls[i].terminal
  <2>1. i \in Ids /\ events' \in Seq(Event)
    BY <1>4, HeadCall DEF OnOperation
  <2>2. WaitsOn(t) \in SUBSET Ids
    BY DEF WaitsOn, TypeOK
  <2>3. PICK ids \in SUBSET Ids, errors \in SUBSET Ids :
          requests' = requests \/ requests' = Push(requests, Answer(ids, "result", errors))
    <3>1. requests' \in {requests, Push(requests, Answer({}, "result", {i})),
                         Push(requests, Answer({i}, "result", {})),
                         Push(requests, Answer(WaitsOn(t) \cup {i}, "result", {})),
                         Push(requests, Answer({i}, "result", WaitsOn(t)))}
      BY <1>4 DEF OnOperation, Reply, Refuse
    <3>. QED BY <2>1, <2>2, <3>1
  <2>4. requests' \in Seq(Request)
    BY <2>3, AnswerType DEF TypeOK
  <2>5. waits' \subseteq Ids
    BY <1>4, <2>1 DEF OnOperation, TypeOK
  <2>6. terms' \in [Ids -> Term]
    <3>1. PICK u : terms' = terms \/ terms' = [terms EXCEPT ![u].released = TRUE]
      BY <1>4 DEF OnOperation
    <3>2. terms \in [Ids -> Term] /\ \A v \in Ids : [terms[v] EXCEPT !.released = TRUE] \in Term
      BY ReleasedType DEF TypeOK
    <3>3. CASE u \in Ids
      BY <3>1, <3>2, <3>3
    <3>4. CASE u \notin Ids
      BY <3>1, <3>2, <3>4
    <3>. QED BY <3>3, <3>4
  <2>. QED BY <1>4, <2>1, <2>4, <2>5, <2>6 DEF OnOperation, TypeOK
<1>5. CASE OnSessionStarted
  <2>1. Head(events) \in Event /\ events' \in Seq(Event)
    BY <1>5, AbsorbType DEF OnSessionStarted, Absorbing, TypeOK
  <2>2. Head(events).session \in Sessions
    BY <2>1 DEF Event
  <2>3. UNCHANGED held \/ CancelTerminals(session)
    BY <1>5 DEF OnSessionStarted
  <2>4. /\ creates' \subseteq Ids /\ waits' \subseteq Ids /\ reads' \subseteq Ids
        /\ terms' \in [Ids -> Term]
    BY <2>3, CancelType DEF TypeOK
  <2>5. Cancelled(session) \in SUBSET Ids
    BY DEF Cancelled, TypeOK
  <2>6. Push(requests, Answer({}, "result", Cancelled(session))) \in Seq(Request)
    BY <2>5, PushEffect, MessageTypes DEF TypeOK
  <2>7. \A q \in Seq(Request) : Push(q, Ask("prompt", Head(events).session)) \in Seq(Request)
    BY <2>2, PushEffect, MessageTypes DEF Debts
  <2>8. requests' \in Seq(Request)
    BY <1>5, <2>6, <2>7 DEF OnSessionStarted, TypeOK
  <2>. QED BY <1>5, <2>1, <2>2, <2>4, <2>8 DEF OnSessionStarted, TypeOK
<1>6. CASE OnTurnEnded
  BY <1>6, AbsorbType DEF OnTurnEnded, Absorbing, TypeOK
<1>7. CASE OnCancelledOrFailed
  <2>. DEFINE s == Head(events).session
  <2>1. events' \in Seq(Event)
    BY <1>7, AbsorbType DEF OnCancelledOrFailed, Absorbing, TypeOK
  <2>2. /\ Cancelled(s) \in SUBSET Ids
        /\ creates' \subseteq Ids /\ waits' \subseteq Ids /\ reads' \subseteq Ids
        /\ terms' \in [Ids -> Term]
    BY <1>7, CancelType DEF OnCancelledOrFailed
  <2>3. requests' \in Seq(Request)
    BY <1>7, <2>2, AnswerType DEF OnCancelledOrFailed
  <2>. QED BY <1>7, <2>1, <2>2, <2>3 DEF OnCancelledOrFailed, TypeOK
<1>. QED BY <1>1, <1>2, <1>3, <1>4, <1>5, <1>6, <1>7 DEF Absorb

\* The waits on a terminal are calls.
LEMMA WaitsOnType == ASSUME TypeOK, NEW t PROVE WaitsOn(t) \in SUBSET Ids
BY DEF WaitsOn, TypeOK

\* A report of the PTY sets the status of one terminal.
LEMMA PtyEventType ==
  ASSUME TypeOK, NEW t \in Ids, NEW before,
         NEW after \in {"running", "broken", "failed", "exited"}, PtyEvent(t, before, after),
         creates' \subseteq creates, waits' \subseteq waits, requests' \in Seq(Request)
  PROVE  TypeOK'
<1>1. [terms[t] EXCEPT !.status = after] \in Term
  BY DEF TypeOK, Term
<1>2. terms' \in [Ids -> Term]
  BY <1>1 DEF PtyEvent, TypeOK
<1>. QED BY <1>2 DEF PtyEvent, TypeOK

\* What the filesystem worker and the PTY report keeps the types.
LEMMA ReportsType ==
  ASSUME TypeOK, NEW i \in Ids, FileRead(i) \/ Spawned(i) \/ Exited(i) \/ PtyFailed(i)
  PROVE  TypeOK'
<1>0. creates \cap {i} \in SUBSET Ids /\ WaitsOn(i) \in SUBSET Ids
  BY WaitsOnType
<1>1. CASE FileRead(i)
  <2>1. requests' \in Seq(Request)
    BY <1>1, ReplyType DEF FileRead
  <2>. QED BY <1>1, <2>1 DEF FileRead, TypeOK
<1>2. CASE Spawned(i)
  <2>1. requests' \in Seq(Request)
    BY <1>0, <1>2, AnswerType DEF Spawned
  <2>. QED BY <1>2, <2>1, PtyEventType DEF Spawned
<1>3. CASE Exited(i)
  <2>1. requests' \in Seq(Request)
    BY <1>0, <1>3, AnswerType DEF Exited
  <2>. QED BY <1>3, <2>1, PtyEventType DEF Exited
<1>4. CASE PtyFailed(i)
  <2>1. requests' \in Seq(Request)
    <3>1. (creates \cap {i}) \cup WaitsOn(i) \in SUBSET Ids
      BY <1>0
    <3>. QED BY <1>4, <3>1, AnswerType DEF PtyFailed
  <2>2. creates' \subseteq creates /\ waits' \subseteq waits
    BY <1>4 DEF PtyFailed
  <2>3. PtyEvent(i, {"starting"}, "failed") \/ PtyEvent(i, {"running"}, "broken")
    BY <1>4 DEF PtyFailed
  <2>. QED BY <2>1, <2>2, <2>3, PtyEventType
<1>. QED BY <1>1, <1>2, <1>3, <1>4

\* A decision keeps the types.
LEMMA HumanDecidesType ==
  ASSUME TypeOK, NEW d \in Allows \cup {"reject_once"}, DecidePermission(d)
  PROVE  TypeOK'
<1>1. slot \in Ids /\ calls[slot] \in Call
  BY DEF DecidePermission, TypeOK
<1>2. \/ Reply(slot, d) /\ UNCHANGED <<creates, terms>>
      \/ Spawn(slot) /\ UNCHANGED requests
      \/ Refuse(slot) /\ UNCHANGED <<creates, terms>>
  BY DEF DecidePermission
<1>3. requests' \in Seq(Request)
  BY <1>1, <1>2, ReplyType DEF TypeOK
<1>4. creates' \subseteq Ids /\ terms' \in [Ids -> Term]
  BY <1>1, <1>2, SpawnType DEF TypeOK
<1>5. remembered' \subseteq Commands
  BY BridgeAssumption DEF DecidePermission, Remember, TypeOK
<1>6. decided' \in [Ids -> {"none", "reject_once"} \cup Allows]
  BY <1>1 DEF DecidePermission, TypeOK
<1>. QED BY <1>3, <1>4, <1>5, <1>6 DEF DecidePermission, TypeOK

\* A question to the agent keeps the queue well typed.
LEMMA AskType ==
  ASSUME TypeOK, NEW k \in Debts, NEW s \in Sessions
  PROVE  Push(requests, Ask(k, s)) \in Seq(Request)
BY PushEffect, MessageTypes DEF TypeOK

\* What else the human does keeps the types.
LEMMA HumanActsType == TypeOK /\ HumanActs => TypeOK'
<1>. SUFFICES ASSUME TypeOK, HumanActs PROVE TypeOK'
  OBVIOUS
<1>0. 0 \in Sessions /\ session \in Sessions /\ asking \subseteq Sessions
  BY BoundsAreNumbers DEF Sessions, TypeOK
<1>1. CASE NewSession
  <2>1. requests' \in Seq(Request)
    BY <1>0, <1>1, AskType DEF NewSession, Debts
  <2>. QED BY <1>1, <2>1, BoundsAreNumbers DEF NewSession, TypeOK
<1>2. CASE SetMode
  <2>1. requests' \in Seq(Request)
    BY <1>0, <1>2, AskType DEF SetMode, Debts
  <2>. QED BY <1>2, <2>1, BoundsAreNumbers DEF SetMode, TypeOK
<1>3. CASE OpenAsk
  BY <1>0, <1>3, BoundsAreNumbers DEF OpenAsk, TypeOK
<1>4. CASE CloseAsk
  BY <1>4 DEF CloseAsk, TypeOK
<1>5. CASE ConfirmAsk
  <2>1. requests' \in Seq(Request)
    <3>1. PICK k \in Debts, s \in Sessions : requests' = Push(requests, Ask(k, s))
      BY <1>0, <1>5 DEF ConfirmAsk, Debts
    <3>. QED BY <3>1, AskType
  <2>. QED BY <1>5, <2>1 DEF ConfirmAsk, TypeOK
<1>6. ASSUME NEW t \in Ids, CloseTerminal(t) PROVE TypeOK'
  <2>1. (creates \cap {t}) \cup WaitsOn(t) \in SUBSET Ids
    BY WaitsOnType
  <2>2. requests' \in Seq(Request)
    BY <1>6, <2>1, AnswerType DEF CloseTerminal
  <2>3. [terms[t] EXCEPT !.status = "closed"] \in Term
    BY DEF TypeOK, Term
  <2>4. terms' \in [Ids -> Term]
    BY <1>6, <2>3 DEF CloseTerminal, TypeOK
  <2>. QED BY <1>6, <2>2, <2>4 DEF CloseTerminal, TypeOK
<1>7. ASSUME NEW t \in Ids, RestartTerminal(t) PROVE TypeOK'
  <2>1. requests' \in Seq(Request)
    BY <1>7, WaitsOnType, AnswerType DEF RestartTerminal
  <2>2. [status |-> "starting", released |-> FALSE, restarted |-> TRUE] \in Term
    BY DEF Term
  <2>3. terms' \in [Ids -> Term]
    BY <1>7, <2>2 DEF RestartTerminal, TypeOK
  <2>. QED BY <1>7, <2>1, <2>3 DEF RestartTerminal, TypeOK
<1>. QED BY <1>1, <1>2, <1>3, <1>4, <1>5, <1>6, <1>7 DEF HumanActs

\* Every step keeps the types.
LEMMA NextType == TypeOK /\ [Next]_vars => TypeOK'
<1>. SUFFICES ASSUME TypeOK, [Next]_vars PROVE TypeOK'
  OBVIOUS
<1>1. CASE AgentAsks
  BY <1>1, AgentAsksType
<1>2. CASE \E k \in Debts, s \in Sessions, well \in {"ok", "cancelled", "error"} :
             AgentReplies(k, s, well)
  BY <1>2, AgentRepliesType
<1>3. CASE Initialized
  BY <1>3 DEF Initialized, TypeOK
<1>4. CASE AgentExits
  <2>1. events' \in Seq(Event)
    BY <1>4, TellType, BoundsAreNumbers DEF AgentExits, TypeOK, Sessions
  <2>2. requests' \in Seq(Request)
    BY <1>4 DEF AgentExits
  <2>. QED BY <1>4, <2>1, <2>2 DEF AgentExits, TypeOK
<1>5. CASE Encode
  BY <1>5, EncodeType
<1>6. CASE Absorb
  BY <1>6, AbsorbPreservesType
<1>7. CASE \E i \in Ids : FileRead(i) \/ Spawned(i) \/ Exited(i) \/ PtyFailed(i)
  BY <1>7, ReportsType
<1>8. CASE HumanDecides
  BY <1>8, HumanDecidesType DEF HumanDecides
<1>9. CASE HumanActs
  BY <1>9, HumanActsType
<1>10. CASE UNCHANGED vars
  BY <1>10 DEF TypeOK
<1>. QED BY <1>1, <1>2, <1>3, <1>4, <1>5, <1>6, <1>7, <1>8, <1>9, <1>10 DEF Next

\* The variables of the translator, the channels and the model keep their types, whatever
\* the agent, the PTY and the human do and in whatever order.
THEOREM TypeCorrect == Spec => []TypeOK
<1>1. Init => TypeOK
  BY InitType
<1>2. TypeOK /\ [Next]_vars => TypeOK'
  BY NextType
<1>. QED BY <1>1, <1>2, PTL DEF Spec

----------------------------------------------------------------------------
(***************************************************************************)
(* Approval.  Most steps are quiet: they decide nothing, admit no call and *)
(* send no decision.  The five that are not come after them.               *)
(***************************************************************************)

\* Every request of the queue r was in the queue before or carries no decision.
QuietQueue(r) ==
  \A k \in DOMAIN r : r[k].with = "result" \/ \E j \in DOMAIN requests : r[k] = requests[j]

\* The loop's channel loses its head or gains an event that is no call.
QuietEvents ==
  \/ events' = events
  \/ events # <<>> /\ events' = Tail(events)
  \/ \E e \in Event : e.kind # "call" /\ events' = Append(events, e)

QuietTerms == \A i \in Ids : terms'[i].status # "none" => terms[i].status # "none"

\* A push that carries no decision is quiet.
LEMMA PushQuiet ==
  ASSUME NEW q \in Seq(Request), NEW m \in Request, m.with = "result", QuietQueue(q)
  PROVE  QuietQueue(Push(q, m))
<1>1. \A k \in DOMAIN Push(q, m) :
        Push(q, m)[k] = m \/ \E j \in DOMAIN q : Push(q, m)[k] = q[j]
  BY PushEffect
<1>. QED BY <1>1 DEF QuietQueue

\* A quiet step keeps the invariant.
LEMMA QuietStep ==
  ASSUME ApprovalInv, TypeOK',
         UNCHANGED <<calls, nextId, outcome, decided, remembered>>,
         grants' \subseteq grants,
         QuietQueue(requests'), QuietEvents, QuietTerms, slot' \in {slot, 0}
  PROVE  ApprovalInv'
<1>1. \A i : Undecided(i) => Undecided(i)'
  BY DEF Undecided, QuietQueue
<1>2. InPlayOK'
  <2>0. InPlayOK /\ events \in Seq(Event)
    BY DEF ApprovalInv, TypeOK
  <2>a. \A k \in DOMAIN events : events[k].kind = "call" => events[k].id # 0
    BY <2>0 DEF Event, Ids
  <2>1. slot' # 0 => Undecided(slot)'
    BY <1>1, <2>0 DEF InPlayOK
  <2>2. CASE events' = events
    BY <1>1, <2>0, <2>1, <2>2, <2>a DEF InPlayOK
  <2>3. CASE events # <<>> /\ events' = Tail(events)
    <3>1. \A k \in DOMAIN events' : k + 1 \in DOMAIN events /\ events'[k] = events[k + 1]
      BY <2>0, <2>3
    <3>2. \A j, k \in DOMAIN events' : j # k => j + 1 # k + 1
      BY <2>0, <2>3
    <3>3. \A k \in DOMAIN events' : events'[k].kind = "call" =>
            (Undecided(events[k].id) /\ events[k].id # slot)'
      BY <1>1, <2>0, <2>a, <3>1 DEF InPlayOK
    <3>4. \A j, k \in DOMAIN events' :
            j # k /\ events'[j].kind = "call" => events'[j].id # events'[k].id
      BY <2>0, <3>1, <3>2 DEF InPlayOK
    <3>. QED BY <2>1, <3>3, <3>4 DEF InPlayOK
  <2>4. CASE \E e \in Event : e.kind # "call" /\ events' = Append(events, e)
    <3>1. PICK e \in Event : e.kind # "call" /\ events' = Append(events, e)
      BY <2>4
    <3>2. e.id = 0
      BY <3>1 DEF Event
    <3>3. \A k \in DOMAIN events' :
            \/ k \in DOMAIN events /\ events'[k] = events[k]
            \/ k = Len(events) + 1 /\ events'[k] = e
      BY <2>0, <3>1
    <3>. QED BY <1>1, <2>0, <2>1, <2>a, <3>1, <3>2, <3>3 DEF InPlayOK
  <2>. QED BY <2>2, <2>3, <2>4 DEF QuietEvents
<1>3. AnswersOK'
  BY DEF AnswersOK, ApprovalInv, QuietQueue, Allows
<1>4. FreshOK'
  BY DEF FreshOK, ApprovalInv, QuietTerms
<1>5. GrantsOK'
  BY DEF GrantsOK, Spendable, ApprovalInv
<1>6. RememberedOK'
  BY DEF RememberedOK, ApprovalInv
<1>7. LaunchesApproved'
  BY DEF LaunchesApproved, Approved, ApprovalInv, QuietTerms
<1>8. WireSaysWhatWasDecided'
  BY DEF WireSaysWhatWasDecided, ApprovalInv
<1>. QED BY <1>2, <1>3, <1>4, <1>5, <1>6, <1>7, <1>8 DEF ApprovalInv

\* The queue as it is, and with an answer or a question that carries no decision.
LEMMA QuietPushes ==
  ASSUME TypeOK
  PROVE  /\ QuietQueue(requests)
         /\ \A ids, errors \in SUBSET Ids : QuietQueue(Push(requests, Answer(ids, "result", errors)))
         /\ \A k \in Debts, s \in Sessions : QuietQueue(Push(requests, Ask(k, s)))
<1>1. QuietQueue(requests)
  BY DEF QuietQueue
<1>2. ASSUME NEW ids \in SUBSET Ids, NEW errors \in SUBSET Ids
      PROVE  QuietQueue(Push(requests, Answer(ids, "result", errors)))
  <2>1. Answer(ids, "result", errors) \in Request /\ Answer(ids, "result", errors).with = "result"
    BY MessageTypes DEF Answer
  <2>. QED BY <1>1, <2>1, PushQuiet DEF TypeOK
<1>3. ASSUME NEW k \in Debts, NEW s \in Sessions PROVE QuietQueue(Push(requests, Ask(k, s)))
  <2>1. Ask(k, s) \in Request /\ Ask(k, s).with = "result"
    BY MessageTypes DEF Ask
  <2>. QED BY <1>1, <2>1, PushQuiet DEF TypeOK
<1>. QED BY <1>1, <1>2, <1>3

\* A reply and a refusal are quiet.
LEMMA RefuseQuiet ==
  ASSUME TypeOK, NEW i \in Ids, Reply(i, "result") \/ Refuse(i)
  PROVE  QuietQueue(requests')
<1>1. {i} \in SUBSET Ids /\ {} \in SUBSET Ids
  OBVIOUS
<1>2. /\ QuietQueue(Push(requests, Answer({i}, "result", {})))
      /\ QuietQueue(Push(requests, Answer({}, "result", {i})))
  BY <1>1, QuietPushes
<1>. QED BY <1>2 DEF Reply, Refuse

\* Cancelling starts nothing.
LEMMA CancelQuiet == ASSUME TypeOK, NEW s, CancelTerminals(s) PROVE QuietTerms
BY DEF QuietTerms, CancelTerminals, TypeOK, Term

\* The handlers that neither fill the prompt nor start a command are quiet.
LEMMA QuietAbsorb ==
  ASSUME ApprovalInv, TypeOK',
         OnRead \/ OnOperation \/ OnSessionStarted \/ OnTurnEnded \/ OnCancelledOrFailed
  PROVE  ApprovalInv'
<1>0. TypeOK
  BY DEF ApprovalInv
<1>. DEFINE i == Head(events).id
<1>1. CASE OnRead
  <2>1. i \in Ids
    BY <1>0, <1>1, HeadCall DEF OnRead
  <2>2. QuietQueue(requests')
    <3>1. Reply(i, "result") \/ Refuse(i) \/ UNCHANGED requests
      BY <1>1 DEF OnRead
    <3>. QED BY <1>0, <2>1, <3>1, RefuseQuiet, QuietPushes
  <2>. QED BY <1>1, <2>2, QuietStep DEF OnRead, AbsorbingCall, Absorbing, QuietEvents, QuietTerms
<1>2. CASE OnOperation
  <2>. DEFINE t == calls[i].terminal
  <2>1. i \in Ids /\ WaitsOn(t) \in SUBSET Ids
    BY <1>0, <1>2, HeadCall, WaitsOnType DEF OnOperation
  <2>2. QuietQueue(requests')
    <3>1. PICK ids \in SUBSET Ids, errors \in SUBSET Ids :
            requests' = requests \/ requests' = Push(requests, Answer(ids, "result", errors))
      <4>1. requests' \in {requests, Push(requests, Answer({}, "result", {i})),
                           Push(requests, Answer({i}, "result", {})),
                           Push(requests, Answer(WaitsOn(t) \cup {i}, "result", {})),
                           Push(requests, Answer({i}, "result", WaitsOn(t)))}
        BY <1>2 DEF OnOperation, Reply, Refuse
      <4>. QED BY <2>1, <4>1
    <3>. QED BY <1>0, <3>1, QuietPushes
  <2>3. QuietTerms
    <3>1. PICK u : terms' = terms \/ terms' = [terms EXCEPT ![u].released = TRUE]
      BY <1>2 DEF OnOperation
    <3>2. ASSUME NEW v \in Ids PROVE terms'[v] = terms[v]
                                     \/ terms'[v] = [terms[v] EXCEPT !.released = TRUE]
      BY <1>0, <3>1 DEF TypeOK
    <3>3. \A v \in Ids : [terms[v] EXCEPT !.released = TRUE].status = terms[v].status
      BY <1>0 DEF TypeOK, Term
    <3>. QED BY <3>2, <3>3 DEF QuietTerms
  <2>. QED BY <1>2, <2>2, <2>3, QuietStep DEF OnOperation, AbsorbingCall, Absorbing, QuietEvents
<1>3. CASE OnSessionStarted
  <2>1. Head(events).session \in Sessions
    BY <1>0, <1>3, AbsorbType DEF OnSessionStarted, Absorbing, TypeOK, Event
  <2>2. Cancelled(session) \in SUBSET Ids
    BY <1>0 DEF Cancelled, TypeOK
  <2>. DEFINE told == IF session = 0 THEN requests
                      ELSE Push(requests, Answer({}, "result", Cancelled(session)))
  <2>3. QuietQueue(told) /\ told \in Seq(Request)
    BY <1>0, <2>2, QuietPushes, AnswerType DEF TypeOK
  <2>4. Ask("prompt", Head(events).session) \in Request
        /\ Ask("prompt", Head(events).session).with = "result"
    BY <2>1, MessageTypes DEF Ask, Debts
  <2>5. QuietQueue(Push(told, Ask("prompt", Head(events).session)))
    BY <2>3, <2>4, PushQuiet
  <2>6. QuietQueue(requests')
    BY <1>3, <2>3, <2>5 DEF OnSessionStarted
  <2>7. QuietTerms
    <3>1. UNCHANGED held \/ CancelTerminals(session)
      BY <1>3 DEF OnSessionStarted
    <3>. QED BY <1>0, <3>1, CancelQuiet DEF QuietTerms
  <2>. QED BY <1>3, <2>6, <2>7, QuietStep DEF OnSessionStarted, Absorbing, QuietEvents
<1>4. CASE OnTurnEnded
  BY <1>0, <1>4, QuietStep, QuietPushes DEF OnTurnEnded, Absorbing, QuietEvents, QuietTerms
<1>5. CASE OnCancelledOrFailed
  <2>. DEFINE s == Head(events).session
  <2>1. CancelTerminals(s) /\ Cancelled(s) \in SUBSET Ids
    BY <1>0, <1>5 DEF OnCancelledOrFailed, Cancelled, TypeOK
  <2>2. QuietQueue(requests')
    BY <1>0, <1>5, <2>1, QuietPushes DEF OnCancelledOrFailed
  <2>3. QuietTerms
    BY <1>0, <2>1, CancelQuiet
  <2>. QED BY <1>5, <2>2, <2>3, QuietStep DEF OnCancelledOrFailed, Absorbing, QuietEvents
<1>. QED BY <1>1, <1>2, <1>3, <1>4, <1>5

\* The reports of the worker and the PTY are quiet.
LEMMA QuietReports ==
  ASSUME ApprovalInv, TypeOK', NEW i \in Ids,
         FileRead(i) \/ Spawned(i) \/ Exited(i) \/ PtyFailed(i)
  PROVE  ApprovalInv'
<1>0. TypeOK
  BY DEF ApprovalInv
<1>1. /\ creates \cap {i} \in SUBSET Ids /\ WaitsOn(i) \in SUBSET Ids
      /\ (creates \cap {i}) \cup WaitsOn(i) \in SUBSET Ids
  BY <1>0, WaitsOnType
<1>2. CASE FileRead(i)
  <2>1. QuietQueue(requests')
    BY <1>0, <1>2, RefuseQuiet DEF FileRead
  <2>. QED BY <1>2, <2>1, QuietStep DEF FileRead, QuietEvents, QuietTerms
<1>3. CASE Spawned(i) \/ Exited(i) \/ PtyFailed(i)
  <2>1. QuietQueue(requests')
    BY <1>0, <1>1, <1>3, QuietPushes DEF Spawned, Exited, PtyFailed
  <2>2. PICK before \in {{"starting"}, {"running"}, {"running", "broken"}},
             after \in {"running", "broken", "failed", "exited"} : PtyEvent(i, before, after)
    BY <1>3 DEF Spawned, Exited, PtyFailed
  <2>3. QuietTerms
    BY <1>0, <2>2 DEF PtyEvent, QuietTerms, TypeOK, Term
  <2>. QED BY <2>1, <2>2, <2>3, QuietStep DEF PtyEvent, QuietEvents
<1>. QED BY <1>2, <1>3

\* Asking, closing and restarting are quiet.
LEMMA QuietHuman ==
  ASSUME ApprovalInv, TypeOK', HumanActs
  PROVE  ApprovalInv'
<1>0. TypeOK
  BY DEF ApprovalInv
<1>1. 0 \in Sessions /\ session \in Sessions /\ asking \subseteq Sessions
  BY <1>0, BoundsAreNumbers DEF Sessions, TypeOK
<1>2. CASE NewSession \/ SetMode \/ ConfirmAsk
  <2>1. PICK k \in Debts, s \in Sessions : requests' = Push(requests, Ask(k, s))
    BY <1>1, <1>2 DEF NewSession, SetMode, ConfirmAsk, Debts
  <2>2. QuietQueue(requests')
    BY <1>0, <2>1, QuietPushes
  <2>. QED BY <1>2, <2>2, QuietStep
           DEF NewSession, SetMode, ConfirmAsk, QuietEvents, QuietTerms
<1>3. CASE OpenAsk \/ CloseAsk
  BY <1>0, <1>3, QuietStep, QuietPushes DEF OpenAsk, CloseAsk, QuietEvents, QuietTerms
<1>4. ASSUME NEW t \in Ids, CloseTerminal(t) \/ RestartTerminal(t) PROVE ApprovalInv'
  <2>1. WaitsOn(t) \in SUBSET Ids /\ (creates \cap {t}) \cup WaitsOn(t) \in SUBSET Ids
    BY <1>0, WaitsOnType
  <2>2. QuietQueue(requests')
    BY <1>0, <1>4, <2>1, QuietPushes DEF CloseTerminal, RestartTerminal
  <2>3. QuietTerms
    BY <1>0, <1>4 DEF CloseTerminal, RestartTerminal, QuietTerms, TypeOK, Term
  <2>. QED BY <1>4, <2>2, <2>3, QuietStep DEF CloseTerminal, RestartTerminal, QuietEvents
<1>. QED BY <1>2, <1>3, <1>4 DEF HumanActs

\* The agent's replies and its end: grants only go.
LEMMA QuietAgent ==
  ASSUME ApprovalInv, TypeOK',
         \/ Initialized
         \/ AgentExits
         \/ \E k \in Debts, s \in Sessions, well \in {"ok", "cancelled", "error"} :
              AgentReplies(k, s, well)
  PROVE  ApprovalInv'
<1>0. TypeOK
  BY DEF ApprovalInv
<1>e. \A k \in {"session", "turn", "cancelled", "failed"}, s \in Sessions :
        /\ [kind |-> k, session |-> s, id |-> 0] \in Event
        /\ [kind |-> k, session |-> s, id |-> 0].kind # "call"
  BY DEF Event
<1>1. CASE Initialized
  BY <1>0, <1>1, QuietStep, QuietPushes DEF Initialized, QuietEvents, QuietTerms
<1>2. CASE AgentExits
  <2>1. QuietQueue(requests')
    BY <1>2 DEF AgentExits, QuietQueue
  <2>2. QuietEvents
    BY <1>2, <1>e, BoundsAreNumbers DEF AgentExits, Tell, QuietEvents, Sessions
  <2>. QED BY <1>2, <2>1, <2>2, QuietStep DEF AgentExits, QuietTerms
<1>3. ASSUME NEW k \in Debts, NEW s \in Sessions, NEW well \in {"ok", "cancelled", "error"},
             AgentReplies(k, s, well)
      PROVE  ApprovalInv'
  <2>1. QuietEvents
    <3>1. CASE events' = events
      BY <3>1 DEF QuietEvents
    <3>2. CASE started < MaxSessions /\ events' = Tell("session", started + 1, 0)
      <4>1. started + 1 \in Sessions
        BY <1>0, <3>2, BoundsAreNumbers DEF TypeOK, Sessions
      <4>. QED BY <1>e, <3>2, <4>1 DEF Tell, QuietEvents
    <3>3. CASE \E e \in {"turn", "cancelled", "failed"} : events' = Tell(e, s, 0)
      BY <1>e, <3>3 DEF Tell, QuietEvents
    <3>. QED BY <1>3, <3>1, <3>2, <3>3 DEF AgentReplies
  <2>2. grants' \subseteq grants
    BY <1>3 DEF AgentReplies, Unexpired
  <2>. QED BY <1>0, <1>3, <2>1, <2>2, QuietStep, QuietPushes DEF AgentReplies, QuietTerms
<1>. QED BY <1>1, <1>2, <1>3

----------------------------------------------------------------------------

\* A call is admitted: it is new to everyone, and a grant it spends is gone.
LEMMA AdmitApproval ==
  ASSUME ApprovalInv, TypeOK', NEW c \in Call, Admit(c),
         \/ c.grant = 0 /\ grants' = grants
         \/ /\ c.grant \in grants
            /\ calls[c.grant].session = c.session /\ calls[c.grant].command = c.command
            /\ grants' = grants \ {c.grant}
  PROVE  ApprovalInv'
<1>0. /\ TypeOK /\ InPlayOK /\ AnswersOK /\ FreshOK /\ GrantsOK /\ RememberedOK
      /\ LaunchesApproved /\ WireSaysWhatWasDecided
  BY DEF ApprovalInv
<1>1. PICK n \in Ids : n = nextId + 1 /\ nextId \in Nat /\ nextId' = n
  BY <1>0, IdsAreNumbers DEF Admit, TypeOK, Ids
<1>2. calls' = [calls EXCEPT ![n] = c] /\ calls \in [Ids -> Call]
  BY <1>0, <1>1 DEF Admit, TypeOK
<1>3. UNCHANGED <<outcome, decided, remembered, requests, terms, slot>>
  BY DEF Admit
<1>4. decided[n] = "none" /\ terms[n].status = "none" /\ outcome[n] # "reject_once"
  BY <1>0, <1>1 DEF FreshOK
<1>5. \A p \in Ids : p # n => calls'[p] = calls[p]
  BY <1>2
<1>6. calls'[n] = c
  BY <1>1, <1>2
<1>7. \A p : Spendable(p) => p # n /\ Spendable(p)'
  BY <1>3, <1>4, <1>5 DEF Spendable, Allows
<1>8. \A i : i \in Nat /\ Undecided(i) => i # n /\ Undecided(i)'
  BY <1>1, <1>3 DEF Undecided
<1>9. InPlayOK'
  <2>1. events \in Seq(Event) /\ events' = Append(events, [kind |-> "call", session |-> c.session, id |-> n])
    BY <1>0, <1>1 DEF TypeOK, Admit, Tell
  <2>2. \A k \in DOMAIN events' :
          \/ k \in DOMAIN events /\ events'[k] = events[k]
          \/ k = Len(events) + 1 /\ events'[k].kind = "call" /\ events'[k].id = n
    BY <2>1
  <2>3. \A k \in DOMAIN events : events[k].id \in Nat /\ (events[k].kind # "call" => events[k].id = 0)
    BY <2>1, IdsAreNumbers DEF Event, Ids
  <2>4. \A k \in DOMAIN events : events[k].id # n
    BY <1>0, <1>1, <1>8, <2>3 DEF InPlayOK
  <2>5. slot \in Nat /\ slot # n /\ (slot' # 0 => Undecided(slot)')
    <3>1. slot \in {0} \cup Ids /\ (slot # 0 => Undecided(slot)) /\ slot' = slot
      BY <1>0, <1>3 DEF InPlayOK, TypeOK
    <3>2. slot \in Nat /\ n # 0
      BY <3>1, IdsAreNumbers
    <3>. QED BY <1>8, <3>1, <3>2
  <2>6. Undecided(n)'
    <3>1. n \notin {p \in Ids : p <= nextId}
      BY <1>1
    <3>2. \A k \in DOMAIN requests : n \in requests[k].ids => requests[k].with = "result"
      BY <1>0, <1>1, <3>1 DEF AnswersOK
    <3>. QED BY <1>1, <1>3, <1>4, <3>2 DEF Undecided
  <2>7. \A k \in DOMAIN events' :
          events'[k].kind = "call" => (Undecided(events[k].id) /\ events[k].id # slot)'
    BY <1>0, <1>3, <1>8, <2>2, <2>3, <2>5, <2>6 DEF InPlayOK
  <2>8. \A j, k \in DOMAIN events' :
          j # k /\ events'[j].kind = "call" => events'[j].id # events'[k].id
    BY <1>0, <2>2, <2>4 DEF InPlayOK
  <2>. QED BY <2>5, <2>7, <2>8 DEF InPlayOK
<1>10. AnswersOK'
  <2>1. \A p : p <= nextId => p <= nextId' \/ p \notin Ids
    BY <1>1 DEF Ids
  <2>2. \A k \in DOMAIN requests : requests[k].ids \subseteq Ids
    <3>1. \A k \in DOMAIN requests : requests[k] \in Request
      BY <1>0 DEF TypeOK
    <3>. QED BY <3>1 DEF Request
  <2>. QED BY <1>0, <1>3, <2>1, <2>2 DEF AnswersOK
<1>11. FreshOK'
  BY <1>0, <1>1, <1>3 DEF FreshOK, Ids
<1>12. GrantsOK'
  <2>0. 0 \notin Ids /\ grants \subseteq Ids
    BY <1>0 DEF TypeOK, Ids
  <2>1. \A p \in grants' : Spendable(p)'
    BY <1>0, <1>7 DEF GrantsOK
  <2>2. ASSUME NEW i \in Ids, i # n, calls'[i].grant # 0
        PROVE  /\ (Spendable(calls[i].grant) /\ calls[i].grant \notin grants)'
               /\ calls'[calls'[i].grant].session = calls'[i].session
               /\ calls'[calls'[i].grant].command = calls'[i].command
               /\ \A j \in Ids \ {i} : calls'[j].grant # calls'[i].grant
    <3>1. calls'[i] = calls[i]
      BY <1>5, <2>2
    <3>2. /\ Spendable(calls[i].grant) /\ calls[i].grant \notin grants
          /\ calls[calls[i].grant].session = calls[i].session
          /\ calls[calls[i].grant].command = calls[i].command
          /\ \A j \in Ids \ {i} : calls[j].grant # calls[i].grant
      BY <1>0, <2>2, <3>1 DEF GrantsOK
    <3>3. calls'[calls[i].grant] = calls[calls[i].grant]
      BY <1>5, <1>7, <3>2 DEF Spendable
    <3>4. c.grant # calls[i].grant
      BY <2>2, <3>1, <3>2
    <3>5. \A j \in Ids \ {i} : calls'[j].grant # calls'[i].grant
      BY <1>5, <1>6, <3>1, <3>2, <3>4
    <3>. QED BY <1>7, <3>1, <3>2, <3>3, <3>5
  <2>3. ASSUME calls'[n].grant # 0
        PROVE  /\ (Spendable(calls[n].grant) /\ calls[n].grant \notin grants)'
               /\ calls'[calls'[n].grant].session = calls'[n].session
               /\ calls'[calls'[n].grant].command = calls'[n].command
               /\ \A j \in Ids \ {n} : calls'[j].grant # calls'[n].grant
    <3>1. c.grant \in grants /\ grants' = grants \ {c.grant}
          /\ calls[c.grant].session = c.session /\ calls[c.grant].command = c.command
      BY <1>6, <2>3
    <3>2. Spendable(c.grant) /\ c.grant # n /\ Spendable(c.grant)'
      BY <1>0, <1>7, <3>1 DEF GrantsOK
    <3>3. calls'[c.grant] = calls[c.grant]
      BY <1>5, <3>2 DEF Spendable
    <3>4. \A j \in Ids \ {n} : calls'[j].grant # c.grant
      BY <1>0, <1>5, <2>0, <3>1 DEF GrantsOK
    <3>. QED BY <1>6, <3>1, <3>2, <3>3, <3>4
  <2>. QED BY <2>1, <2>2, <2>3 DEF GrantsOK
<1>13. RememberedOK'
  BY <1>0, <1>3, <1>4, <1>5 DEF RememberedOK
<1>14. LaunchesApproved'
  <2>1. ASSUME NEW i \in Ids, terms'[i].status # "none" PROVE Approved(i)'
    <3>1. i # n /\ Approved(i) /\ calls'[i] = calls[i]
      BY <1>0, <1>3, <1>4, <1>5, <2>1 DEF LaunchesApproved
    <3>2. CASE decided[i] \in Allows
      BY <1>3, <3>2 DEF Approved
    <3>3. CASE \E p \in Ids : decided[p] = "allow_always" /\ calls[p].command = calls[i].command
      BY <1>3, <1>4, <1>5, <3>1, <3>3 DEF Approved
    <3>4. CASE calls[i].grant # 0
      BY <1>12, <3>1, <3>4 DEF GrantsOK, Spendable, Approved
    <3>. QED BY <3>1, <3>2, <3>3, <3>4 DEF Approved
  <2>. QED BY <1>12, <2>1 DEF LaunchesApproved, GrantsOK
<1>15. WireSaysWhatWasDecided'
  BY <1>0, <1>3 DEF WireSaysWhatWasDecided
<1>. QED BY <1>9, <1>10, <1>11, <1>12, <1>13, <1>14, <1>15 DEF ApprovalInv

\* The agent's calls keep the invariant.
LEMMA AgentAsksApproval == ASSUME ApprovalInv, TypeOK', AgentAsks PROVE ApprovalInv'
<1>a. TypeOK
  BY DEF ApprovalInv
<1>b. started \in 0..MaxSessions /\ ended \in [Sessions -> Nat]
  BY <1>a DEF TypeOK, Sessions
<1>0. TypeOK /\ \A s \in 0..started : s \in Sessions /\ ended[s] \in Nat
  BY <1>a, <1>b, BoundsAreNumbers DEF Sessions
<1>1. ASSUME NEW s \in 0..started, AskRead(s) PROVE ApprovalInv'
  <2>. DEFINE c == [NoCall EXCEPT !.kind = "read", !.session = s, !.turn = ended[s]]
  <2>1. c \in Call /\ c.grant = 0
    BY <1>0, <1>1 DEF AskRead, NoCall, Call
  <2>2. Admit(c) /\ grants' = grants
    BY <1>1 DEF AskRead
  <2>. HIDE DEF c
  <2>. QED BY <2>1, <2>2, AdmitApproval
<1>2. ASSUME NEW s \in 0..started, NEW d \in Commands \cup {NoCommand}, NEW offer \in Offers,
             AskPermission(s, d, offer)
      PROVE ApprovalInv'
  <2>. DEFINE c == [NoCall EXCEPT !.kind = "permission", !.session = s, !.command = d,
                                  !.options = offer, !.turn = ended[s]]
  <2>1. c \in Call /\ c.grant = 0
    BY <1>0, <1>2 DEF AskPermission, NoCall, Call
  <2>2. Admit(c) /\ grants' = grants
    BY <1>2 DEF AskPermission
  <2>. HIDE DEF c
  <2>. QED BY <2>1, <2>2, AdmitApproval
<1>3. ASSUME NEW s \in 0..started, NEW d \in Commands, AskCreate(s, d) PROVE ApprovalInv'
  <2>1. PICK grant \in IF Covering(s, d) = {} THEN {0} ELSE Covering(s, d) :
          /\ Admit([NoCall EXCEPT !.kind = "create", !.session = s, !.command = d,
                                  !.grant = grant, !.turn = ended[s]])
          /\ grants' = grants \ {grant}
    BY <1>3 DEF AskCreate
  <2>. DEFINE c == [NoCall EXCEPT !.kind = "create", !.session = s, !.command = d,
                                  !.grant = grant, !.turn = ended[s]]
  <2>2. \/ grant = 0
        \/ grant \in grants /\ calls[grant].session = s /\ calls[grant].command = d
    BY DEF Covering
  <2>3. grants \subseteq Ids /\ 0 \notin Ids
    BY <1>0 DEF TypeOK, Ids
  <2>4. c \in Call /\ c.grant = grant /\ c.session = s /\ c.command = d
    BY <1>0, <1>3, <2>2, <2>3 DEF AskCreate, NoCall, Call
  <2>5. Admit(c)
    BY <2>1
  <2>. HIDE DEF c
  <2>6. CASE grant = 0
    <3>1. grants' = grants
      BY <2>1, <2>3, <2>6
    <3>. QED BY <2>4, <2>5, <2>6, <3>1, AdmitApproval
  <2>7. CASE grant \in grants /\ calls[grant].session = s /\ calls[grant].command = d
    BY <2>1, <2>4, <2>5, <2>7, AdmitApproval
  <2>. QED BY <2>2, <2>6, <2>7
<1>4. ASSUME NEW k \in Kinds, NEW t \in Ids, AskTerminal(k, t) PROVE ApprovalInv'
  <2>. DEFINE c == [NoCall EXCEPT !.kind = k, !.session = calls[t].session, !.terminal = t,
                                  !.turn = ended[calls[t].session]]
  <2>0. calls[t].session \in Sessions
    BY <1>0 DEF TypeOK, Call
  <2>1. c \in Call /\ c.grant = 0
    BY <1>0, <2>0 DEF TypeOK, NoCall, Call
  <2>2. Admit(c) /\ grants' = grants
    BY <1>4 DEF AskTerminal
  <2>. HIDE DEF c
  <2>. QED BY <2>1, <2>2, AdmitApproval
<1>. QED BY <1>1, <1>2, <1>3, <1>4 DEF AgentAsks

\* Encoding an answer: what goes on the wire, and into the grants, was decided.
LEMMA EncodeApproval == ASSUME ApprovalInv, TypeOK', Encode PROVE ApprovalInv'
<1>0. /\ TypeOK /\ InPlayOK /\ AnswersOK /\ FreshOK /\ GrantsOK /\ RememberedOK
      /\ LaunchesApproved /\ WireSaysWhatWasDecided
  BY DEF ApprovalInv
<1>1. PICK m \in Request : m = Head(requests)
  BY <1>0 DEF Encode, TypeOK
<1>2. requests \in Seq(Request) /\ requests # <<>> /\ requests' = Tail(requests)
  BY <1>0 DEF Encode, TypeOK
<1>3. UNCHANGED <<calls, nextId, decided, remembered, terms, slot, events>>
  BY DEF Encode
<1>4. \A k \in DOMAIN requests' : \E j \in DOMAIN requests : requests'[k] = requests[j]
  BY <1>2
<1>5. 1 \in DOMAIN requests /\ requests[1] = m
  BY <1>1, <1>2
<1>6. CASE m.kind # "answer"
  <2>1. UNCHANGED <<outcome, grants>>
    BY <1>1, <1>6 DEF Encode, EncodeAsk
  <2>2. QuietQueue(requests')
    BY <1>4 DEF QuietQueue
  <2>. QED BY <1>3, <2>1, <2>2, QuietStep DEF QuietEvents, QuietTerms
<1>7. CASE m.kind = "answer"
  <2>1. /\ outcome' = [i \in Ids |-> IF i \in Open(m) THEN Wire(i, m) ELSE outcome[i]]
        /\ grants' = grants \cup Granted(m)
    BY <1>1, <1>7 DEF Encode, EncodeAnswer
  <2>2. m.ids \subseteq Ids /\ m.errors \subseteq Ids /\ m.with \in Allows \cup {"reject_once", "result"}
    BY DEF Request
  <2>3. \A p \in m.ids :
          /\ m.with \in Allows => decided[p] = m.with
          /\ m.with = "reject_once" => decided[p] \notin Allows
          /\ m.with # "result" => p <= nextId
    BY <1>0, <1>5 DEF AnswersOK
  <2>4. ASSUME NEW p \in Open(m)
        PROVE  /\ p \in Ids /\ outcome[p] = "none" /\ Wire(p, m) # "none"
               /\ Wire(p, m) \in Allows \cup {"reject_once"} =>
                    /\ p \in m.ids /\ m.with # "result" /\ calls[p].kind = "permission"
                    /\ Wire(p, m) = "allow_always" => m.with = "allow_always"
                    /\ Wire(p, m) = "allow_once" => m.with \in Allows
                    /\ Wire(p, m) = "reject_once" => m.with = "reject_once"
    <3>1. p \in Ids /\ outcome[p] = "none"
      BY <2>2, <2>4 DEF Open
    <3>2. CASE p \in m.errors
      BY <3>1, <3>2 DEF Wire, Allows
    <3>3. CASE p \notin m.errors /\ calls[p].kind # "permission"
      BY <3>1, <3>3 DEF Wire, Allows
    <3>4. CASE p \notin m.errors /\ calls[p].kind = "permission"
      <4>1. p \in m.ids /\ m.with # "result"
        BY <2>4, <3>4 DEF Open
      <4>2. Wire(p, m) = ChooseOption(calls[p].options, m.with)
        BY <3>4 DEF Wire
      <4>3. /\ ChooseOption(calls[p].options, m.with) = "allow_always" => m.with = "allow_always"
            /\ ChooseOption(calls[p].options, m.with) = "allow_once" => m.with \in Allows
            /\ ChooseOption(calls[p].options, m.with) = "reject_once" => m.with = "reject_once"
            /\ ChooseOption(calls[p].options, m.with) # "none"
        BY <2>2, <4>1 DEF ChooseOption, Allows
      <4>. QED BY <3>1, <3>4, <4>1, <4>2, <4>3
    <3>. QED BY <3>2, <3>3, <3>4
  <2>5. \A i \in Ids : outcome'[i] = IF i \in Open(m) THEN Wire(i, m) ELSE outcome[i]
    BY <2>1
  <2>6. ASSUME NEW i \in Ids, Undecided(i) PROVE Undecided(i)'
    <3>1. i \in m.ids => m.with = "result"
      BY <1>5, <2>6 DEF Undecided
    <3>2. outcome'[i] # "reject_once"
      BY <2>4, <2>5, <2>6, <3>1 DEF Undecided
    <3>. QED BY <1>3, <1>4, <2>6, <3>2 DEF Undecided
  <2>7. InPlayOK'
    <3>0. slot \in {0} \cup Ids /\ \A k \in DOMAIN events : events[k] \in Event
      BY <1>0 DEF TypeOK
    <3>1. slot \in {0} \cup Ids /\ \A k \in DOMAIN events : events[k].kind = "call" => events[k].id \in Ids
      BY <3>0 DEF Event
    <3>. QED BY <1>0, <1>3, <2>6, <3>1 DEF InPlayOK
  <2>8. AnswersOK'
    BY <1>0, <1>3, <1>4 DEF AnswersOK
  <2>9. FreshOK'
    <3>1. ASSUME NEW i \in Ids, i > nextId PROVE outcome'[i] # "reject_once"
      <4>1. outcome[i] # "reject_once" /\ ~(i <= nextId)
        BY <1>0, <3>1 DEF FreshOK, TypeOK, Ids
      <4>. QED BY <2>3, <2>4, <2>5, <4>1
    <3>. QED BY <1>0, <1>3, <3>1 DEF FreshOK
  <2>10. \A p : Spendable(p) => p \notin Open(m) /\ Spendable(p)'
    BY <1>3, <2>4, <2>5 DEF Spendable
  <2>11. \A p \in Granted(m) : p \in Open(m) /\ Spendable(p)'
    BY <1>3, <2>3, <2>4, <2>5 DEF Granted, Spendable
  <2>12. GrantsOK'
    <3>1. \A p \in grants' : Spendable(p)'
      BY <1>0, <2>1, <2>10, <2>11 DEF GrantsOK
    <3>2. ASSUME NEW i \in Ids, calls[i].grant # 0
          PROVE  Spendable(calls[i].grant)' /\ calls[i].grant \notin grants'
      BY <1>0, <1>3, <2>1, <2>10, <2>11, <3>2 DEF GrantsOK
    <3>. QED BY <1>0, <1>3, <3>1, <3>2 DEF GrantsOK
  <2>13. RememberedOK'
    BY <1>0, <1>3 DEF RememberedOK
  <2>14. LaunchesApproved'
    BY <1>0, <1>3 DEF LaunchesApproved, Approved
  <2>15. WireSaysWhatWasDecided'
    BY <1>0, <1>3, <2>3, <2>4, <2>5 DEF WireSaysWhatWasDecided, Allows
  <2>. QED BY <2>7, <2>8, <2>9, <2>12, <2>13, <2>14, <2>15 DEF ApprovalInv
<1>. QED BY <1>6, <1>7

\* The loop takes call i from its channel, undecided: it goes into the empty prompt, or is
\* answered without the human's consent.
LEMMA TakeCall ==
  ASSUME ApprovalInv, TypeOK', Absorbing("call"), NEW i \in Ids, i = Head(events).id,
         UNCHANGED <<calls, nextId, outcome, decided>>,
         \/ slot' = slot
         \/ slot' = i /\ QuietQueue(requests'),
         \A k \in DOMAIN requests' :
            \/ requests'[k].with = "result"
            \/ \E j \in DOMAIN requests : requests'[k] = requests[j]
            \/ requests'[k].ids = {i} /\ requests'[k].with = "reject_once"
  PROVE  Undecided(i) /\ InPlayOK' /\ AnswersOK'
<1>0. InPlayOK /\ AnswersOK /\ events \in Seq(Event) /\ events # <<>> /\ events' = Tail(events)
  BY DEF ApprovalInv, TypeOK, Absorbing
<1>1. 1 \in DOMAIN events /\ events[1] = Head(events) /\ events[1].kind = "call"
  BY <1>0 DEF Absorbing
<1>2. Undecided(i) /\ slot # i
  BY <1>0, <1>1 DEF InPlayOK
<1>3. \A k \in DOMAIN events' : k + 1 \in DOMAIN events /\ events'[k] = events[k + 1] /\ k + 1 # 1
  BY <1>0
<1>4. \A k \in DOMAIN events' : events'[k].id # i
  BY <1>0, <1>1, <1>3 DEF InPlayOK
<1>5. \A x : x # i /\ Undecided(x) => Undecided(x)'
  BY DEF Undecided
<1>6. slot' # 0 => Undecided(slot)'
  <2>1. CASE slot' = slot
    BY <1>0, <1>2, <1>5, <2>1 DEF InPlayOK
  <2>2. CASE slot' = i /\ QuietQueue(requests')
    BY <1>2, <2>2 DEF Undecided, QuietQueue
  <2>. QED BY <2>1, <2>2
<1>7. \A k \in DOMAIN events' :
        events'[k].kind = "call" => (Undecided(events[k].id) /\ events[k].id # slot)'
  BY <1>0, <1>3, <1>4, <1>5 DEF InPlayOK
<1>8. \A j, k \in DOMAIN events' : j # k => j + 1 # k + 1
  BY <1>0
<1>9. \A j, k \in DOMAIN events' :
        j # k /\ events'[j].kind = "call" => events'[j].id # events'[k].id
  BY <1>0, <1>3, <1>8 DEF InPlayOK
<1>10. InPlayOK'
  BY <1>6, <1>7, <1>9 DEF InPlayOK
<1>11. AnswersOK'
  BY <1>0, <1>2 DEF AnswersOK, Undecided, Allows
<1>. QED BY <1>2, <1>10, <1>11

\* The prompt slot takes a request only when it is empty, and a refusal is no approval.
LEMMA PermissionApproval == ASSUME ApprovalInv, TypeOK', OnPermission PROVE ApprovalInv'
<1>0. TypeOK /\ requests \in Seq(Request)
  BY DEF ApprovalInv, TypeOK
<1>1. PICK i \in Ids : i = Head(events).id
  BY <1>0, HeadCall DEF OnPermission
<1>2. UNCHANGED <<calls, nextId, outcome, decided, grants, remembered, terms>>
  BY DEF OnPermission
<1>3. \/ slot' = i /\ requests' = requests
      \/ slot' = slot /\ requests' = Push(requests, Answer({i}, "reject_once", {}))
  BY <1>1 DEF OnPermission, Reply
<1>4. \A k \in DOMAIN requests' :
        \/ \E j \in DOMAIN requests : requests'[k] = requests[j]
        \/ requests'[k].ids = {i} /\ requests'[k].with = "reject_once"
  <2>1. Answer({i}, "reject_once", {}) \in Request
    BY MessageTypes
  <2>2. /\ Answer({i}, "reject_once", {}).ids = {i}
        /\ Answer({i}, "reject_once", {}).with = "reject_once"
    BY DEF Answer
  <2>. DEFINE m == Answer({i}, "reject_once", {})
  <2>. HIDE DEF m
  <2>3. \A k \in DOMAIN Push(requests, m) :
          Push(requests, m)[k] = m \/ \E j \in DOMAIN requests : Push(requests, m)[k] = requests[j]
    BY <1>0, <2>1, PushEffect DEF m
  <2>. QED BY <1>3, <2>2, <2>3 DEF m
<1>5. slot' = slot \/ (slot' = i /\ QuietQueue(requests'))
  <2>1. CASE requests' = requests
    <3>1. QuietQueue(requests')
      BY <2>1 DEF QuietQueue
    <3>. QED BY <1>3, <3>1
  <2>. QED BY <1>3, <2>1
<1>6. InPlayOK' /\ AnswersOK'
  BY <1>1, <1>2, <1>4, <1>5, TakeCall DEF OnPermission, AbsorbingCall
<1>7. FreshOK' /\ RememberedOK' /\ WireSaysWhatWasDecided'
  BY <1>2 DEF ApprovalInv, FreshOK, RememberedOK, WireSaysWhatWasDecided
<1>8. GrantsOK'
  BY <1>2 DEF ApprovalInv, GrantsOK, Spendable
<1>9. LaunchesApproved'
  BY <1>2 DEF ApprovalInv, LaunchesApproved, Approved
<1>. QED BY <1>6, <1>7, <1>8, <1>9 DEF ApprovalInv

\* A command is launched at once only under a grant or a remembered approval.
LEMMA CreateApproval == ASSUME ApprovalInv, TypeOK', OnCreate PROVE ApprovalInv'
<1>0. TypeOK /\ FreshOK /\ GrantsOK /\ RememberedOK /\ LaunchesApproved
  BY DEF ApprovalInv
<1>1. PICK i \in Ids : i = Head(events).id
  BY <1>0, HeadCall DEF OnCreate
<1>2. UNCHANGED <<calls, nextId, outcome, decided, grants, remembered>>
  BY DEF OnCreate
<1>3. \/ Refuse(i) /\ slot' = slot /\ terms' = terms
      \/ requests' = requests /\ slot' = i /\ terms' = terms
      \/ /\ requests' = requests /\ slot' = slot
         /\ calls[i].grant # 0 \/ calls[i].command \in remembered
         /\ Spawn(i)
  BY <1>1 DEF OnCreate
<1>4. QuietQueue(requests')
  BY <1>0, <1>3, RefuseQuiet, QuietPushes
<1>5. Undecided(i) /\ InPlayOK' /\ AnswersOK'
  <2>1. Absorbing("call")
    BY DEF OnCreate, AbsorbingCall
  <2>. QED BY <1>1, <1>2, <1>3, <1>4, <2>1, TakeCall DEF QuietQueue
<1>6. \A t \in Ids : terms'[t] = terms[t] \/
        (t = i /\ (calls[i].grant # 0 \/ calls[i].command \in remembered))
  BY <1>0, <1>3 DEF Spawn, TypeOK
<1>7. FreshOK'
  <2>1. i \in Nat /\ nextId \in Nat /\ ~(i > nextId)
    BY <1>0, <1>5, BoundsAreNumbers DEF Undecided, TypeOK, Ids
  <2>. QED BY <1>0, <1>2, <1>6, <2>1 DEF FreshOK
<1>8. RememberedOK' /\ WireSaysWhatWasDecided'
  BY <1>2 DEF ApprovalInv, RememberedOK, WireSaysWhatWasDecided
<1>9. GrantsOK'
  BY <1>0, <1>2 DEF GrantsOK, Spendable
<1>10. calls[i].grant # 0 \/ calls[i].command \in remembered => Approved(i)
  BY <1>0 DEF GrantsOK, Spendable, RememberedOK, Approved
<1>11. LaunchesApproved'
  BY <1>0, <1>2, <1>6, <1>10 DEF LaunchesApproved, Approved
<1>. QED BY <1>5, <1>7, <1>8, <1>9, <1>11 DEF ApprovalInv

\* The human decides, once, about the call in the prompt.
LEMMA DecideApproval ==
  ASSUME ApprovalInv, TypeOK', NEW d \in Allows \cup {"reject_once"}, DecidePermission(d)
  PROVE  ApprovalInv'
<1>0. /\ TypeOK /\ InPlayOK /\ AnswersOK /\ FreshOK /\ GrantsOK /\ RememberedOK
      /\ LaunchesApproved /\ WireSaysWhatWasDecided
  BY DEF ApprovalInv
<1>1. PICK i \in Ids : i = slot /\ Undecided(i)
  BY <1>0 DEF DecidePermission, InPlayOK, TypeOK
<1>2. UNCHANGED <<calls, nextId, outcome, grants, events>> /\ slot' = 0
  BY DEF DecidePermission
<1>3. decided' = [decided EXCEPT ![i] = d] /\ remembered' = Remember(d, calls[i].command)
  BY <1>1 DEF DecidePermission
<1>4. decided[i] = "none" /\ decided'[i] = d /\ \A p \in Ids : p # i => decided'[p] = decided[p]
  BY <1>0, <1>1, <1>3 DEF Undecided, TypeOK
<1>5. \A k \in DOMAIN requests' :
        \/ \E j \in DOMAIN requests : requests'[k] = requests[j]
        \/ requests'[k].with = "result"
        \/ requests'[k].ids = {i} /\ requests'[k].with = d
  <2>1. CASE Reply(i, d)
    <3>1. Answer({i}, d, {}) \in Request
      BY MessageTypes
    <3>2. Answer({i}, d, {}).ids = {i} /\ Answer({i}, d, {}).with = d
      BY DEF Answer
    <3>. DEFINE m == Answer({i}, d, {})
    <3>. HIDE DEF m
    <3>3. \A k \in DOMAIN Push(requests, m) :
            Push(requests, m)[k] = m \/ \E j \in DOMAIN requests : Push(requests, m)[k] = requests[j]
      BY <1>0, <3>1, PushEffect DEF m, TypeOK
    <3>. QED BY <2>1, <3>2, <3>3 DEF m, Reply
  <2>2. CASE requests' = requests
    BY <2>2
  <2>3. CASE Refuse(i)
    BY <1>0, <2>3, RefuseQuiet DEF QuietQueue
  <2>. QED BY <1>1, <2>1, <2>2, <2>3 DEF DecidePermission
<1>6. \A t \in Ids : terms'[t] = terms[t] \/ (t = i /\ d \in Allows)
  BY <1>0, <1>1 DEF DecidePermission, Spawn, TypeOK
<1>7. \A x \in Ids : x # i /\ Undecided(x) => Undecided(x)'
  BY <1>2, <1>4, <1>5 DEF Undecided
<1>8. InPlayOK'
  <2>1. \A k \in DOMAIN events : events[k] \in Event
    BY <1>0 DEF TypeOK
  <2>2. \A k \in DOMAIN events : events[k].kind = "call" => events[k].id \in Ids /\ events[k].id # 0
    BY <2>1 DEF Event, Ids
  <2>3. \A k \in DOMAIN events' :
          events'[k].kind = "call" => (Undecided(events[k].id) /\ events[k].id # slot)'
    BY <1>0, <1>1, <1>2, <1>7, <2>2 DEF InPlayOK
  <2>. QED BY <1>0, <1>2, <2>3 DEF InPlayOK
<1>9. AnswersOK'
  <2>1. \A k \in DOMAIN requests : i \in requests[k].ids => requests[k].with = "result"
    BY <1>1 DEF Undecided
  <2>2. \A k \in DOMAIN requests : requests[k] \in Request
    BY <1>0 DEF TypeOK
  <2>3. \A k \in DOMAIN requests : requests[k].ids \subseteq Ids
    BY <2>2 DEF Request
  <2>4. ASSUME NEW k \in DOMAIN requests', NEW p \in requests'[k].ids
        PROVE  /\ requests'[k].with \in Allows => decided'[p] = requests'[k].with
               /\ requests'[k].with = "reject_once" => decided'[p] \notin Allows
               /\ requests'[k].with # "result" => p <= nextId'
    <3>1. CASE \E j \in DOMAIN requests : requests'[k] = requests[j]
      BY <1>0, <1>2, <1>4, <2>1, <2>3, <2>4, <3>1 DEF AnswersOK, Allows
    <3>2. CASE requests'[k].with = "result"
      BY <3>2 DEF Allows
    <3>3. CASE requests'[k].ids = {i} /\ requests'[k].with = d
      BY <1>1, <1>2, <1>4, <2>4, <3>3 DEF Undecided, Allows
    <3>. QED BY <1>5, <3>1, <3>2, <3>3
  <2>. QED BY <2>4 DEF AnswersOK
<1>10. FreshOK'
  <2>1. i \in Nat /\ nextId \in Nat /\ ~(i > nextId)
    BY <1>0, <1>1, BoundsAreNumbers DEF Undecided, TypeOK, Ids
  <2>. QED BY <1>0, <1>2, <1>4, <1>6, <2>1 DEF FreshOK
<1>11. \A p : Spendable(p) => p # i /\ Spendable(p)'
  BY <1>2, <1>4 DEF Spendable, Allows
<1>12. GrantsOK'
  BY <1>0, <1>2, <1>11 DEF GrantsOK
<1>13. RememberedOK'
  <2>1. ASSUME NEW c \in remembered'
        PROVE  \E p \in Ids : decided'[p] = "allow_always" /\ calls'[p].command = c
    <3>1. CASE c \in remembered
      BY <1>0, <1>2, <1>4, <3>1 DEF RememberedOK
    <3>2. CASE c \notin remembered
      BY <1>2, <1>3, <1>4, <2>1, <3>2 DEF Remember
    <3>. QED BY <3>1, <3>2
  <2>. QED BY <2>1 DEF RememberedOK
<1>14. LaunchesApproved'
  <2>1. ASSUME NEW t \in Ids, terms'[t].status # "none" PROVE Approved(t)'
    <3>1. CASE t = i /\ d \in Allows
      BY <1>4, <3>1 DEF Approved
    <3>2. CASE terms'[t] = terms[t]
      <4>1. Approved(t)
        BY <1>0, <2>1, <3>2 DEF LaunchesApproved
      <4>2. CASE decided[t] \in Allows
        BY <1>4, <4>2 DEF Approved, Allows
      <4>3. CASE \E p \in Ids : decided[p] = "allow_always" /\ calls[p].command = calls[t].command
        BY <1>2, <1>4, <4>3 DEF Approved
      <4>4. CASE calls[t].grant # 0
        BY <1>2, <1>12, <4>4 DEF GrantsOK, Spendable, Approved
      <4>. QED BY <4>1, <4>2, <4>3, <4>4 DEF Approved
    <3>. QED BY <1>6, <3>1, <3>2
  <2>. QED BY <1>0, <1>2, <2>1 DEF LaunchesApproved
<1>15. WireSaysWhatWasDecided'
  <2>1. outcome[i] \notin Allows \cup {"reject_once"}
    BY <1>0, <1>1, <1>4 DEF WireSaysWhatWasDecided, Undecided, Allows
  <2>. QED BY <1>0, <1>2, <1>4, <2>1 DEF WireSaysWhatWasDecided, Allows
<1>. QED BY <1>8, <1>9, <1>10, <1>12, <1>13, <1>14, <1>15 DEF ApprovalInv

----------------------------------------------------------------------------

\* Nothing has been asked, decided or sent.
LEMMA InitApproval == Init => ApprovalInv
<1>. SUFFICES ASSUME Init PROVE ApprovalInv
  OBVIOUS
<1>1. TypeOK
  BY InitType
<1>2. \A i \in Ids : /\ calls[i].grant = 0 /\ terms[i].status = "none"
                     /\ outcome[i] = "none" /\ decided[i] = "none"
  BY DEF Init, NoCall, NoTerm
<1>3. slot = 0 /\ events = <<>> /\ requests = <<>> /\ grants = {} /\ remembered = {}
  BY DEF Init
<1>4. InPlayOK /\ AnswersOK
  BY <1>3 DEF InPlayOK, AnswersOK
<1>5. FreshOK /\ GrantsOK /\ RememberedOK /\ LaunchesApproved /\ WireSaysWhatWasDecided
  BY <1>2, <1>3 DEF FreshOK, GrantsOK, RememberedOK, LaunchesApproved, WireSaysWhatWasDecided
<1>. QED BY <1>1, <1>4, <1>5 DEF ApprovalInv

\* Every step keeps the approvals in order.
LEMMA NextApproval == ApprovalInv /\ [Next]_vars => ApprovalInv'
<1>. SUFFICES ASSUME ApprovalInv, [Next]_vars PROVE ApprovalInv'
  OBVIOUS
<1>0. TypeOK'
  BY NextType DEF ApprovalInv
<1>1. CASE AgentAsks
  BY <1>0, <1>1, AgentAsksApproval
<1>2. CASE \/ Initialized
           \/ AgentExits
           \/ \E k \in Debts, s \in Sessions, well \in {"ok", "cancelled", "error"} :
                AgentReplies(k, s, well)
  BY <1>0, <1>2, QuietAgent
<1>3. CASE Encode
  BY <1>0, <1>3, EncodeApproval
<1>4. CASE Absorb
  BY <1>0, <1>4, QuietAbsorb, PermissionApproval, CreateApproval DEF Absorb
<1>5. CASE \E i \in Ids : FileRead(i) \/ Spawned(i) \/ Exited(i) \/ PtyFailed(i)
  BY <1>0, <1>5, QuietReports
<1>6. CASE HumanDecides
  BY <1>0, <1>6, DecideApproval DEF HumanDecides
<1>7. CASE HumanActs
  BY <1>0, <1>7, QuietHuman
<1>8. CASE UNCHANGED vars
  <2>1. TypeOK /\ QuietQueue(requests')
    BY <1>8, QuietPushes DEF ApprovalInv
  <2>. QED BY <1>0, <1>8, <2>1, QuietStep DEF QuietEvents, QuietTerms
<1>. QED BY <1>1, <1>2, <1>3, <1>4, <1>5, <1>6, <1>7, <1>8 DEF Next

\* Every command the agent has started was approved by the human, and no one-shot approval
\* started two (handle_agent_terminal, decide_permission, the grants of the translator).
THEOREM LaunchesAreApproved == Spec => []LaunchesApproved
<1>1. ApprovalInv => LaunchesApproved
  BY DEF ApprovalInv
<1>. QED BY <1>1, InitApproval, NextApproval, PTL DEF Spec

\* What the agent is told about a permission request is what the human decided (encode,
\* choose_option), whatever options were offered and however answers and events interleave.
THEOREM WireIsTruthful == Spec => []WireSaysWhatWasDecided
<1>1. ApprovalInv => WireSaysWhatWasDecided
  BY DEF ApprovalInv
<1>. QED BY <1>1, InitApproval, NextApproval, PTL DEF Spec

----------------------------------------------------------------------------
(***************************************************************************)
(* The calls that the model keeps waiting, and the terminals it runs for   *)
(* the agent: what is held can still be woken, and what runs belongs to    *)
(* the session of the moment.                                              *)
(***************************************************************************)

\* Calls about a terminal that exists
Operations == {"output", "wait", "kill", "release"}

\* Each place holds calls of the kinds it is for, and no call that was not made.
HeldKinds ==
  /\ \A i \in creates : calls[i].kind = "create" /\ i <= nextId
  /\ \A i \in waits : calls[i].kind = "wait" /\ i <= nextId
  /\ \A i \in reads : calls[i].kind = "read" /\ i <= nextId
  /\ slot # 0 => calls[slot].kind \in {"permission", "create"}
  /\ \A i \in Ids : calls[i].kind \in Operations => calls[i].terminal \in Ids

\* A call is in one place at a time.
HeldApart ==
  /\ \A k \in DOMAIN events :
       events[k].kind = "call" => events[k].id \notin creates \cup waits \cup reads
  /\ slot \notin creates

\* No answer to call i is under way, and nobody knows of a terminal by that name.
Untouched(i) ==
  /\ bound[i] = "none"
  /\ \A k \in DOMAIN requests : i \notin requests[k].ids
  /\ \A j \in Ids : calls[j].terminal # i

\* So it is with the calls to come, and with those the model has yet to answer.
Waiting(i) ==
  \/ i > nextId
  \/ i = slot
  \/ i \in creates
  \/ \E k \in DOMAIN events : events[k].kind = "call" /\ events[k].id = i
WaitingUntouched == \A i \in Ids : Waiting(i) => Untouched(i)

HeldOK  == HeldKinds /\ HeldApart /\ WaitingUntouched
HeldInv == ApprovalInv /\ HeldOK /\ HeldCallsCanEnd

\* Terminals are those of creates in a session, and the prompt is about the session of
\* the moment.
TermsOfCreates ==
  /\ \A i \in Ids : calls[i].kind = "create" => calls[i].session # 0
  /\ \A t \in Ids : terms[t].status # "none" => calls[t].kind = "create"
SlotIsCurrent ==
  slot # 0 => calls[slot].kind \in {"permission", "create"} /\ calls[slot].session = session

CurrentOK  == TermsOfCreates /\ SlotIsCurrent /\ LiveTerminalsAreCurrent
CurrentInv == ApprovalInv /\ CurrentOK

----------------------------------------------------------------------------
(***************************************************************************)
(* What runs belongs to the session of the moment.                         *)
(***************************************************************************)

\* The terminals that LiveTerminalsAreCurrent is about
Live(t) ==
  terms[t].status \in {"starting", "running"} /\ ~terms[t].released /\ ~terms[t].restarted

\* A step that starts nothing and leaves the calls, the session and the prompt as they are,
\* or empties the prompt.
LEMMA CurrentStep ==
  ASSUME CurrentOK, UNCHANGED <<calls, session>>, slot' \in {slot, 0}, QuietTerms,
         \A t \in Ids : Live(t)' => Live(t)
  PROVE  CurrentOK'
<1>1. TermsOfCreates'
  BY DEF CurrentOK, TermsOfCreates, QuietTerms
<1>2. SlotIsCurrent'
  BY DEF CurrentOK, SlotIsCurrent
<1>3. LiveTerminalsAreCurrent'
  BY DEF CurrentOK, LiveTerminalsAreCurrent, Live
<1>. QED BY <1>1, <1>2, <1>3 DEF CurrentOK

\* A call that is admitted has no terminal yet; a create is for a session.
LEMMA AdmitCurrent ==
  ASSUME ApprovalInv, CurrentOK, NEW c \in Call, Admit(c), c.kind = "create" => c.session # 0
  PROVE  CurrentOK'
<1>0. TypeOK /\ FreshOK /\ InPlayOK
  BY DEF ApprovalInv
<1>1. PICK n \in Ids : n = nextId + 1 /\ nextId \in Nat
  BY <1>0, IdsAreNumbers DEF Admit, TypeOK, Ids
<1>2. UNCHANGED <<terms, slot, session>> /\ calls' = [calls EXCEPT ![n] = c]
  BY <1>1 DEF Admit
<1>3. terms[n].status = "none"
  BY <1>0, <1>1 DEF FreshOK
<1>4. slot # n
  BY <1>0, <1>1, IdsAreNumbers DEF InPlayOK, Undecided
<1>5. \A j \in Ids : calls'[j] = IF j = n THEN c ELSE calls[j]
  BY <1>0, <1>2 DEF TypeOK
<1>6. TermsOfCreates'
  BY <1>2, <1>3, <1>5 DEF CurrentOK, TermsOfCreates
<1>7. SlotIsCurrent'
  BY <1>0, <1>2, <1>4, <1>5 DEF CurrentOK, SlotIsCurrent, TypeOK
<1>8. LiveTerminalsAreCurrent'
  BY <1>2, <1>3, <1>5 DEF CurrentOK, LiveTerminalsAreCurrent
<1>. QED BY <1>6, <1>7, <1>8 DEF CurrentOK

\* Every call is admitted that way.
LEMMA AgentAsksCurrent == ASSUME ApprovalInv, CurrentOK, AgentAsks PROVE CurrentOK'
<1>0. TypeOK
  BY DEF ApprovalInv
<1>e. \A s \in 0..started : s \in Sessions /\ ended[s] \in Nat
  BY <1>0, StartedSessions
<1>1. ASSUME NEW s \in 0..started, AskRead(s) PROVE CurrentOK'
  <2>1. [NoCall EXCEPT !.kind = "read", !.session = s, !.turn = ended[s]] \in Call
    BY <1>e, <1>1 DEF AskRead, NoCall, Call
  <2>2. [NoCall EXCEPT !.kind = "read", !.session = s, !.turn = ended[s]].kind = "read"
    BY DEF NoCall
  <2>. QED BY <1>1, <2>1, <2>2, AdmitCurrent DEF AskRead
<1>2. ASSUME NEW s \in 0..started, NEW c \in Commands \cup {NoCommand}, NEW offer \in Offers,
             AskPermission(s, c, offer)
      PROVE CurrentOK'
  <2>. DEFINE call == [NoCall EXCEPT !.kind = "permission", !.session = s, !.command = c,
                                     !.options = offer, !.turn = ended[s]]
  <2>1. call \in Call /\ call.kind = "permission"
    BY <1>e, <1>2 DEF AskPermission, NoCall, Call
  <2>2. Admit(call)
    BY <1>2 DEF AskPermission
  <2>. HIDE DEF call
  <2>. QED BY <2>1, <2>2, AdmitCurrent
<1>3. ASSUME NEW s \in 0..started, NEW c \in Commands, AskCreate(s, c) PROVE CurrentOK'
  <2>1. PICK grant \in IF Covering(s, c) = {} THEN {0} ELSE Covering(s, c) :
          Admit([NoCall EXCEPT !.kind = "create", !.session = s, !.command = c,
                               !.grant = grant, !.turn = ended[s]])
    BY <1>3 DEF AskCreate
  <2>2. grant \in {0} \cup Ids /\ s # 0
    BY <1>0, <1>3 DEF AskCreate, Covering, TypeOK
  <2>. DEFINE call == [NoCall EXCEPT !.kind = "create", !.session = s, !.command = c,
                                     !.grant = grant, !.turn = ended[s]]
  <2>3. call \in Call /\ call.session = s
    BY <1>e, <1>3, <2>2 DEF AskCreate, NoCall, Call
  <2>4. Admit(call)
    BY <2>1
  <2>. HIDE DEF call
  <2>. QED BY <2>2, <2>3, <2>4, AdmitCurrent
<1>4. ASSUME NEW k \in Kinds, NEW t \in Ids, AskTerminal(k, t) PROVE CurrentOK'
  <2>0. calls[t].session \in Sessions
    BY <1>0 DEF TypeOK, Call
  <2>. DEFINE call == [NoCall EXCEPT !.kind = k, !.session = calls[t].session, !.terminal = t,
                                     !.turn = ended[calls[t].session]]
  <2>1. call \in Call /\ call.kind = k
    BY <1>0, <2>0 DEF TypeOK, NoCall, Call
  <2>2. Admit(call) /\ k # "create"
    BY <1>4 DEF AskTerminal
  <2>. HIDE DEF call
  <2>. QED BY <2>1, <2>2, AdmitCurrent
<1>. QED BY <1>1, <1>2, <1>3, <1>4 DEF AgentAsks

\* A spawned terminal is the only one that changes.
LEMMA SpawnEffect ==
  ASSUME TypeOK, NEW i \in Ids, Spawn(i)
  PROVE  \A t \in Ids : terms'[t] = IF t = i THEN [NoTerm EXCEPT !.status = "starting"]
                                              ELSE terms[t]
BY DEF Spawn, TypeOK

\* A terminal is started for a create of the session of the moment.
LEMMA SpawnCurrent ==
  ASSUME ApprovalInv, CurrentOK, NEW i \in Ids, Spawn(i), UNCHANGED <<calls, session>>,
         slot' \in {slot, 0}, calls[i].kind = "create", calls[i].session = session
  PROVE  CurrentOK'
<1>1. \A t \in Ids : t # i => terms'[t] = terms[t]
  BY SpawnEffect DEF ApprovalInv
<1>2. TermsOfCreates'
  BY <1>1 DEF CurrentOK, TermsOfCreates
<1>3. SlotIsCurrent'
  BY DEF CurrentOK, SlotIsCurrent
<1>4. LiveTerminalsAreCurrent'
  BY <1>1 DEF CurrentOK, LiveTerminalsAreCurrent
<1>. QED BY <1>2, <1>3, <1>4 DEF CurrentOK

\* A create is for the session of the moment, or it is refused.
LEMMA CreateCurrent == ASSUME ApprovalInv, CurrentOK, OnCreate PROVE CurrentOK'
<1>0. TypeOK
  BY DEF ApprovalInv
<1>1. PICK i \in Ids : i = Head(events).id /\ calls[i].kind = "create"
  BY <1>0, HeadCall DEF OnCreate, AbsorbingCall
<1>2. UNCHANGED <<calls, session>>
  BY DEF OnCreate
<1>3. \/ slot' = slot /\ terms' = terms
      \/ calls[i].session = session /\ slot' = i /\ terms' = terms
      \/ calls[i].session = session /\ slot' = slot /\ Spawn(i)
  BY <1>1 DEF OnCreate
<1>4. CASE slot' = slot /\ terms' = terms
  BY <1>2, <1>4, CurrentStep DEF QuietTerms, Live
<1>5. CASE calls[i].session = session /\ slot' = i /\ terms' = terms
  BY <1>1, <1>2, <1>5
     DEF CurrentOK, TermsOfCreates, SlotIsCurrent, LiveTerminalsAreCurrent
<1>6. CASE calls[i].session = session /\ slot' = slot /\ Spawn(i)
  BY <1>1, <1>2, <1>6, SpawnCurrent
<1>. QED BY <1>3, <1>4, <1>5, <1>6

\* So is a permission request that reaches the prompt.
LEMMA PermissionCurrent == ASSUME ApprovalInv, CurrentOK, OnPermission PROVE CurrentOK'
<1>1. PICK i \in Ids : i = Head(events).id /\ calls[i].kind = "permission"
  BY HeadCall DEF OnPermission, AbsorbingCall, ApprovalInv
<1>2. UNCHANGED <<calls, session, terms>>
  BY DEF OnPermission
<1>3. slot' = slot \/ (slot' = i /\ calls[i].session = session)
  BY <1>1 DEF OnPermission
<1>. QED BY <1>1, <1>2, <1>3
         DEF CurrentOK, TermsOfCreates, SlotIsCurrent, LiveTerminalsAreCurrent

\* Cancelling releases what is alive in the session, and only releases.
LEMMA CancelEffect ==
  ASSUME TypeOK, NEW s, CancelTerminals(s)
  PROVE  /\ QuietTerms
         /\ \A t \in Ids : Live(t)' => Live(t) /\ ~Usable(s, t)
<1>1. \A t \in Ids : terms'[t] = IF Usable(s, t) THEN [terms[t] EXCEPT !.released = TRUE]
                                                  ELSE terms[t]
  BY DEF CancelTerminals
<1>2. \A t \in Ids : Usable(s, t) => terms'[t].released
  BY <1>1 DEF TypeOK, Term
<1>. QED BY <1>1, <1>2, CancelQuiet DEF Live

\* A new session begins with the old one's terminals released.
LEMMA SessionCurrent == ASSUME ApprovalInv, CurrentOK, OnSessionStarted PROVE CurrentOK'
<1>0. TypeOK /\ UNCHANGED calls /\ slot' = 0
  BY DEF ApprovalInv, OnSessionStarted
<1>1. QuietTerms /\ \A t \in Ids : ~Live(t)'
  <2>1. CASE session = 0
    <3>1. UNCHANGED terms
      BY <2>1 DEF OnSessionStarted
    <3>2. \A t \in Ids : Live(t) => calls[t].session = 0 /\ calls[t].session # 0
      BY <2>1 DEF Live, CurrentOK, LiveTerminalsAreCurrent, TermsOfCreates
    <3>. QED BY <3>1, <3>2 DEF QuietTerms, Live
  <2>2. CASE session # 0
    <3>1. CancelTerminals(session)
      BY <2>2 DEF OnSessionStarted
    <3>2. \A t \in Ids : Live(t) => Usable(session, t)
      BY DEF Live, CurrentOK, LiveTerminalsAreCurrent, Usable
    <3>. QED BY <1>0, <3>1, <3>2, CancelEffect
  <2>. QED BY <2>1, <2>2
<1>2. TermsOfCreates'
  BY <1>0, <1>1 DEF CurrentOK, TermsOfCreates, QuietTerms
<1>3. SlotIsCurrent'
  BY <1>0 DEF SlotIsCurrent
<1>4. LiveTerminalsAreCurrent'
  BY <1>1 DEF LiveTerminalsAreCurrent, Live
<1>. QED BY <1>2, <1>3, <1>4 DEF CurrentOK

\* The other handlers start nothing.
LEMMA AbsorbCurrent == ASSUME ApprovalInv, CurrentOK, Absorb PROVE CurrentOK'
<1>0. TypeOK
  BY DEF ApprovalInv
<1>1. CASE OnRead \/ OnTurnEnded
  BY <1>1, CurrentStep DEF OnRead, OnTurnEnded, QuietTerms, Live
<1>2. CASE OnOperation
  <2>1. UNCHANGED <<calls, session, slot>>
    BY <1>2 DEF OnOperation
  <2>2. PICK t : terms' = terms \/ terms' = [terms EXCEPT ![t].released = TRUE]
    BY <1>2 DEF OnOperation
  <2>3. \A u \in Ids : terms'[u] = terms[u] \/ terms'[u] = [terms[u] EXCEPT !.released = TRUE]
    BY <1>0, <2>2 DEF TypeOK
  <2>4. \A u \in Ids : /\ [terms[u] EXCEPT !.released = TRUE].status = terms[u].status
                       /\ [terms[u] EXCEPT !.released = TRUE].released
    BY <1>0 DEF TypeOK, Term
  <2>. QED BY <2>1, <2>3, <2>4, CurrentStep DEF QuietTerms, Live
<1>3. CASE OnCancelledOrFailed
  <2>1. UNCHANGED <<calls, session>> /\ slot' \in {slot, 0}
    BY <1>3 DEF OnCancelledOrFailed
  <2>2. QuietTerms /\ \A t \in Ids : Live(t)' => Live(t)
    BY <1>0, <1>3, CancelEffect DEF OnCancelledOrFailed
  <2>. QED BY <2>1, <2>2, CurrentStep
<1>. QED BY <1>1, <1>2, <1>3, CreateCurrent, PermissionCurrent, SessionCurrent DEF Absorb

\* The PTY and the human: what they touch was live before, or is restarted, or is no more.
LEMMA ReportsCurrent ==
  ASSUME ApprovalInv, CurrentOK, NEW i \in Ids,
         \/ FileRead(i) \/ Spawned(i) \/ Exited(i) \/ PtyFailed(i)
         \/ CloseTerminal(i) \/ RestartTerminal(i)
  PROVE  CurrentOK'
<1>0. TypeOK
  BY DEF ApprovalInv
<1>1. CASE FileRead(i)
  BY <1>1, CurrentStep DEF FileRead, QuietTerms, Live
<1>2. CASE Spawned(i) \/ Exited(i) \/ PtyFailed(i)
  <2>1. PICK before \in {{"starting"}, {"running"}, {"running", "broken"}},
             after \in {"running", "broken", "failed", "exited"} :
          PtyEvent(i, before, after) /\ (after = "running" => before = {"starting"})
    BY <1>2 DEF Spawned, Exited, PtyFailed
  <2>2. /\ \A t \in Ids : t # i => terms'[t] = terms[t]
        /\ terms[i].status \in before
        /\ terms'[i].status = after /\ terms'[i].released = terms[i].released
        /\ terms'[i].restarted = terms[i].restarted
    BY <1>0, <2>1 DEF PtyEvent, TypeOK, Term
  <2>3. QuietTerms /\ \A t \in Ids : Live(t)' => Live(t)
    BY <2>1, <2>2 DEF QuietTerms, Live
  <2>. QED BY <2>1, <2>3, CurrentStep DEF PtyEvent
<1>3. CASE CloseTerminal(i) \/ RestartTerminal(i)
  <2>1. /\ \A t \in Ids : t # i => terms'[t] = terms[t]
        /\ terms[i].status # "none"
        /\ terms'[i].status = "closed" \/ terms'[i].restarted
    BY <1>0, <1>3 DEF CloseTerminal, RestartTerminal, TypeOK, Term
  <2>2. QuietTerms /\ \A t \in Ids : Live(t)' => Live(t)
    BY <2>1 DEF QuietTerms, Live
  <2>. QED BY <1>3, <2>2, CurrentStep DEF CloseTerminal, RestartTerminal
<1>. QED BY <1>1, <1>2, <1>3

\* A create that was allowed is started, in the session its prompt was for.
LEMMA DecideCurrent ==
  ASSUME ApprovalInv, CurrentOK, NEW d, DecidePermission(d)
  PROVE  CurrentOK'
<1>1. slot \in Ids /\ slot' = 0 /\ UNCHANGED <<calls, session>>
  BY DEF DecidePermission, ApprovalInv, TypeOK
<1>2. UNCHANGED terms \/ (calls[slot].kind = "create" /\ Spawn(slot))
  BY DEF DecidePermission
<1>3. CASE UNCHANGED terms
  BY <1>1, <1>3, CurrentStep DEF QuietTerms, Live
<1>4. CASE calls[slot].kind = "create" /\ Spawn(slot)
  <2>1. calls[slot].session = session
    BY <1>1, IdsAreNumbers DEF CurrentOK, SlotIsCurrent
  <2>. QED BY <1>1, <1>4, <2>1, SpawnCurrent
<1>. QED BY <1>2, <1>3, <1>4

\* Every step keeps what runs in its session.
LEMMA NextCurrent == CurrentInv /\ [Next]_vars => CurrentInv'
<1>. SUFFICES ASSUME CurrentInv, [Next]_vars PROVE CurrentInv'
  OBVIOUS
<1>0. ApprovalInv /\ CurrentOK /\ ApprovalInv'
  BY NextApproval DEF CurrentInv
<1>. SUFFICES CurrentOK'
  BY <1>0 DEF CurrentInv
<1>1. ASSUME UNCHANGED <<calls, session, slot, terms>> PROVE CurrentOK'
  BY <1>0, <1>1, CurrentStep DEF QuietTerms, Live
<1>2. CASE Initialized \/ AgentExits \/ Encode
  BY <1>1, <1>2 DEF Initialized, AgentExits, Encode
<1>3. CASE \E k \in Debts, s \in Sessions, well \in {"ok", "cancelled", "error"} :
             AgentReplies(k, s, well)
  BY <1>1, <1>3 DEF AgentReplies
<1>4. CASE HumanActs
  <2>1. CASE NewSession \/ SetMode \/ OpenAsk \/ CloseAsk \/ ConfirmAsk
    BY <1>1, <2>1 DEF NewSession, SetMode, OpenAsk, CloseAsk, ConfirmAsk
  <2>2. CASE \E t \in Ids : CloseTerminal(t) \/ RestartTerminal(t)
    BY <1>0, <2>2, ReportsCurrent
  <2>. QED BY <1>4, <2>1, <2>2 DEF HumanActs
<1>5. CASE UNCHANGED vars
  BY <1>1, <1>5
<1>6. CASE AgentAsks
  BY <1>0, <1>6, AgentAsksCurrent
<1>7. CASE Absorb
  BY <1>0, <1>7, AbsorbCurrent
<1>8. CASE \E i \in Ids : FileRead(i) \/ Spawned(i) \/ Exited(i) \/ PtyFailed(i)
  BY <1>0, <1>8, ReportsCurrent
<1>9. CASE HumanDecides
  BY <1>0, <1>9, DecideCurrent DEF HumanDecides
<1>. QED BY <1>2, <1>3, <1>4, <1>5, <1>6, <1>7, <1>8, <1>9 DEF Next

\* Nothing runs at first.
LEMMA InitCurrent == Init => CurrentInv
<1>. SUFFICES ASSUME Init PROVE CurrentInv
  OBVIOUS
<1>1. slot = 0 /\ \A i \in Ids : calls[i].kind = "none" /\ terms[i].status = "none"
  BY DEF Init, NoCall, NoTerm
<1>2. CurrentOK
  BY <1>1 DEF CurrentOK, TermsOfCreates, SlotIsCurrent, LiveTerminalsAreCurrent
<1>. QED BY <1>2, InitApproval DEF CurrentInv

\* No command outlives its session, unless the human restarted it: a terminal that runs
\* for the agent is of the session of the moment (SessionStarted, cancel_agent_terminals).
THEOREM TerminalsAreCurrent == Spec => []LiveTerminalsAreCurrent
<1>1. CurrentInv => LiveTerminalsAreCurrent
  BY DEF CurrentInv, CurrentOK
<1>. QED BY <1>1, InitCurrent, NextCurrent, PTL DEF Spec

----------------------------------------------------------------------------
(***************************************************************************)
(* What is held can still be woken.                                        *)
(***************************************************************************)

\* The answers in the queue r are about calls in D, or were there before.
OnlyAnswers(r, D) ==
  \A k \in DOMAIN r : \A x \in r[k].ids : x \in D \/ \E j \in DOMAIN requests : x \in requests[j].ids

\* Pushing an answer adds its calls, pushing a question none.
LEMMA PushAnswers ==
  ASSUME TypeOK
  PROVE  /\ OnlyAnswers(requests, {})
         /\ \A ids, errors \in SUBSET Ids : \A with \in Allows \cup {"reject_once", "result"} :
              OnlyAnswers(Push(requests, Answer(ids, with, errors)), ids)
         /\ \A k \in Debts, s \in Sessions : OnlyAnswers(Push(requests, Ask(k, s)), {})
<1>1. ASSUME NEW m \in Request PROVE OnlyAnswers(Push(requests, m), m.ids)
  <2>1. \A k \in DOMAIN Push(requests, m) :
          Push(requests, m)[k] = m \/ \E j \in DOMAIN requests : Push(requests, m)[k] = requests[j]
    BY <1>1, PushEffect DEF TypeOK
  <2>. QED BY <2>1 DEF OnlyAnswers
<1>2. ASSUME NEW ids \in SUBSET Ids, NEW errors \in SUBSET Ids,
             NEW with \in Allows \cup {"reject_once", "result"}
      PROVE  OnlyAnswers(Push(requests, Answer(ids, with, errors)), ids)
  <2>1. Answer(ids, with, errors) \in Request /\ Answer(ids, with, errors).ids = ids
    BY MessageTypes DEF Answer
  <2>. QED BY <1>1, <2>1
<1>3. ASSUME NEW k \in Debts, NEW s \in Sessions PROVE OnlyAnswers(Push(requests, Ask(k, s)), {})
  <2>1. Ask(k, s) \in Request /\ Ask(k, s).ids = {}
    BY MessageTypes DEF Ask
  <2>. QED BY <1>1, <2>1
<1>4. OnlyAnswers(requests, {})
  BY DEF OnlyAnswers
<1>. QED BY <1>2, <1>3, <1>4

\* A reply answers its call, a refusal none.
LEMMA ReplyAnswers ==
  ASSUME TypeOK, NEW i \in Ids, NEW with \in Allows \cup {"reject_once", "result"}
  PROVE  /\ Reply(i, with) => OnlyAnswers(requests', {i})
         /\ Refuse(i) => OnlyAnswers(requests', {})
<1>1. {i} \in SUBSET Ids /\ {} \in SUBSET Ids
  OBVIOUS
<1>2. /\ OnlyAnswers(Push(requests, Answer({i}, with, {})), {i})
      /\ OnlyAnswers(Push(requests, Answer({}, "result", {i})), {})
  BY <1>1, PushAnswers
<1>. QED BY <1>2 DEF Reply, Refuse

\* A step that sends no answer about what still waits, and makes nothing new wait.
LEMMA UntouchedStep ==
  ASSUME WaitingUntouched, UNCHANGED <<calls, bound>>, NEW D, OnlyAnswers(requests', D),
         \A x \in Ids : Waiting(x)' => Waiting(x) /\ x \notin D
  PROVE  WaitingUntouched'
BY DEF WaitingUntouched, Untouched, OnlyAnswers

\* Each call in the channel after a quiet step was there before.
LEMMA QuietEventsKeep ==
  ASSUME TypeOK, QuietEvents
  PROVE  \A k \in DOMAIN events' : events'[k].kind = "call" =>
           \E j \in DOMAIN events : events[j].kind = "call" /\ events[j].id = events'[k].id
<1>0. events \in Seq(Event)
  BY DEF TypeOK
<1>1. CASE events' = events
  BY <1>1
<1>2. CASE events # <<>> /\ events' = Tail(events)
  <2>1. \A k \in DOMAIN events' : k + 1 \in DOMAIN events /\ events'[k] = events[k + 1]
    BY <1>0, <1>2
  <2>. QED BY <2>1
<1>3. CASE \E e \in Event : e.kind # "call" /\ events' = Append(events, e)
  <2>1. PICK e \in Event : e.kind # "call" /\ events' = Append(events, e)
    BY <1>3
  <2>2. \A k \in DOMAIN events' : (k \in DOMAIN events /\ events'[k] = events[k]) \/ events'[k] = e
    BY <1>0, <2>1
  <2>. QED BY <2>1, <2>2
<1>. QED BY <1>1, <1>2, <1>3 DEF QuietEvents

\* The call that the loop takes was waiting there and nowhere else.
LEMMA TakenCall ==
  ASSUME ApprovalInv, HeldOK, NEW ks, AbsorbingCall(ks)
  PROVE  \E i \in Ids :
           /\ i = Head(events).id /\ calls[i].kind \in ks /\ i <= nextId
           /\ Waiting(i) /\ i # slot /\ i \notin creates \cup waits \cup reads
           /\ \A k \in DOMAIN events' : events'[k].kind = "call" => events'[k].id # i
<1>0. TypeOK /\ InPlayOK /\ events \in Seq(Event) /\ events # <<>> /\ events' = Tail(events)
  BY DEF ApprovalInv, TypeOK, AbsorbingCall, Absorbing
<1>. DEFINE i == Head(events).id
<1>1. i \in Ids /\ calls[i].kind \in ks
  BY <1>0, HeadCall DEF AbsorbingCall
<1>2. 1 \in DOMAIN events /\ events[1] = Head(events) /\ events[1].kind = "call"
  BY <1>0 DEF AbsorbingCall, Absorbing
<1>3. i # slot /\ i <= nextId
  BY <1>0, <1>2 DEF InPlayOK, Undecided
<1>4. i \notin creates \cup waits \cup reads /\ Waiting(i)
  BY <1>2 DEF HeldOK, HeldApart, Waiting
<1>5. \A k \in DOMAIN events' : k + 1 \in DOMAIN events /\ events'[k] = events[k + 1] /\ k + 1 # 1
  BY <1>0
<1>6. \A k \in DOMAIN events' : events'[k].kind = "call" => events'[k].id # i
  BY <1>0, <1>2, <1>5 DEF InPlayOK
<1>. QED BY <1>1, <1>3, <1>4, <1>6

\* A step that starts to hold nothing, and forgets or keeps what is held.
LEMMA HeldStep ==
  ASSUME ApprovalInv, HeldOK, UNCHANGED <<calls, nextId, bound>>, QuietEvents,
         slot' \in {slot, 0}, creates' \subseteq creates, waits' \subseteq waits, reads' \subseteq reads,
         NEW D, OnlyAnswers(requests', D), \A x \in D : x \in Ids => ~Waiting(x)'
  PROVE  HeldOK'
<1>0. TypeOK
  BY DEF ApprovalInv
<1>1. \A k \in DOMAIN events' : events'[k].kind = "call" =>
           \E j \in DOMAIN events : events[j].kind = "call" /\ events[j].id = events'[k].id
  BY <1>0, QuietEventsKeep
<1>2. HeldKinds'
  BY DEF HeldOK, HeldKinds
<1>3. HeldApart'
  <2>1. 0 \notin creates
    BY <1>0, IdsAreNumbers DEF TypeOK
  <2>. QED BY <1>1, <2>1 DEF HeldOK, HeldApart
<1>4. \A x \in Ids : Waiting(x)' => Waiting(x)
  BY <1>1, IdsAreNumbers DEF Waiting
<1>5. WaitingUntouched'
  BY <1>4, UntouchedStep DEF HeldOK
<1>. QED BY <1>2, <1>3, <1>5 DEF HeldOK

\* What the model waits for is not what it holds a prompt, a create or an event for.
LEMMA WaitsAreNotWaiting ==
  ASSUME ApprovalInv, HeldOK, NEW x \in waits \cup reads
  PROVE  x \in Ids /\ ~Waiting(x)
<1>0. TypeOK
  BY DEF ApprovalInv
<1>1. x \in Ids /\ x <= nextId /\ calls[x].kind \in {"wait", "read"}
  BY <1>0 DEF TypeOK, HeldOK, HeldKinds
<1>2. x \notin creates /\ x # slot
  BY <1>1, IdsAreNumbers DEF HeldOK, HeldKinds
<1>3. \A k \in DOMAIN events : events[k].kind = "call" => events[k].id # x
  BY DEF HeldOK, HeldApart
<1>4. ~(x > nextId)
  BY <1>0, <1>1, IdsAreNumbers DEF TypeOK
<1>. QED BY <1>1, <1>2, <1>3, <1>4 DEF Waiting

\* Nothing new is held, and no terminal that something waits on changes.
LEMMA WakeableStep ==
  ASSUME HeldCallsCanEnd, UNCHANGED calls, creates' \subseteq creates, waits' \subseteq waits,
         \A i \in creates' : terms'[i] = terms[i],
         \A w \in waits' : terms'[calls[w].terminal] = terms[calls[w].terminal]
  PROVE  HeldCallsCanEnd'
BY DEF HeldCallsCanEnd

----------------------------------------------------------------------------

\* A new call is held nowhere, and names no terminal but a live one.
LEMMA AdmitHeld ==
  ASSUME HeldInv, NEW c \in Call, Admit(c),
         c.terminal = 0 \/ (c.terminal \in Ids /\ bound[c.terminal] = "live"),
         c.kind \in Operations => c.terminal # 0
  PROVE  HeldOK' /\ HeldCallsCanEnd'
<1>0. TypeOK /\ InPlayOK /\ HeldKinds /\ HeldApart /\ WaitingUntouched /\ HeldCallsCanEnd
  BY DEF HeldInv, HeldOK, ApprovalInv
<1>1. PICK n \in Ids : n = nextId + 1 /\ nextId \in Nat
  BY <1>0, IdsAreNumbers DEF Admit, TypeOK, Ids
<1>2. /\ UNCHANGED <<terms, slot, bound, requests, creates, waits, reads>>
      /\ calls' = [calls EXCEPT ![n] = c] /\ nextId' = n
      /\ events' = Append(events, [kind |-> "call", session |-> c.session, id |-> n])
  BY <1>1 DEF Admit, Tell
<1>3. \A j \in Ids : calls'[j] = IF j = n THEN c ELSE calls[j]
  BY <1>0, <1>2 DEF TypeOK
<1>4. \A x \in creates \cup waits \cup reads : x \in Ids /\ x # n /\ x <= nextId /\ x <= n
  BY <1>0, <1>1, IdsAreNumbers DEF HeldKinds, TypeOK
<1>5. slot # n /\ slot \in {0} \cup Ids
  BY <1>0, <1>1, IdsAreNumbers DEF InPlayOK, Undecided, TypeOK
<1>6. [kind |-> "call", session |-> c.session, id |-> n] \in Event
  BY DEF Event, Call
<1>7. \A k \in DOMAIN events' : events'[k].kind = "call" =>
        \/ events'[k].id = n
        \/ \E j \in DOMAIN events : events[j].kind = "call" /\ events[j].id = events'[k].id
  <2>. DEFINE e == [kind |-> "call", session |-> c.session, id |-> n]
  <2>1. e \in Event /\ e.id = n /\ events \in Seq(Event)
    BY <1>0, <1>6 DEF TypeOK
  <2>2. events' = Append(events, e)
    BY <1>2
  <2>. HIDE DEF e
  <2>3. \A k \in DOMAIN events' : (k \in DOMAIN events /\ events'[k] = events[k]) \/ events'[k] = e
    BY <2>1, <2>2
  <2>. QED BY <2>1, <2>3
<1>8. HeldKinds'
  BY <1>0, <1>2, <1>3, <1>4, <1>5 DEF HeldKinds
<1>9. HeldApart'
  BY <1>0, <1>2, <1>4, <1>7 DEF HeldApart
<1>10. WaitingUntouched'
  <2>1. \A x \in Ids : Waiting(x)' => Waiting(x)
    BY <1>1, <1>2, <1>7, IdsAreNumbers DEF Waiting
  <2>2. \A x \in Ids : Untouched(x) => x # c.terminal
    BY IdsAreNumbers DEF Untouched
  <2>3. \A x \in Ids : Untouched(x) => Untouched(x)'
    BY <1>2, <1>3, <2>2 DEF Untouched
  <2>. QED BY <1>0, <2>1, <2>3 DEF WaitingUntouched
<1>11. HeldCallsCanEnd'
  BY <1>0, <1>2, <1>3, <1>4 DEF HeldCallsCanEnd
<1>. QED BY <1>8, <1>9, <1>10, <1>11 DEF HeldOK

\* Every call is admitted that way.
LEMMA AgentAsksHeld == ASSUME HeldInv, AgentAsks PROVE HeldOK' /\ HeldCallsCanEnd'
<1>0. TypeOK
  BY DEF HeldInv, ApprovalInv
<1>e. \A s \in 0..started : s \in Sessions /\ ended[s] \in Nat
  BY <1>0, StartedSessions
<1>1. ASSUME NEW s \in 0..started, AskRead(s) PROVE HeldOK' /\ HeldCallsCanEnd'
  <2>. DEFINE call == [NoCall EXCEPT !.kind = "read", !.session = s, !.turn = ended[s]]
  <2>1. call \in Call /\ call.kind \notin Operations /\ call.terminal = 0
    BY <1>e, <1>1 DEF AskRead, NoCall, Call, Operations
  <2>2. Admit(call)
    BY <1>1 DEF AskRead
  <2>. HIDE DEF call
  <2>. QED BY <2>1, <2>2, AdmitHeld
<1>2. ASSUME NEW s \in 0..started, NEW c \in Commands \cup {NoCommand}, NEW offer \in Offers,
             AskPermission(s, c, offer)
      PROVE HeldOK' /\ HeldCallsCanEnd'
  <2>. DEFINE call == [NoCall EXCEPT !.kind = "permission", !.session = s, !.command = c,
                                     !.options = offer, !.turn = ended[s]]
  <2>1. call \in Call /\ call.kind \notin Operations /\ call.terminal = 0
    BY <1>e, <1>2 DEF AskPermission, NoCall, Call, Operations
  <2>2. Admit(call)
    BY <1>2 DEF AskPermission
  <2>. HIDE DEF call
  <2>. QED BY <2>1, <2>2, AdmitHeld
<1>3. ASSUME NEW s \in 0..started, NEW c \in Commands, AskCreate(s, c)
      PROVE HeldOK' /\ HeldCallsCanEnd'
  <2>1. PICK grant \in IF Covering(s, c) = {} THEN {0} ELSE Covering(s, c) :
          Admit([NoCall EXCEPT !.kind = "create", !.session = s, !.command = c,
                               !.grant = grant, !.turn = ended[s]])
    BY <1>3 DEF AskCreate
  <2>2. grant \in {0} \cup Ids
    BY <1>0 DEF Covering, TypeOK
  <2>. DEFINE call == [NoCall EXCEPT !.kind = "create", !.session = s, !.command = c,
                                     !.grant = grant, !.turn = ended[s]]
  <2>3. call \in Call /\ call.kind \notin Operations /\ call.terminal = 0
    BY <1>e, <1>3, <2>2 DEF AskCreate, NoCall, Call, Operations
  <2>4. Admit(call)
    BY <2>1
  <2>. HIDE DEF call
  <2>. QED BY <2>3, <2>4, AdmitHeld
<1>4. ASSUME NEW k \in Kinds, NEW t \in Ids, AskTerminal(k, t)
      PROVE HeldOK' /\ HeldCallsCanEnd'
  <2>0. calls[t].session \in Sessions
    BY <1>0 DEF TypeOK, Call
  <2>. DEFINE call == [NoCall EXCEPT !.kind = k, !.session = calls[t].session, !.terminal = t,
                                     !.turn = ended[calls[t].session]]
  <2>1. call \in Call /\ call.terminal = t
    BY <1>0, <2>0 DEF TypeOK, NoCall, Call
  <2>2. Admit(call) /\ bound[t] = "live" /\ t # 0
    BY <1>4, IdsAreNumbers DEF AskTerminal
  <2>. HIDE DEF call
  <2>. QED BY <2>1, <2>2, AdmitHeld
<1>. QED BY <1>1, <1>2, <1>3, <1>4 DEF AgentAsks

\* A terminal is bound by the answer to its create, which is not under way for a call
\* that waits; and it is released by a call about it.
LEMMA EncodeHeld == ASSUME HeldInv, Encode PROVE HeldOK' /\ HeldCallsCanEnd'
<1>0. TypeOK /\ HeldOK /\ HeldCallsCanEnd /\ requests \in Seq(Request) /\ requests # <<>>
  BY DEF HeldInv, ApprovalInv, TypeOK, Encode
<1>. DEFINE m == Head(requests)
<1>1. m = requests[1] /\ 1 \in DOMAIN requests /\ m \in Request
  BY <1>0
<1>2. /\ \A k \in DOMAIN requests' : k + 1 \in DOMAIN requests /\ requests'[k] = requests[k + 1]
      /\ UNCHANGED <<calls, nextId, events, slot, creates, waits, reads, terms>>
  BY <1>0 DEF Encode
<1>3. \A x \in Ids : Untouched(x) => bound'[x] = "none"
  <2>1. CASE EncodeAnswer(m)
    <3>1. Open(m) \subseteq Ids
      BY <1>1 DEF Open, Request
    <3>2. ASSUME NEW x \in Ids, Untouched(x) PROVE bound'[x] = "none"
      <4>1. x \notin m.ids /\ \A i \in Ids : calls[i].terminal # x
        BY <1>1, <3>2 DEF Untouched
      <4>2. bound'[x] = bound[x]
        BY <2>1, <3>1, <4>1 DEF EncodeAnswer
      <4>. QED BY <3>2, <4>2 DEF Untouched
    <3>. QED BY <3>2
  <2>2. CASE EncodeAsk(m)
    BY <2>2 DEF EncodeAsk, Untouched
  <2>. QED BY <2>1, <2>2 DEF Encode
<1>4. \A x \in Ids : Untouched(x) => Untouched(x)'
  BY <1>2, <1>3 DEF Untouched
<1>5. WaitingUntouched'
  BY <1>0, <1>2, <1>4 DEF HeldOK, WaitingUntouched, Waiting
<1>6. HeldKinds' /\ HeldApart' /\ HeldCallsCanEnd'
  BY <1>0, <1>2 DEF HeldOK, HeldKinds, HeldApart, HeldCallsCanEnd
<1>. QED BY <1>5, <1>6 DEF HeldOK

\* A read is served, refused or held.
LEMMA ReadHeld == ASSUME HeldInv, OnRead PROVE HeldOK' /\ HeldCallsCanEnd'
<1>0. ApprovalInv /\ TypeOK /\ HeldOK /\ HeldCallsCanEnd /\ QuietEvents
  BY DEF HeldInv, ApprovalInv, OnRead, AbsorbingCall, Absorbing, QuietEvents
<1>1. PICK i \in Ids :
        /\ i = Head(events).id /\ calls[i].kind = "read" /\ i <= nextId
        /\ Waiting(i) /\ i # slot /\ i \notin creates \cup waits \cup reads
        /\ \A k \in DOMAIN events' : events'[k].kind = "call" => events'[k].id # i
  BY <1>0, TakenCall DEF OnRead
<1>2. /\ UNCHANGED <<calls, nextId, bound, slot, creates, waits, terms>>
      /\ reads' = reads \/ (reads' = reads \cup {i} /\ UNCHANGED requests)
  BY <1>1 DEF OnRead
<1>3. ~Waiting(i)'
  BY <1>0, <1>1, <1>2, IdsAreNumbers DEF Waiting, TypeOK
<1>4. OnlyAnswers(requests', {i})
  <2>1. Reply(i, "result") \/ Refuse(i) \/ UNCHANGED requests
    BY <1>1 DEF OnRead
  <2>. QED BY <1>0, <2>1, ReplyAnswers, PushAnswers DEF OnlyAnswers
<1>5. HeldOK'
  <2>1. CASE reads' = reads
    BY <1>0, <1>2, <1>3, <1>4, <2>1, HeldStep
  <2>2. CASE reads' = reads \cup {i} /\ UNCHANGED requests
    <3>1. \A k \in DOMAIN events' : events'[k].kind = "call" =>
            \E j \in DOMAIN events : events[j].kind = "call" /\ events[j].id = events'[k].id
      BY <1>0, QuietEventsKeep
    <3>2. HeldKinds' /\ HeldApart'
      BY <1>0, <1>1, <1>2, <2>2, <3>1 DEF HeldOK, HeldKinds, HeldApart
    <3>3. WaitingUntouched'
      BY <1>0, <1>2, <2>2, <3>1 DEF HeldOK, WaitingUntouched, Waiting, Untouched
    <3>. QED BY <3>2, <3>3 DEF HeldOK
  <2>. QED BY <1>2, <2>1, <2>2
<1>6. HeldCallsCanEnd'
  BY <1>0, <1>2, WakeableStep
<1>. QED BY <1>5, <1>6

\* A permission request moves to the prompt, or is answered.
LEMMA PermissionHeld == ASSUME HeldInv, OnPermission PROVE HeldOK' /\ HeldCallsCanEnd'
<1>0. ApprovalInv /\ TypeOK /\ HeldOK /\ HeldCallsCanEnd /\ QuietEvents
  BY DEF HeldInv, ApprovalInv, OnPermission, AbsorbingCall, Absorbing, QuietEvents
<1>1. PICK i \in Ids :
        /\ i = Head(events).id /\ calls[i].kind = "permission" /\ i <= nextId
        /\ Waiting(i) /\ i # slot /\ i \notin creates \cup waits \cup reads
        /\ \A k \in DOMAIN events' : events'[k].kind = "call" => events'[k].id # i
  BY <1>0, TakenCall DEF OnPermission
<1>2. UNCHANGED <<calls, nextId, bound, creates, waits, reads, terms>>
  BY DEF OnPermission
<1>3. \/ slot' = i /\ UNCHANGED requests
      \/ slot' = slot /\ Reply(i, "reject_once")
  BY <1>1 DEF OnPermission
<1>4. HeldOK'
  <2>1. CASE slot' = i /\ UNCHANGED requests
    <3>1. \A k \in DOMAIN events' : events'[k].kind = "call" =>
            \E j \in DOMAIN events : events[j].kind = "call" /\ events[j].id = events'[k].id
      BY <1>0, QuietEventsKeep
    <3>2. HeldKinds' /\ HeldApart'
      BY <1>0, <1>1, <1>2, <2>1, <3>1 DEF HeldOK, HeldKinds, HeldApart
    <3>3. WaitingUntouched'
      BY <1>0, <1>1, <1>2, <2>1, <3>1 DEF HeldOK, WaitingUntouched, Waiting, Untouched
    <3>. QED BY <3>2, <3>3 DEF HeldOK
  <2>2. CASE slot' = slot /\ Reply(i, "reject_once")
    <3>1. ~Waiting(i)'
      BY <1>0, <1>1, <1>2, <2>2, IdsAreNumbers DEF Waiting, TypeOK
    <3>2. OnlyAnswers(requests', {i})
      BY <1>0, <2>2, ReplyAnswers
    <3>. QED BY <1>0, <1>2, <2>2, <3>1, <3>2, HeldStep
  <2>. QED BY <1>3, <2>1, <2>2
<1>5. HeldCallsCanEnd'
  BY <1>0, <1>2, WakeableStep
<1>. QED BY <1>4, <1>5

\* A spawned create is held, with a terminal that is starting.
LEMMA SpawnHeld ==
  ASSUME HeldInv, NEW i \in Ids, Spawn(i), UNCHANGED <<calls, nextId, bound, waits, reads, requests>>,
         calls[i].kind = "create", i <= nextId, Waiting(i), QuietEvents, slot' \in {slot, 0}, slot' # i,
         \A k \in DOMAIN events' : events'[k].kind = "call" => events'[k].id # i
  PROVE  HeldOK' /\ HeldCallsCanEnd'
<1>0. ApprovalInv /\ TypeOK /\ HeldOK /\ HeldCallsCanEnd
  BY DEF HeldInv, ApprovalInv
<1>1. creates' = creates \cup {i}
  BY DEF Spawn
<1>2. \A k \in DOMAIN events' : events'[k].kind = "call" =>
        \E j \in DOMAIN events : events[j].kind = "call" /\ events[j].id = events'[k].id
  BY <1>0, QuietEventsKeep
<1>3. HeldKinds' /\ HeldApart'
  <2>1. 0 \notin creates \cup {i}
    BY <1>0, IdsAreNumbers DEF TypeOK
  <2>. QED BY <1>0, <1>1, <1>2, <2>1 DEF HeldOK, HeldKinds, HeldApart
<1>4. WaitingUntouched'
  BY <1>0, <1>1, <1>2, IdsAreNumbers DEF HeldOK, WaitingUntouched, Waiting, Untouched
<1>5. HeldCallsCanEnd'
  <2>1. [NoTerm EXCEPT !.status = "starting"].status = "starting"
        /\ ~[NoTerm EXCEPT !.status = "starting"].released
    BY DEF NoTerm
  <2>2. terms' = [terms EXCEPT ![i] = [NoTerm EXCEPT !.status = "starting"]]
    BY DEF Spawn
  <2>3. \A w \in waits : calls[w].terminal \in Ids
    BY <1>0 DEF HeldOK, HeldKinds, TypeOK, Operations
  <2>4. \A t \in Ids : terms'[t] = IF t = i THEN [NoTerm EXCEPT !.status = "starting"]
                                            ELSE terms[t]
    BY <1>0, SpawnEffect
  <2>5. creates \subseteq Ids
    BY <1>0 DEF TypeOK
  <2>. HIDE DEF NoTerm
  <2>6. \A x \in creates' : terms'[x].status = "starting" /\ ~terms'[x].released
    BY <1>0, <1>1, <2>1, <2>4, <2>5 DEF HeldCallsCanEnd
  <2>7. \A w \in waits' : /\ terms'[calls[w].terminal].status \in {"starting", "running"}
                          /\ ~terms'[calls[w].terminal].released
    BY <1>0, <2>1, <2>3, <2>4 DEF HeldCallsCanEnd
  <2>. QED BY <2>6, <2>7 DEF HeldCallsCanEnd
<1>. QED BY <1>3, <1>4, <1>5 DEF HeldOK

\* A create is refused, waits for the human, or starts a terminal.
LEMMA CreateHeld == ASSUME HeldInv, OnCreate PROVE HeldOK' /\ HeldCallsCanEnd'
<1>0. ApprovalInv /\ TypeOK /\ HeldOK /\ HeldCallsCanEnd /\ QuietEvents
  BY DEF HeldInv, ApprovalInv, OnCreate, AbsorbingCall, Absorbing, QuietEvents
<1>1. PICK i \in Ids :
        /\ i = Head(events).id /\ calls[i].kind = "create" /\ i <= nextId
        /\ Waiting(i) /\ i # slot /\ i \notin creates \cup waits \cup reads
        /\ \A k \in DOMAIN events' : events'[k].kind = "call" => events'[k].id # i
  BY <1>0, TakenCall DEF OnCreate
<1>2. UNCHANGED <<calls, nextId, bound, waits, reads>>
  BY DEF OnCreate
<1>3. \/ Refuse(i) /\ UNCHANGED <<slot, creates, terms>>
      \/ slot' = i /\ UNCHANGED <<requests, creates, terms>>
      \/ Spawn(i) /\ UNCHANGED <<slot, requests>>
  BY <1>1 DEF OnCreate
<1>4. CASE Refuse(i) /\ UNCHANGED <<slot, creates, terms>>
  <2>1. OnlyAnswers(requests', {})
    BY <1>0, <1>4, ReplyAnswers
  <2>2. HeldOK'
    BY <1>0, <1>2, <1>4, <2>1, HeldStep
  <2>. QED BY <1>0, <1>2, <1>4, <2>2, WakeableStep
<1>5. CASE slot' = i /\ UNCHANGED <<requests, creates, terms>>
  <2>1. \A k \in DOMAIN events' : events'[k].kind = "call" =>
          \E j \in DOMAIN events : events[j].kind = "call" /\ events[j].id = events'[k].id
    BY <1>0, QuietEventsKeep
  <2>2. HeldKinds' /\ HeldApart'
    BY <1>0, <1>1, <1>2, <1>5, <2>1 DEF HeldOK, HeldKinds, HeldApart
  <2>3. WaitingUntouched'
    BY <1>0, <1>1, <1>2, <1>5, <2>1 DEF HeldOK, WaitingUntouched, Waiting, Untouched
  <2>. QED BY <1>0, <1>2, <1>5, <2>2, <2>3, WakeableStep DEF HeldOK
<1>6. CASE Spawn(i) /\ UNCHANGED <<slot, requests>>
  BY <1>0, <1>1, <1>2, <1>6, SpawnHeld
<1>. QED BY <1>3, <1>4, <1>5, <1>6

\* What is done to a terminal wakes the waits on it, and no create holds one that the
\* agent can name.
LEMMA OperationHeld == ASSUME HeldInv, OnOperation PROVE HeldOK' /\ HeldCallsCanEnd'
<1>0. ApprovalInv /\ TypeOK /\ HeldOK /\ HeldCallsCanEnd /\ QuietEvents
  BY DEF HeldInv, ApprovalInv, OnOperation, AbsorbingCall, Absorbing, QuietEvents
<1>1. PICK i \in Ids :
        /\ i = Head(events).id /\ calls[i].kind \in Operations /\ i <= nextId
        /\ Waiting(i) /\ i # slot /\ i \notin creates \cup waits \cup reads
        /\ \A k \in DOMAIN events' : events'[k].kind = "call" => events'[k].id # i
  BY <1>0, TakenCall DEF OnOperation, Operations
<1>2. PICK t \in Ids : t = calls[i].terminal
  BY <1>0, <1>1 DEF HeldOK, HeldKinds
<1>3. UNCHANGED <<calls, nextId, bound, slot, creates, reads>>
  BY DEF OnOperation
<1>4. ~Waiting(i)'
  BY <1>0, <1>1, <1>3, IdsAreNumbers DEF Waiting, TypeOK
<1>5. \A w \in WaitsOn(t) : w \in Ids /\ ~Waiting(w)'
  <2>1. \A k \in DOMAIN events' : events'[k].kind = "call" =>
          \E j \in DOMAIN events : events[j].kind = "call" /\ events[j].id = events'[k].id
    BY <1>0, QuietEventsKeep
  <2>2. \A w \in waits : w \in Ids /\ ~Waiting(w)
    BY <1>0, WaitsAreNotWaiting
  <2>. QED BY <1>3, <2>1, <2>2 DEF WaitsOn, Waiting
<1>6. {i} \in SUBSET Ids /\ {} \in SUBSET Ids /\ WaitsOn(t) \in SUBSET Ids /\ WaitsOn(t) \cup {i} \in SUBSET Ids
  BY <1>5
<1>7. OnlyAnswers(requests', WaitsOn(t) \cup {i})
  <2>1. \/ UNCHANGED requests
        \/ \E ids \in SUBSET (WaitsOn(t) \cup {i}), errors \in SUBSET Ids :
             requests' = Push(requests, Answer(ids, "result", errors))
    BY <1>1, <1>2, <1>6 DEF OnOperation, Reply, Refuse
  <2>2. ASSUME NEW ids \in SUBSET (WaitsOn(t) \cup {i}), NEW errors \in SUBSET Ids,
               requests' = Push(requests, Answer(ids, "result", errors))
        PROVE  OnlyAnswers(requests', WaitsOn(t) \cup {i})
    <3>1. ids \in SUBSET Ids
      BY <1>6
    <3>2. OnlyAnswers(requests', ids)
      BY <1>0, <2>2, <3>1, PushAnswers
    <3>. QED BY <3>2 DEF OnlyAnswers
  <2>3. UNCHANGED requests => OnlyAnswers(requests', WaitsOn(t) \cup {i})
    BY DEF OnlyAnswers
  <2>. QED BY <2>1, <2>2, <2>3
<1>8. \/ waits' \subseteq waits /\ UNCHANGED terms
      \/ /\ waits' = waits \cup {i} /\ UNCHANGED <<terms, requests>>
         /\ calls[i].kind = "wait" /\ Usable(session, t)
         /\ terms[t].status \notin {"exited", "broken", "failed"}
      \/ waits' = waits \ WaitsOn(t) /\ terms' = [terms EXCEPT ![t].released = TRUE]
  BY <1>1, <1>2 DEF OnOperation
<1>9. CASE waits' \subseteq waits /\ UNCHANGED terms
  <2>1. HeldOK'
    BY <1>0, <1>3, <1>4, <1>5, <1>7, <1>9, HeldStep
  <2>. QED BY <1>0, <1>3, <1>9, <2>1, WakeableStep
<1>10. CASE /\ waits' = waits \cup {i} /\ UNCHANGED <<terms, requests>>
            /\ calls[i].kind = "wait" /\ Usable(session, t)
            /\ terms[t].status \notin {"exited", "broken", "failed"}
  <2>1. \A k \in DOMAIN events' : events'[k].kind = "call" =>
          \E j \in DOMAIN events : events[j].kind = "call" /\ events[j].id = events'[k].id
    BY <1>0, QuietEventsKeep
  <2>2. HeldKinds' /\ HeldApart'
    BY <1>0, <1>1, <1>3, <1>10, <2>1 DEF HeldOK, HeldKinds, HeldApart
  <2>3. WaitingUntouched'
    BY <1>0, <1>3, <1>10, <2>1 DEF HeldOK, WaitingUntouched, Waiting, Untouched
  <2>4. terms[t].status \in {"starting", "running"} /\ ~terms[t].released
    BY <1>0, <1>10 DEF Usable, TypeOK, Term
  <2>5. HeldCallsCanEnd'
    BY <1>0, <1>2, <1>3, <1>10, <2>4 DEF HeldCallsCanEnd
  <2>. QED BY <2>2, <2>3, <2>5 DEF HeldOK
<1>11. CASE waits' = waits \ WaitsOn(t) /\ terms' = [terms EXCEPT ![t].released = TRUE]
  <2>1. HeldOK'
    BY <1>0, <1>3, <1>4, <1>5, <1>7, <1>11, HeldStep
  <2>2. t \notin creates
    BY <1>2 , <1>0 DEF HeldOK, WaitingUntouched, Waiting, Untouched
  <2>3. \A u \in Ids : u # t => terms'[u] = terms[u]
    BY <1>0, <1>11 DEF TypeOK
  <2>4. \A w \in waits' : calls[w].terminal \in Ids /\ calls[w].terminal # t
    BY <1>0, <1>11 DEF HeldOK, HeldKinds, TypeOK, Operations, WaitsOn
  <2>5. creates' \subseteq Ids
    BY <1>0, <1>3 DEF TypeOK
  <2>6. \A x \in creates' : x \in Ids /\ x # t
    BY <1>3, <2>2, <2>5
  <2>. QED BY <1>0, <1>3, <1>11, <2>1, <2>3, <2>4, <2>6, WakeableStep
<1>. QED BY <1>8, <1>9, <1>10, <1>11

\* Cancelling forgets every call that waits on what it releases.
LEMMA CancelWakeable ==
  ASSUME HeldInv, UNCHANGED calls, NEW s, CancelTerminals(s)
  PROVE  HeldCallsCanEnd'
<1>0. TypeOK /\ HeldOK /\ HeldCallsCanEnd
  BY DEF HeldInv, ApprovalInv
<1>1. /\ creates' = creates \ Cancelled(s) /\ waits' = waits \ Cancelled(s)
      /\ \A t \in Ids : ~Usable(s, t) => terms'[t] = terms[t]
  BY DEF CancelTerminals
<1>2. \A i \in creates' : i \in Ids /\ ~Usable(s, i)
  BY <1>0, <1>1 DEF Cancelled, Usable, TypeOK
<1>3. \A w \in waits' : calls[w].terminal \in Ids /\ ~Usable(s, calls[w].terminal)
  BY <1>0, <1>1 DEF Cancelled, HeldOK, HeldKinds, TypeOK, Operations
<1>4. creates' \subseteq creates /\ waits' \subseteq waits
  BY <1>1
<1>. QED BY <1>0, <1>1, <1>2, <1>3, <1>4, WakeableStep

\* The end of a session or of a turn cancels with errors, and a question is no answer.
LEMMA SessionsHeld ==
  ASSUME HeldInv, OnSessionStarted \/ OnTurnEnded \/ OnCancelledOrFailed
  PROVE  HeldOK' /\ HeldCallsCanEnd'
<1>0. ApprovalInv /\ TypeOK /\ HeldOK /\ HeldCallsCanEnd
  BY DEF HeldInv, ApprovalInv
<1>1. /\ UNCHANGED <<calls, nextId, bound>> /\ slot' \in {slot, 0} /\ QuietEvents
      /\ \/ UNCHANGED held
         \/ \E s : CancelTerminals(s)
  BY DEF OnSessionStarted, OnTurnEnded, OnCancelledOrFailed, Absorbing, QuietEvents
<1>2. creates' \subseteq creates /\ waits' \subseteq waits /\ reads' \subseteq reads
  BY <1>1 DEF CancelTerminals
<1>3. OnlyAnswers(requests', {})
  <2>1. \A s : Cancelled(s) \in SUBSET Ids
    BY <1>0 DEF Cancelled, TypeOK
  <2>2. \A s : /\ Answer({}, "result", Cancelled(s)) \in Request
               /\ Answer({}, "result", Cancelled(s)).ids = {}
    BY <2>1, MessageTypes DEF Answer
  <2>3. CASE OnTurnEnded
    BY <2>3 DEF OnTurnEnded, OnlyAnswers
  <2>4. CASE OnCancelledOrFailed
    <3>1. requests' = Push(requests, Answer({}, "result", Cancelled(Head(events).session)))
      BY <2>4 DEF OnCancelledOrFailed
    <3>. QED BY <1>0, <2>1, <3>1, PushAnswers
  <2>5. CASE OnSessionStarted
    <3>. DEFINE told == IF session = 0 THEN requests
                        ELSE Push(requests, Answer({}, "result", Cancelled(session)))
    <3>1. OnlyAnswers(told, {}) /\ told \in Seq(Request)
      <4>1. OnlyAnswers(Push(requests, Answer({}, "result", Cancelled(session))), {})
        BY <1>0, <2>1, PushAnswers
      <4>2. Push(requests, Answer({}, "result", Cancelled(session))) \in Seq(Request)
        BY <1>0, <2>2, PushEffect DEF TypeOK
      <4>. QED BY <1>0, <4>1, <4>2 DEF OnlyAnswers, TypeOK
    <3>. HIDE DEF told
    <3>2. Head(events).session \in Sessions
      <4>1. Head(events) \in Event
        BY <1>0, <2>5, AbsorbType DEF OnSessionStarted, Absorbing, TypeOK
      <4>. QED BY <4>1 DEF Event
    <3>3. requests' = told \/ requests' = Push(told, Ask("prompt", Head(events).session))
      BY <2>5 DEF OnSessionStarted, told
    <3>4. /\ Ask("prompt", Head(events).session) \in Request
          /\ Ask("prompt", Head(events).session).ids = {}
      BY <3>2, MessageTypes DEF Ask, Debts
    <3>. DEFINE m == Ask("prompt", Head(events).session)
    <3>. HIDE DEF m
    <3>5. m \in Request /\ m.ids = {} /\ (requests' = told \/ requests' = Push(told, m))
      BY <3>3, <3>4 DEF m
    <3>6. \A k \in DOMAIN Push(told, m) :
            Push(told, m)[k] = m \/ \E j \in DOMAIN told : Push(told, m)[k] = told[j]
      BY <3>1, <3>5, PushEffect
    <3>. QED BY <3>1, <3>5, <3>6 DEF OnlyAnswers
  <2>. QED BY <2>3, <2>4, <2>5
<1>4. HeldOK'
  BY <1>0, <1>1, <1>2, <1>3, HeldStep
<1>5. HeldCallsCanEnd'
  <2>1. CASE UNCHANGED held
    BY <1>0, <1>1, <2>1, WakeableStep
  <2>2. CASE \E s : CancelTerminals(s)
    BY <1>1, <2>2, CancelWakeable
  <2>. QED BY <1>1, <2>1, <2>2
<1>. QED BY <1>4, <1>5

\* The PTY and the human: whoever changes a terminal answers those who wait on it.
LEMMA TerminalHeld ==
  ASSUME HeldInv, NEW t \in Ids, UNCHANGED <<calls, nextId, bound, slot, reads, events>>,
         \A u \in Ids : u # t => terms'[u] = terms[u],
         NEW ids, ids \subseteq (creates \cap {t}) \cup WaitsOn(t), OnlyAnswers(requests', ids),
         creates' \subseteq creates, waits' \subseteq waits,
         \A x \in ids : x \notin creates' \cup waits',
         t \in creates' => terms'[t] = terms[t],
         \A w \in waits' : calls[w].terminal = t =>
           terms'[t].status \in {"starting", "running"} /\ ~terms'[t].released
  PROVE  HeldOK' /\ HeldCallsCanEnd'
<1>0. ApprovalInv /\ TypeOK /\ HeldOK /\ HeldCallsCanEnd
  BY DEF HeldInv, ApprovalInv
<1>1. QuietEvents
  BY DEF QuietEvents
<1>2. \A x \in ids : x \in Ids => ~Waiting(x)'
  <2>1. ASSUME NEW x \in ids, x \in Ids PROVE ~Waiting(x)'
    <3>1. CASE x \in waits
      <4>1. ~Waiting(x)
        BY <1>0, <3>1, WaitsAreNotWaiting
      <4>. QED BY <4>1 DEF Waiting
    <3>2. CASE x \in creates /\ x \notin creates'
      <4>1. x <= nextId /\ x # slot /\ nextId \in Nat
        BY <1>0, <3>2 DEF HeldOK, HeldKinds, HeldApart, TypeOK
      <4>2. \A k \in DOMAIN events : events[k].kind = "call" => events[k].id # x
        BY <1>0, <3>2 DEF HeldOK, HeldApart
      <4>3. x \in Nat /\ ~(x > nextId)
        BY <2>1, <4>1, IdsAreNumbers
      <4>4. slot' = slot /\ nextId' = nextId /\ events' = events
        OBVIOUS
      <4>. QED BY <3>2, <4>1, <4>2, <4>3, <4>4 DEF Waiting
    <3>. QED BY <2>1, <3>1, <3>2 DEF WaitsOn
  <2>. QED BY <2>1
<1>3. HeldOK'
  BY <1>0, <1>1, <1>2, HeldStep
<1>4. \A w \in waits' : calls[w].terminal \in Ids
  BY <1>0 DEF HeldOK, HeldKinds, TypeOK, Operations
<1>5. \A x \in creates' : x \in Ids /\ terms'[x] = terms[x]
  BY <1>0 DEF TypeOK
<1>6. HeldCallsCanEnd'
  BY <1>0, <1>4, <1>5 DEF HeldCallsCanEnd
<1>. QED BY <1>3, <1>6

\* What the PTY reports wakes the waits it ends.
LEMMA ReportsHeld ==
  ASSUME HeldInv, NEW t \in Ids, Spawned(t) \/ Exited(t) \/ PtyFailed(t)
  PROVE  HeldOK' /\ HeldCallsCanEnd'
<1>0. TypeOK /\ HeldCallsCanEnd /\ WaitsOn(t) \in SUBSET Ids /\ creates \cap {t} \in SUBSET Ids
  BY WaitsOnType DEF HeldInv, ApprovalInv, TypeOK
<1>1. PICK before \in {{"starting"}, {"running"}, {"running", "broken"}},
           after \in {"running", "broken", "failed", "exited"} : PtyEvent(t, before, after)
  BY DEF Spawned, Exited, PtyFailed
<1>2. /\ UNCHANGED <<calls, nextId, bound, slot, reads, events>>
      /\ \A u \in Ids : u # t => terms'[u] = terms[u]
      /\ terms[t].status \in before /\ ~terms[t].released
      /\ terms'[t].status = after /\ terms'[t].released = terms[t].released
  BY <1>0, <1>1 DEF PtyEvent, TypeOK, Term
<1>3. CASE Spawned(t)
  <2>1. /\ creates' = creates \ {t} /\ waits' = waits /\ terms'[t].status = "running"
        /\ OnlyAnswers(requests', creates \cap {t})
    <3>1. OnlyAnswers(requests', creates \cap {t})
      BY <1>0, <1>3, PushAnswers DEF Spawned
    <3>. QED BY <1>0, <1>3, <3>1 DEF Spawned, PtyEvent, TypeOK, Term
  <2>2. \A x \in creates \cap {t} : x \notin waits
    BY DEF HeldInv, HeldOK, HeldKinds
  <2>. QED BY <1>2, <2>1, <2>2, TerminalHeld
<1>4. CASE Exited(t)
  <2>1. /\ creates' = creates /\ waits' = waits \ WaitsOn(t)
        /\ OnlyAnswers(requests', WaitsOn(t)) /\ terms[t].status # "starting"
    <3>1. OnlyAnswers(requests', WaitsOn(t))
      BY <1>0, <1>4, PushAnswers DEF Exited
    <3>. QED BY <1>4, <3>1 DEF Exited, PtyEvent
  <2>2. t \notin creates
    BY <1>0, <2>1 DEF HeldCallsCanEnd
  <2>3. \A x \in WaitsOn(t) : x \notin creates
    BY DEF HeldInv, HeldOK, HeldKinds, WaitsOn
  <2>4. \A w \in waits' : calls[w].terminal # t
    BY <2>1 DEF WaitsOn
  <2>. QED BY <1>2, <2>1, <2>2, <2>3, <2>4, TerminalHeld
<1>5. CASE PtyFailed(t)
  <2>1. /\ creates' = creates \ {t} /\ waits' = waits \ WaitsOn(t)
        /\ OnlyAnswers(requests', {})
    <3>1. (creates \cap {t}) \cup WaitsOn(t) \in SUBSET Ids
      BY <1>0
    <3>2. OnlyAnswers(requests', {})
      BY <1>0, <1>5, <3>1, PushAnswers DEF PtyFailed
    <3>. QED BY <1>5, <3>2 DEF PtyFailed
  <2>4. \A w \in waits' : calls[w].terminal # t
    BY <2>1 DEF WaitsOn
  <2>. QED BY <1>2, <2>1, <2>4, TerminalHeld
<1>. QED BY <1>3, <1>4, <1>5

\* So does closing a terminal, or starting it again.
LEMMA CloseHeld ==
  ASSUME HeldInv, NEW t \in Ids, CloseTerminal(t) \/ RestartTerminal(t)
  PROVE  HeldOK' /\ HeldCallsCanEnd'
<1>0. TypeOK /\ WaitsOn(t) \in SUBSET Ids /\ (creates \cap {t}) \cup WaitsOn(t) \in SUBSET Ids
  BY WaitsOnType DEF HeldInv, ApprovalInv, TypeOK
<1>1. /\ UNCHANGED <<calls, nextId, bound, slot, reads, events>>
      /\ \A u \in Ids : u # t => terms'[u] = terms[u]
      /\ waits' = waits \ WaitsOn(t)
      /\ creates' = creates \ {t}
      /\ OnlyAnswers(requests', {})
  <2>1. OnlyAnswers(requests', {})
    BY <1>0, PushAnswers DEF CloseTerminal, RestartTerminal
  <2>. QED BY <1>0, <2>1 DEF CloseTerminal, RestartTerminal, TypeOK
<1>2. \A w \in waits' : calls[w].terminal # t
  BY <1>1 DEF WaitsOn
<1>. QED BY <1>1, <1>2, TerminalHeld

\* A read that comes back is answered, once.
LEMMA FileReadHeld ==
  ASSUME HeldInv, NEW i \in Ids, FileRead(i)
  PROVE  HeldOK' /\ HeldCallsCanEnd'
<1>0. ApprovalInv /\ TypeOK /\ HeldOK /\ HeldCallsCanEnd /\ QuietEvents
  BY DEF HeldInv, ApprovalInv, FileRead, QuietEvents
<1>1. /\ UNCHANGED <<calls, nextId, bound, slot, events, creates, waits, terms>>
      /\ reads' \subseteq reads /\ i \in reads
  BY DEF FileRead
<1>2. OnlyAnswers(requests', {i})
  BY <1>0, ReplyAnswers DEF FileRead, OnlyAnswers
<1>3. ~Waiting(i)'
  <2>1. ~Waiting(i)
    BY <1>0, <1>1, WaitsAreNotWaiting
  <2>. QED BY <1>1, <2>1 DEF Waiting
<1>4. HeldOK'
  BY <1>0, <1>1, <1>2, <1>3, HeldStep
<1>. QED BY <1>0, <1>1, <1>4, WakeableStep

\* What the human decides leaves the prompt, for the wire or for a terminal.
LEMMA DecideHeld ==
  ASSUME HeldInv, NEW d \in Allows \cup {"reject_once"}, DecidePermission(d)
  PROVE  HeldOK' /\ HeldCallsCanEnd'
<1>0. ApprovalInv /\ TypeOK /\ InPlayOK /\ HeldOK /\ HeldCallsCanEnd /\ QuietEvents
  BY DEF HeldInv, ApprovalInv, DecidePermission, QuietEvents
<1>1. PICK i \in Ids : i = slot /\ i # 0
  BY <1>0 DEF DecidePermission, TypeOK
<1>2. slot' = 0 /\ UNCHANGED <<calls, nextId, bound, events, waits, reads>>
  BY DEF DecidePermission
<1>3. /\ i <= nextId /\ Waiting(i) /\ i \notin creates
      /\ \A k \in DOMAIN events : events[k].kind = "call" => events[k].id # i
  BY <1>0, <1>1 DEF InPlayOK, Undecided, Waiting, HeldOK, HeldApart
<1>4. \/ calls[i].kind = "permission" /\ Reply(i, d) /\ UNCHANGED <<creates, terms>>
      \/ calls[i].kind = "create" /\ Spawn(i) /\ UNCHANGED requests
      \/ calls[i].kind = "create" /\ Refuse(i) /\ UNCHANGED <<creates, terms>>
  BY <1>1 DEF DecidePermission
<1>5. CASE (Reply(i, d) \/ Refuse(i)) /\ UNCHANGED <<creates, terms>>
  <2>1. OnlyAnswers(requests', {i})
    BY <1>0, <1>5, ReplyAnswers DEF OnlyAnswers
  <2>2. ~Waiting(i)'
    BY <1>0, <1>1, <1>2, <1>3, <1>5, IdsAreNumbers DEF Waiting, TypeOK
  <2>3. HeldOK'
    BY <1>0, <1>2, <1>5, <2>1, <2>2, HeldStep
  <2>. QED BY <1>0, <1>2, <1>5, <2>3, WakeableStep
<1>6. CASE calls[i].kind = "create" /\ Spawn(i) /\ UNCHANGED requests
  BY <1>0, <1>1, <1>2, <1>3, <1>6, SpawnHeld
<1>. QED BY <1>4, <1>5, <1>6

\* The steps that hold nothing and answer nothing.
LEMMA QuietHeld ==
  ASSUME HeldInv, UNCHANGED <<calls, nextId, bound, slot, held>>, QuietEvents, OnlyAnswers(requests', {})
  PROVE  HeldOK' /\ HeldCallsCanEnd'
<1>0. ApprovalInv /\ HeldOK /\ HeldCallsCanEnd
  BY DEF HeldInv
<1>1. HeldOK'
  BY <1>0, HeldStep
<1>. QED BY <1>0, <1>1, WakeableStep

\* The agent's replies and its end, and what the human asks of it.
LEMMA AgentHeld ==
  ASSUME HeldInv,
         \/ Initialized \/ AgentExits
         \/ NewSession \/ SetMode \/ OpenAsk \/ CloseAsk \/ ConfirmAsk
         \/ \E k \in Debts, s \in Sessions, well \in {"ok", "cancelled", "error"} :
              AgentReplies(k, s, well)
  PROVE  HeldOK' /\ HeldCallsCanEnd'
<1>0. TypeOK
  BY DEF HeldInv, ApprovalInv
<1>e. \A k \in {"session", "turn", "cancelled", "failed"}, s \in Sessions :
        /\ [kind |-> k, session |-> s, id |-> 0] \in Event
        /\ [kind |-> k, session |-> s, id |-> 0].kind # "call"
  BY DEF Event
<1>1. CASE Initialized \/ OpenAsk \/ CloseAsk
  <2>1. UNCHANGED <<calls, nextId, bound, slot, held, events, requests>>
    BY <1>1 DEF Initialized, OpenAsk, CloseAsk
  <2>. QED BY <1>0, <2>1, QuietHeld, PushAnswers DEF QuietEvents
<1>2. CASE AgentExits
  <2>1. QuietEvents
    BY <1>2, <1>e, BoundsAreNumbers DEF AgentExits, Tell, QuietEvents, Sessions
  <2>2. OnlyAnswers(requests', {})
    BY <1>2 DEF AgentExits, OnlyAnswers
  <2>. QED BY <1>2, <2>1, <2>2, QuietHeld DEF AgentExits
<1>3. CASE NewSession \/ SetMode \/ ConfirmAsk
  <2>1. 0 \in Sessions /\ session \in Sessions /\ asking \subseteq Sessions
    BY <1>0, BoundsAreNumbers DEF Sessions, TypeOK
  <2>2. PICK k \in Debts, s \in Sessions : requests' = Push(requests, Ask(k, s))
    BY <1>3, <2>1 DEF NewSession, SetMode, ConfirmAsk, Debts
  <2>3. OnlyAnswers(requests', {})
    BY <1>0, <2>2, PushAnswers
  <2>4. UNCHANGED <<calls, nextId, bound, slot, held, events>>
    BY <1>3 DEF NewSession, SetMode, ConfirmAsk
  <2>. QED BY <2>3, <2>4, QuietHeld DEF QuietEvents
<1>4. ASSUME NEW k \in Debts, NEW s \in Sessions, NEW well \in {"ok", "cancelled", "error"},
             AgentReplies(k, s, well)
      PROVE  HeldOK' /\ HeldCallsCanEnd'
  <2>1. QuietEvents
    <3>1. CASE events' = events
      BY <3>1 DEF QuietEvents
    <3>2. CASE started < MaxSessions /\ events' = Tell("session", started + 1, 0)
      <4>1. started + 1 \in Sessions
        BY <1>0, <3>2, BoundsAreNumbers DEF TypeOK, Sessions
      <4>. QED BY <1>e, <3>2, <4>1 DEF Tell, QuietEvents
    <3>3. CASE \E e \in {"turn", "cancelled", "failed"} : events' = Tell(e, s, 0)
      BY <1>e, <3>3 DEF Tell, QuietEvents
    <3>. QED BY <1>4, <3>1, <3>2, <3>3 DEF AgentReplies
  <2>2. UNCHANGED <<calls, nextId, bound, slot, held, requests>>
    BY <1>4 DEF AgentReplies
  <2>. QED BY <1>0, <2>1, <2>2, QuietHeld, PushAnswers
<1>. QED BY <1>1, <1>2, <1>3, <1>4

\* Every step keeps the books on what is held.
LEMMA NextHeld == HeldInv /\ [Next]_vars => HeldInv'
<1>. SUFFICES ASSUME HeldInv, [Next]_vars PROVE HeldInv'
  OBVIOUS
<1>0. TypeOK /\ ApprovalInv'
  BY NextApproval DEF HeldInv, ApprovalInv
<1>. SUFFICES HeldOK' /\ HeldCallsCanEnd'
  BY <1>0 DEF HeldInv
<1>1. CASE AgentAsks
  BY <1>1, AgentAsksHeld
<1>2. CASE \/ Initialized \/ AgentExits
           \/ \E k \in Debts, s \in Sessions, well \in {"ok", "cancelled", "error"} :
                AgentReplies(k, s, well)
  BY <1>2, AgentHeld
<1>3. CASE Encode
  BY <1>3, EncodeHeld
<1>4. CASE Absorb
  BY <1>4, ReadHeld, PermissionHeld, CreateHeld, OperationHeld, SessionsHeld DEF Absorb
<1>5. CASE \E i \in Ids : FileRead(i) \/ Spawned(i) \/ Exited(i) \/ PtyFailed(i)
  BY <1>5, FileReadHeld, ReportsHeld
<1>6. CASE HumanDecides
  BY <1>6, DecideHeld DEF HumanDecides
<1>7. CASE HumanActs
  BY <1>7, AgentHeld, CloseHeld DEF HumanActs
<1>8. CASE UNCHANGED vars
  <2>1. OnlyAnswers(requests', {}) /\ QuietEvents
    BY <1>0, <1>8, PushAnswers DEF QuietEvents
  <2>2. UNCHANGED <<calls, nextId, bound, slot, held>>
    BY <1>8
  <2>. QED BY <2>1, <2>2, QuietHeld
<1>. QED BY <1>1, <1>2, <1>3, <1>4, <1>5, <1>6, <1>7, <1>8 DEF Next

\* Nothing is held at first.
LEMMA InitHeld == Init => HeldInv
<1>. SUFFICES ASSUME Init PROVE HeldInv
  OBVIOUS
<1>1. /\ creates = {} /\ waits = {} /\ reads = {} /\ slot = 0 /\ events = <<>> /\ requests = <<>>
      /\ \A i \in Ids : calls[i].kind = "none" /\ calls[i].terminal = 0 /\ bound[i] = "none"
  BY DEF Init, NoCall
<1>2. HeldKinds /\ HeldApart /\ HeldCallsCanEnd
  BY <1>1 DEF HeldKinds, HeldApart, HeldCallsCanEnd, Operations
<1>3. WaitingUntouched
  BY <1>1, IdsAreNumbers DEF WaitingUntouched, Untouched
<1>. QED BY <1>2, <1>3, InitApproval DEF HeldInv, HeldOK

\* The agent has no timeout: whatever the model holds for it, something that can still
\* happen will answer (on_pty_event, restart_terminal, remove_terminal,
\* cancel_agent_terminals).
THEOREM HeldCallsAreWoken == Spec => []HeldCallsCanEnd
<1>1. HeldInv => HeldCallsCanEnd
  BY DEF HeldInv
<1>. QED BY <1>1, InitHeld, NextHeld, PTL DEF Spec
=============================================================================
