----------------------------- MODULE WebChatProofs -----------------------------
(***************************************************************************)
(* Theorems about the Dashboard of the web client and its chat turns: the  *)
(* view settles on the server's state, no spinner outlives its request, a  *)
(* turn ends once, a message is sent again only if nothing of its stream   *)
(* was seen, and no text that came is left unpainted.                      *)
(***************************************************************************)
EXTENDS WebChat, ListLemmas

ChatSpec == DashInit /\ ChatInit /\ [][ChatNext]_allVars

----------------------------------------------------------------------------
(* Types. *)

EventTypes == {"hello", "connect", "executor", "state", "watch_step", "error"}
EventState == [type : EventTypes, ver : Versions, executed : BOOLEAN, running : BOOLEAN]
RequestState == [kind : Kinds, owner : {"none", "initialize"}, ver : Shown, running : BOOLEAN]
FrameState == [type : {"start", "delta", "done", "aborted", "error"}, ver : Shown]
StreamState ==
    [at : {"none", "refused", "running", "answered", "ended"}, abort : BOOLEAN, frames : Seq(FrameState)]
TurnState ==
    [at : {"off", "streaming", "fallback", "over"}, started : BOOLEAN, finished : BOOLEAN, got : Nat,
     dirty : BOOLEAN, gen : Nat, active : Nat, raf : SUBSET Nat, aborted : BOOLEAN,
     stopped : BOOLEAN, bare : BOOLEAN,
     ends : Nat, posts : Nat, reply : Shown]

DashTyped ==
    /\ version \in Versions /\ told \in Versions /\ executor \in BOOLEAN
    /\ sse \in {"open", "closed"}
    /\ shown \in Shown /\ newest \in Shown
    /\ wire \in Seq(EventState) /\ flight \in Seq(RequestState)
ChatTyped ==
    /\ turn \in [Turns -> TurnState] /\ stream_of \in [Turns -> StreamState]
    /\ list = None \/ list \in [turn : Turns, text : Nat \union {None}]
    /\ ref \in Turns \union {None}

----------------------------------------------------------------------------
(* The invariants. *)

EndTypes == {"done", "aborted", "error"}

\* A turn that was not stopped has at most one terminal frame before it, the last of its
\* stream, and it has handled none before that one.
EndsOnce(t, s) ==
    /\ s.abort => t.aborted
    /\ t.ends <= 1
    /\ ~t.aborted => \A k \in DOMAIN s.frames :
           s.frames[k].type \in EndTypes => k = Len(s.frames) /\ s.at \in {"answered", "ended"} /\ t.ends = 0
    /\ ~t.aborted /\ s.at \in {"none", "refused", "running"} => t.ends = 0

\* Each of the two endpoints takes a message once, and the second is asked only for a turn
\* that saw nothing of its stream, and was not stopped before it failed unless the first refused.
Untaken(s) == s.at \in {"none", "refused"}
SentOnceEach(t, s) ==
    /\ t.at \in {"off", "fallback"} => ~t.started
    /\ ~t.started => t.got = 0 /\ ~t.dirty
    /\ t.reply # None => t.at \in {"fallback", "over"} /\ ~t.started
    /\ Untaken(s) => ~t.started /\ DOMAIN s.frames = {}
    /\ Untaken(s) /\ t.reply = None => t.posts = 0
    /\ Untaken(s) \/ t.reply = None => t.posts <= 1
    /\ t.stopped => t.aborted /\ t.at # "off"
    /\ t.stopped /\ (t.at = "fallback" \/ t.reply # None) => s.at = "refused"

\* Only a turn that is streaming has text it has not painted.
PaintedBefore(t) ==
    /\ t.at # "streaming" => ~t.dirty
    /\ t.at = "off" => ~t.bare

TurnInv(t, s) == EndsOnce(t, s) /\ SentOnceEach(t, s) /\ PaintedBefore(t)
TurnsInv == \A c \in Turns : TurnInv(turn[c], stream_of[c])

\* The list shows the text of its turn, but for what waits for an animation frame.
ListInv ==
    list # None =>
        LET t == turn[list.turn] IN
        /\ t.at # "off"
        /\ ~t.bare /\ ~t.dirty /\ list.text # None => list.text = t.got

\* The snapshot that ends an initialization is the only request with an owner.
BusyInv ==
    /\ BusyHasACause
    /\ \A i \in DOMAIN flight : flight[i].owner = "initialize" => flight[i].kind = "snapshot"

\* Nothing that travels is newer than the server's state.
Old(v) == v = None \/ v <= version
DashPast ==
    /\ Old(told) /\ Old(newest)
    /\ \A i \in DOMAIN flight : Old(flight[i].ver)
    /\ \A k \in DOMAIN wire : Old(wire[k].ver)
    /\ shown # None => newest # None /\ shown <= newest
ChatPast ==
    \A c \in Turns : Old(turn[c].reply) /\ \A k \in DOMAIN stream_of[c].frames : Old(stream_of[c].frames[k].ver)

\* The state of version v has been answered, or will be by a request under way.
Reached(v) ==
    \/ newest # None /\ v <= newest
    \/ \E i \in DOMAIN flight : flight[i].ver = None \/ v <= flight[i].ver
\* So has a version that looks like v.
Known(v) == \E w \in Versions : w <= version /\ SummaryOf[w] = SummaryOf[v] /\ Reached(w)
\* An event that makes the Dashboard ask, unless it has been told the same already.
Prompts(e) == e.type \in {"connect", "state", "watch_step", "error"} /\ (e.ver = told \/ e.type = "connect")

\* What the last event said is known.
LastKnown ==
    lastSummary # None =>
        \E w \in Versions, running \in BOOLEAN :
           w <= version /\ lastSummary = <<SummaryOf[w], running>> /\ Reached(w)
\* So is what was published, or the last event on the wire tells of it.
NewsInv ==
    /\ sse = "open" => Known(told) \/ (wire # <<>> /\ Prompts(wire[Len(wire)]))
    /\ LastKnown

ChatsInv == ChatTyped /\ TurnsInv /\ ListInv
News == DashPast /\ ChatPast /\ NewsInv

----------------------------------------------------------------------------
(* Lemmas. *)

\* What the assumption on the constants says, part by part.
LEMMA ConstantFacts ==
  /\ MaxVersion \in Nat /\ QueueSize \in Nat /\ QueueSize >= 1
  /\ None \notin Versions
  /\ \A v \in Versions, running \in BOOLEAN : None # <<SummaryOf[v], running>>
  /\ Versions \subseteq Nat /\ \A v \in Versions : v <= MaxVersion
<1>1. MaxVersion \in Nat /\ QueueSize \in Nat \ {0}
  BY WebDashboardAssumption
<1>2. None \notin Versions /\ \A v \in Versions, running \in BOOLEAN : None # <<SummaryOf[v], running>>
  BY WebDashboardAssumption
<1>. QED
  BY <1>1, <1>2 DEF Versions

\* An event that is offered is the last one of the wire; the others were there before.
LEMMA OfferProperties ==
  ASSUME wire \in Seq(EventState), NEW e \in EventState, Offer(e)
  PROVE  /\ wire' \in Seq(EventState)
         /\ sse # "closed" => wire' # <<>> /\ wire'[Len(wire')] = e
         /\ sse = "closed" => wire' = wire
         /\ \A k \in DOMAIN wire' : wire'[k] = e \/ \E j \in DOMAIN wire : wire'[k] = wire[j]
<1>. DEFINE U == {k \in DOMAIN wire : Unqueued(wire[k])}
            oldest == Cardinality(U) + 1
<1>1. Len(wire) \in Nat /\ DOMAIN wire = 1 .. Len(wire)
  OBVIOUS
<1>2. IsFiniteSet(U) /\ Cardinality(U) \in Nat
  <2>1. IsFiniteSet(1 .. Len(wire)) /\ U \subseteq 1 .. Len(wire)
    BY <1>1, FS_Interval
  <2>. HIDE DEF U
  <2>. QED
    BY <2>1, FS_Subset, FS_CardinalityType
<1>. HIDE DEF U
<1>3. wire' = IF sse = "closed" THEN wire
              ELSE IF Len(wire) < QueueSize + oldest - 1 THEN Append(wire, e)
              ELSE Append(RemoveAt(wire, oldest), e)
  BY DEF Offer, U
<1>4. QueueSize \in Nat /\ QueueSize >= 1
  BY ConstantFacts
<1>5. CASE sse = "closed"
  BY <1>3, <1>5
<1>6. CASE sse # "closed" /\ Len(wire) < QueueSize + oldest - 1
  <2>1. wire' = Append(wire, e)
    BY <1>3, <1>6
  <2>. QED
    BY <1>6, <2>1
<1>7. CASE sse # "closed" /\ ~(Len(wire) < QueueSize + oldest - 1)
  <2>1. oldest \in DOMAIN wire
    BY <1>1, <1>2, <1>4, <1>7
  <2>2. wire' = Append(RemoveAt(wire, oldest), e)
    BY <1>3, <1>7
  <2>. DEFINE w == RemoveAt(wire, oldest)
  <2>. HIDE DEF oldest
  <2>3. /\ w \in Seq(EventState)
        /\ \A k \in DOMAIN w : \E j \in DOMAIN wire : w[k] = wire[j]
    BY <2>1, RemoveAtProperties
  <2>. HIDE DEF w
  <2>4. wire' = Append(w, e)
    BY <2>2 DEF w
  <2>. QED
    BY <1>7, <2>3, <2>4
<1>. QED
  BY <1>5, <1>6, <1>7
\* The server's next version.
LEMMA NextVersion ==
  ASSUME version \in Versions, version' = IF version < MaxVersion THEN version + 1 ELSE version
  PROVE  version' \in Versions /\ version <= version'
  BY ConstantFacts DEF Versions

\* What is offered and what is requested is of its type.
LEMMA EventTyped ==
  ASSUME executor \in BOOLEAN, NEW type \in EventTypes, NEW v \in Versions, NEW x \in BOOLEAN
  PROVE  /\ Event(type, v, x) \in EventState
         /\ Event(type, v, x).type = type /\ Event(type, v, x).ver = v /\ Event(type, v, x).executed = x
  BY DEF Event, EventState

\* A request, as it is sent, is of its type.
LEMMA RequestTyped ==
  ASSUME NEW kind \in Kinds, NEW owner \in {"none", "initialize"}
  PROVE  /\ Request(kind, owner) \in RequestState
         /\ Request(kind, owner).kind = kind /\ Request(kind, owner).owner = owner
         /\ Request(kind, owner).ver = None
  BY DEF Request, RequestState, Shown

\* The later of two versions.
LEMMA LaterTyped ==
  ASSUME NEW a \in Shown, NEW b \in Shown
  PROVE  /\ LaterOf(a, b) \in Shown
         /\ b # None => LaterOf(a, b) # None /\ LaterOf(a, b) >= b
         /\ a # None => LaterOf(a, b) # None /\ LaterOf(a, b) >= a
         /\ LaterOf(a, b) \in {a, b}
  BY ConstantFacts DEF LaterOf, Shown

\* Every step of the server keeps its types.
LEMMA ServerTyped ==
  ASSUME DashTyped, ServerSteps
  PROVE  DashTyped'
<1>. USE DEF DashTyped
<1>1. CASE ChangeElsewhere
  <2>1. version' \in Versions
    BY <1>1, ConstantFacts DEF ChangeElsewhere, Versions
  <2>. QED
    BY <1>1, <2>1 DEF ChangeElsewhere, stream, view
<1>2. ASSUME NEW executed \in BOOLEAN, WatchTick(executed) PROVE DashTyped'
  <2>1. version' \in Versions
    BY <1>2, ConstantFacts DEF WatchTick, Versions
  <2>. DEFINE e == Event("watch_step", version', executed)
  <2>2. e \in EventState
    BY <2>1, EventTyped DEF EventTypes
  <2>3. Offer(e)
    BY <1>2 DEF WatchTick
  <2>. HIDE DEF e
  <2>4. wire' \in Seq(EventState)
    BY <2>2, <2>3, OfferProperties
  <2>. QED
    BY <1>2, <2>1, <2>4 DEF WatchTick, view
<1>3. CASE WatchFails
  <2>. DEFINE e == Event("error", told, FALSE)
  <2>1. e \in EventState
    BY EventTyped DEF EventTypes
  <2>2. Offer(e)
    BY <1>3 DEF WatchFails
  <2>. HIDE DEF e
  <2>3. wire' \in Seq(EventState)
    BY <2>1, <2>2, OfferProperties
  <2>. QED
    BY <1>3, <2>3 DEF WatchFails, server, view
<1>4. CASE ExecutorTurns
  BY <1>4 DEF ExecutorTurns, stream, view
<1>5. CASE Heartbeat
  <2>. DEFINE e == Event("executor", told, FALSE)
  <2>1. e \in EventState
    BY EventTyped DEF EventTypes
  <2>2. wire' = <<e>>
    BY <1>5 DEF Heartbeat
  <2>. HIDE DEF e
  <2>3. wire' \in Seq(EventState)
    BY <2>1, <2>2
  <2>. QED
    BY <1>5, <2>3 DEF Heartbeat, server, view
<1>6. CASE Connect
  <2>. DEFINE a == Event("hello", version, FALSE)
              b == Event("connect", version, FALSE)
              c == Event("watch_step", told, FALSE)
  <2>1. a \in EventState /\ b \in EventState /\ c \in EventState
    BY EventTyped DEF EventTypes
  <2>2. wire' = <<a, b>> \o (IF told = 0 THEN <<>> ELSE <<c>>)
    BY <1>6 DEF Connect
  <2>. HIDE DEF a, b, c
  <2>3. wire' \in Seq(EventState)
    BY <2>1, <2>2
  <2>. QED
    BY <1>6, <2>3 DEF Connect, server, view
<1>7. CASE Disconnect
  BY <1>7 DEF Disconnect, server, view
<1>. QED
  BY <1>1, <1>2, <1>3, <1>4, <1>5, <1>6, <1>7 DEF ServerSteps

\* Every step of the Dashboard keeps its types.
LEMMA ClientTyped ==
  ASSUME DashTyped, ClientSteps
  PROVE  DashTyped'
<1>. USE DEF DashTyped
<1>1. ASSUME NEW kind \in Kinds, NEW owner \in {"none", "initialize"}, flight' = Append(flight, Request(kind, owner))
      PROVE  flight' \in Seq(RequestState)
  <2>. DEFINE r == Request(kind, owner)
  <2>1. r \in RequestState
    BY RequestTyped
  <2>. HIDE DEF r
  <2>2. flight' = Append(flight, r)
    BY <1>1 DEF r
  <2>. QED
    BY <2>1, <2>2
<1>2. CASE HandleRefresh
  BY <1>1, <1>2 DEF HandleRefresh, LoadSnapshot, Kinds, server, stream, view
<1>3. CASE Listener
  <2>1. wire' \in Seq(EventState)
    BY <1>3 DEF Listener
  <2>2. flight' = flight \/ flight' = Append(flight, Request("snapshot", "none"))
    BY <1>3 DEF Listener, LoadSnapshot
  <2>3. flight' \in Seq(RequestState)
    BY <1>1, <2>2 DEF Kinds
  <2>. QED
    BY <1>3, <2>1, <2>3 DEF Listener, server
<1>4. CASE Submit \/ HandleInitialize \/ PanelRequest
  <2>1. PICK kind \in Kinds : flight' = Append(flight, Request(kind, "none"))
    BY <1>4 DEF Submit, HandleInitialize, PanelRequest, Kinds
  <2>. QED
    BY <1>1, <1>4, <2>1 DEF Submit, HandleInitialize, PanelRequest, server, stream, view
<1>5. ASSUME NEW i \in DOMAIN flight, Serve(i) PROVE DashTyped'
  <2>1. version' \in Versions
    <3>1. version' = version \/ version' = IF version < MaxVersion THEN version + 1 ELSE version
      BY <1>5 DEF Serve
    <3>. QED
      BY <3>1, NextVersion
  <2>2. told' \in Versions
    BY <1>5, <2>1 DEF Serve
  <2>3. wire' \in Seq(EventState)
    <3>. DEFINE e == Event("state", version', FALSE)
    <3>1. e \in EventState
      BY <2>1, EventTyped DEF EventTypes
    <3>2. wire' = wire \/ Offer(e)
      BY <1>5 DEF Serve
    <3>. HIDE DEF e
    <3>. QED
      BY <3>1, <3>2, OfferProperties
  <2>4. flight' \in Seq(RequestState)
    <3>1. flight[i] \in RequestState
      OBVIOUS
    <3>2. [flight[i] EXCEPT !.ver = version', !.running = executor] \in RequestState
      BY <2>1, <3>1 DEF RequestState, Shown
    <3>3. flight' = [flight EXCEPT ![i] = [flight[i] EXCEPT !.ver = version', !.running = executor]]
      BY <1>5 DEF Serve
    <3>. QED
      BY <3>2, <3>3
  <2>. QED
    BY <1>5, <2>1, <2>2, <2>3, <2>4 DEF Serve, view
<1>6. ASSUME NEW i \in DOMAIN flight, Answer(i) PROVE DashTyped'
  <2>1. flight[i] \in RequestState
    OBVIOUS
  <2>6. flight[i].ver \in Shown
    BY <2>1 DEF RequestState
  <2>2. newest' \in Shown /\ shown' \in Shown
    BY <1>6, <2>6, LaterTyped DEF Answer
  <2>3. flight' = [flight EXCEPT ![i] = Request("snapshot", "initialize")] \/ flight' = RemoveAt(flight, i)
    BY <1>6 DEF Answer
  <2>4. Request("snapshot", "initialize") \in RequestState
    BY RequestTyped DEF Kinds
  <2>. DEFINE q == Request("snapshot", "initialize")
  <2>7. q \in RequestState
    BY <2>4
  <2>8. flight' = [flight EXCEPT ![i] = q] \/ flight' = RemoveAt(flight, i)
    BY <2>3
  <2>. HIDE DEF q
  <2>9. [flight EXCEPT ![i] = q] \in Seq(RequestState)
    BY <2>7, UpdateProperties
  <2>10. RemoveAt(flight, i) \in Seq(RequestState)
    BY RemoveAtProperties
  <2>5. flight' \in Seq(RequestState)
    BY <2>8, <2>9, <2>10
  <2>. QED
    BY <1>6, <2>2, <2>5 DEF Answer, server, stream
<1>7. ASSUME NEW i \in DOMAIN flight, Fail(i) PROVE DashTyped'
  <2>1. flight[i] \in RequestState
    OBVIOUS
  <2>4. flight[i].ver \in Shown /\ version \in Shown
    BY <2>1 DEF RequestState, Shown
  <2>2. newest' \in Shown
    BY <1>7, <2>4, LaterTyped DEF Fail
  <2>3. flight' \in Seq(RequestState)
    BY <1>7, RemoveAtProperties DEF Fail
  <2>. QED
    BY <1>7, <2>2, <2>3 DEF Fail, server, stream
<1>. QED
  BY <1>2, <1>3, <1>4, <1>5, <1>6, <1>7 DEF ClientSteps

----------------------------------------------------------------------------
(* One turn and its stream. *)

\* Two records of a turn that differ in what the batcher and the finally write only.
SameTurn(t, u) ==
    /\ u.posts = t.posts /\ u.reply = t.reply /\ u.got = t.got /\ u.ends = t.ends
    /\ u.started <=> t.started
    /\ u.aborted <=> t.aborted
    /\ u.stopped <=> t.stopped
    /\ u.bare <=> t.bare

\* What the batcher and the finally of handleChat do to a turn.
LEMMA BatcherProperties ==
  ASSUME NEW t \in TurnState
  PROVE  /\ Schedule(t) \in TurnState /\ SameTurn(t, Schedule(t))
         /\ Schedule(t).at = t.at /\ Schedule(t).dirty
         /\ Cancel(t) \in TurnState /\ SameTurn(t, Cancel(t))
         /\ Cancel(t).at = t.at /\ ~Cancel(t).dirty
         /\ Settle(t) \in TurnState /\ SameTurn(t, Settle(t))
         /\ Settle(t).at = "over" /\ ~Settle(t).dirty
<1>1. /\ Schedule(t) \in TurnState /\ SameTurn(t, Schedule(t))
      /\ Schedule(t).at = t.at /\ Schedule(t).dirty
  <2>1. CASE t.active = 0
    <3>. DEFINE u == [t EXCEPT !.dirty = TRUE, !.gen = @ + 1, !.active = t.gen + 1, !.raf = @ \union {t.gen + 1}]
    <3>1. t.gen + 1 \in Nat /\ t.raf \union {t.gen + 1} \in SUBSET Nat
      BY DEF TurnState
    <3>2. u \in TurnState /\ u.at = t.at /\ u.dirty
      BY <3>1 DEF TurnState
    <3>3. u.posts = t.posts /\ u.reply = t.reply /\ u.got = t.got /\ u.ends = t.ends
      BY DEF TurnState
    <3>4. (u.started <=> t.started) /\ (u.aborted <=> t.aborted) /\ (u.stopped <=> t.stopped) /\ (u.bare <=> t.bare)
      BY DEF TurnState
    <3>5. Schedule(t) = u
      BY <2>1 DEF Schedule
    <3>. HIDE DEF u
    <3>. QED
      BY <3>2, <3>3, <3>4, <3>5 DEF SameTurn
  <2>2. CASE t.active # 0
    <3>. DEFINE u == [t EXCEPT !.dirty = TRUE]
    <3>2. u \in TurnState /\ u.at = t.at /\ u.dirty
      BY DEF TurnState
    <3>3. u.posts = t.posts /\ u.reply = t.reply /\ u.got = t.got /\ u.ends = t.ends
      BY DEF TurnState
    <3>4. (u.started <=> t.started) /\ (u.aborted <=> t.aborted) /\ (u.stopped <=> t.stopped) /\ (u.bare <=> t.bare)
      BY DEF TurnState
    <3>5. Schedule(t) = u
      BY <2>2 DEF Schedule
    <3>. HIDE DEF u
    <3>. QED
      BY <3>2, <3>3, <3>4, <3>5 DEF SameTurn
  <2>. QED
    BY <2>1, <2>2
<1>2. /\ Cancel(t) \in TurnState /\ SameTurn(t, Cancel(t))
      /\ Cancel(t).at = t.at /\ ~Cancel(t).dirty
  <2>. DEFINE u == Cancel(t)
  <2>1. u \in TurnState /\ u.at = t.at /\ ~u.dirty
    BY DEF Cancel, ClearFrame, TurnState
  <2>2. u.posts = t.posts /\ u.reply = t.reply /\ u.got = t.got /\ u.ends = t.ends
    BY DEF Cancel, ClearFrame, TurnState
  <2>3. (u.started <=> t.started) /\ (u.aborted <=> t.aborted) /\ (u.stopped <=> t.stopped) /\ (u.bare <=> t.bare)
    BY DEF Cancel, ClearFrame, TurnState
  <2>4. Cancel(t) = u
    OBVIOUS
  <2>. HIDE DEF u
  <2>. QED
    BY <2>1, <2>2, <2>3, <2>4 DEF SameTurn
<1>3. /\ Settle(t) \in TurnState /\ SameTurn(t, Settle(t))
      /\ Settle(t).at = "over" /\ ~Settle(t).dirty
  <2>. DEFINE u == Settle(t)
  <2>1. u \in TurnState /\ u.at = "over" /\ ~u.dirty
    BY DEF Settle, ClearFrame, TurnState
  <2>2. u.posts = t.posts /\ u.reply = t.reply /\ u.got = t.got /\ u.ends = t.ends
    BY DEF Settle, ClearFrame, TurnState
  <2>3. (u.started <=> t.started) /\ (u.aborted <=> t.aborted) /\ (u.stopped <=> t.stopped) /\ (u.bare <=> t.bare)
    BY DEF Settle, ClearFrame, TurnState
  <2>4. Settle(t) = u
    OBVIOUS
  <2>. HIDE DEF u
  <2>. QED
    BY <2>1, <2>2, <2>3, <2>4 DEF SameTurn
<1>. QED
  BY <1>1, <1>2, <1>3

\* A stream that sends another frame: an end only while it is running, or once it is stopped.
LEMMA FrameSent ==
  ASSUME NEW t \in TurnState, NEW s \in StreamState, TurnInv(t, s), NEW f \in FrameState,
         NEW at \in {"running", "answered", "ended"},
         \/ s.at \in {"none", "running"} /\ at = "running" /\ f.type \notin EndTypes
         \/ s.at = "running" /\ at # "running" /\ f.type \in EndTypes
         \/ s.at \in {"running", "answered"} /\ t.aborted
  PROVE  /\ [s EXCEPT !.at = at, !.frames = Append(@, f)] \in StreamState
         /\ TurnInv(t, [s EXCEPT !.at = at, !.frames = Append(@, f)])
<1>. DEFINE fs == Append(s.frames, f)
            r == [s EXCEPT !.at = at, !.frames = fs]
<1>1. s.frames \in Seq(FrameState) /\ s.at \in {"none", "refused", "running", "answered", "ended"} /\ s.abort \in BOOLEAN
  BY DEF StreamState
<1>2. /\ fs \in Seq(FrameState) /\ Len(fs) = Len(s.frames) + 1
      /\ DOMAIN fs = DOMAIN s.frames \union {Len(fs)}
      /\ fs[Len(fs)] = f /\ \A k \in DOMAIN s.frames : fs[k] = s.frames[k]
  BY <1>1
<1>3. r \in StreamState
  BY <1>2 DEF StreamState
<1>4. r.at = at /\ (r.abort <=> s.abort) /\ r.frames = fs
  BY DEF StreamState
<1>5. EndsOnce(t, r)
  <2>1. ASSUME ~t.aborted, NEW k \in DOMAIN fs, fs[k].type \in EndTypes
        PROVE  k = Len(fs) /\ at \in {"answered", "ended"} /\ t.ends = 0
    <3>1. s.at \in {"none", "running"}
      BY <2>1
    <3>2. t.ends = 0 /\ \A j \in DOMAIN s.frames : s.frames[j].type \notin EndTypes
      BY <2>1, <3>1 DEF TurnInv, EndsOnce
    <3>3. k = Len(fs)
      BY <1>2, <2>1, <3>2
    <3>. QED
      BY <1>2, <2>1, <3>2, <3>3
  <2>2. ~t.aborted /\ at = "running" => t.ends = 0
    BY DEF TurnInv, EndsOnce
  <2>. HIDE DEF fs, r
  <2>. QED
    BY <1>4, <2>1, <2>2 DEF TurnInv, EndsOnce
<1>6. SentOnceEach(t, r) /\ PaintedBefore(t)
  <2>. HIDE DEF fs, r
  <2>. QED
    BY <1>4 DEF TurnInv, SentOnceEach, Untaken
<1>. QED
  BY <1>3, <1>5, <1>6 DEF TurnInv

\* A stream whose first frame is read, or of which nothing more is read.
LEMMA FrameRead ==
  ASSUME NEW t \in TurnState, NEW s \in StreamState, TurnInv(t, s)
  PROVE  /\ [s EXCEPT !.frames = <<>>] \in StreamState
         /\ TurnInv(t, [s EXCEPT !.frames = <<>>])
         /\ s.frames # <<>> =>
               /\ [s EXCEPT !.frames = Tail(@)] \in StreamState
               /\ TurnInv(t, [s EXCEPT !.frames = Tail(@)])
               /\ Head(s.frames) \in FrameState
               /\ ~t.aborted /\ Head(s.frames).type \in EndTypes =>
                     Tail(s.frames) = <<>> /\ s.at \in {"answered", "ended"} /\ t.ends = 0
<1>1. s.frames \in Seq(FrameState) /\ s.at \in {"none", "refused", "running", "answered", "ended"} /\ s.abort \in BOOLEAN
  BY DEF StreamState
<1>2. ASSUME NEW fs \in Seq(FrameState),
             \A k \in DOMAIN fs : k + 1 \in DOMAIN s.frames /\ fs[k] = s.frames[k + 1] /\ Len(fs) = Len(s.frames) - 1
      PROVE  /\ [s EXCEPT !.frames = fs] \in StreamState
             /\ TurnInv(t, [s EXCEPT !.frames = fs])
  <2>. DEFINE r == [s EXCEPT !.frames = fs]
  <2>1. r \in StreamState
    BY DEF StreamState
  <2>2. r.at = s.at /\ (r.abort <=> s.abort) /\ r.frames = fs
    BY DEF StreamState
  <2>3. ASSUME ~t.aborted, NEW k \in DOMAIN fs, fs[k].type \in EndTypes
        PROVE  k = Len(fs) /\ s.at \in {"answered", "ended"} /\ t.ends = 0
    <3>1. k + 1 \in DOMAIN s.frames /\ s.frames[k + 1].type \in EndTypes /\ Len(fs) = Len(s.frames) - 1 /\ k \in Nat
      BY <1>2, <2>3
    <3>2. k + 1 = Len(s.frames) /\ s.at \in {"answered", "ended"} /\ t.ends = 0
      BY <2>3, <3>1 DEF TurnInv, EndsOnce
    <3>. QED
      BY <1>1, <3>1, <3>2
  <2>. HIDE DEF r
  <2>4. EndsOnce(t, r)
    BY <2>2, <2>3 DEF TurnInv, EndsOnce
  <2>5. DOMAIN s.frames = {} => DOMAIN fs = {}
    BY <1>2
  <2>6. SentOnceEach(t, r)
    BY <2>2, <2>5 DEF TurnInv, SentOnceEach, Untaken
  <2>. QED
    BY <2>1, <2>4, <2>6 DEF TurnInv, r
<1>3. ASSUME s.frames # <<>>
      PROVE  /\ Tail(s.frames) \in Seq(FrameState)
             /\ \A k \in DOMAIN Tail(s.frames) :
                  /\ k + 1 \in DOMAIN s.frames /\ Tail(s.frames)[k] = s.frames[k + 1]
                  /\ Len(Tail(s.frames)) = Len(s.frames) - 1
  BY <1>1, <1>3
<1>4. ASSUME s.frames # <<>>
      PROVE  /\ [s EXCEPT !.frames = Tail(@)] \in StreamState
             /\ TurnInv(t, [s EXCEPT !.frames = Tail(@)])
  <2>. DEFINE fs == Tail(s.frames)
  <2>1. /\ fs \in Seq(FrameState)
        /\ \A k \in DOMAIN fs : k + 1 \in DOMAIN s.frames /\ fs[k] = s.frames[k + 1] /\ Len(fs) = Len(s.frames) - 1
    BY <1>3, <1>4
  <2>. HIDE DEF fs
  <2>2. [s EXCEPT !.frames = fs] \in StreamState /\ TurnInv(t, [s EXCEPT !.frames = fs])
    BY <1>2, <2>1
  <2>. QED
    BY <2>2 DEF fs
<1>5. [s EXCEPT !.frames = <<>>] \in StreamState /\ TurnInv(t, [s EXCEPT !.frames = <<>>])
  <2>. DEFINE fs == <<>>
  <2>1. fs \in Seq(FrameState) /\ DOMAIN fs = {}
    OBVIOUS
  <2>. HIDE DEF fs
  <2>2. [s EXCEPT !.frames = fs] \in StreamState /\ TurnInv(t, [s EXCEPT !.frames = fs])
    BY <1>2, <2>1
  <2>. QED
    BY <2>2 DEF fs
<1>6. ASSUME s.frames # <<>>
      PROVE  /\ Head(s.frames) \in FrameState
             /\ ~t.aborted /\ Head(s.frames).type \in EndTypes =>
                   Tail(s.frames) = <<>> /\ s.at \in {"answered", "ended"} /\ t.ends = 0
  <2>1. 1 \in DOMAIN s.frames /\ Head(s.frames) = s.frames[1] /\ Head(s.frames) \in FrameState
    BY <1>1, <1>6
  <2>2. ASSUME ~t.aborted, Head(s.frames).type \in EndTypes
        PROVE  1 = Len(s.frames) /\ s.at \in {"answered", "ended"} /\ t.ends = 0
    BY <2>1, <2>2 DEF TurnInv, EndsOnce
  <2>3. Len(s.frames) = 1 => Tail(s.frames) = <<>>
    <3>. DEFINE fs == Tail(s.frames)
    <3>1. fs \in Seq(FrameState) /\ Len(fs) = Len(s.frames) - 1
      BY <1>1, <1>6
    <3>. HIDE DEF fs
    <3>2. Len(s.frames) = 1 => fs = <<>>
      BY <3>1
    <3>. QED
      BY <3>2 DEF fs
  <2>. QED
    BY <2>1, <2>2, <2>3
<1>. QED
  BY <1>4, <1>5, <1>6

\* A step of one turn, or of its stream, keeps what holds of the others.
LEMMA TurnStep ==
  ASSUME ChatTyped, TurnsInv, NEW c \in Turns, NEW t \in TurnState, NEW s \in StreamState, TurnInv(t, s),
         turn' = [turn EXCEPT ![c] = t], stream_of' = [stream_of EXCEPT ![c] = s]
  PROVE  turn' \in [Turns -> TurnState] /\ stream_of' \in [Turns -> StreamState] /\ TurnsInv'
<1>1. turn' \in [Turns -> TurnState] /\ stream_of' \in [Turns -> StreamState]
  BY DEF ChatTyped
<1>2. ASSUME NEW d \in Turns PROVE TurnInv(turn'[d], stream_of'[d])
  <2>1. CASE d = c
    <3>1. turn'[d] = t /\ stream_of'[d] = s
      BY <2>1 DEF ChatTyped
    <3>. QED
      BY <3>1
  <2>2. CASE d # c
    <3>1. turn'[d] = turn[d] /\ stream_of'[d] = stream_of[d]
      BY <2>2 DEF ChatTyped
    <3>. QED
      BY <3>1 DEF TurnsInv
  <2>. QED
    BY <2>1, <2>2
<1>3. TurnsInv'
  BY <1>2 DEF TurnsInv
<1>. QED
  BY <1>1, <1>3

\* The batcher and the finally keep the invariant of their turn.
LEMMA TurnChanged ==
  ASSUME NEW t \in TurnState, NEW s \in StreamState, TurnInv(t, s), NEW u \in TurnState, SameTurn(t, u),
         u.at = t.at \/ (u.at = "over" /\ t.at \in {"streaming", "fallback"}),
         u.dirty => u.at = "streaming" /\ u.started
  PROVE  TurnInv(u, s)
<1>1. EndsOnce(u, s)
  BY DEF TurnInv, EndsOnce, SameTurn
<1>2. SentOnceEach(u, s)
  BY DEF TurnInv, SentOnceEach, Untaken, SameTurn
<1>3. PaintedBefore(u)
  BY DEF TurnInv, PaintedBefore, SameTurn
<1>. QED
  BY <1>1, <1>2, <1>3 DEF TurnInv

ListTyped == list = None \/ list \in [turn : Turns, text : Nat \union {None}]

\* A turn that has begun changes, and the list with it.
LEMMA ListStep ==
  ASSUME ChatTyped, ListInv, NEW c \in Turns, NEW t \in TurnState, t.at # "off",
         turn' = [turn EXCEPT ![c] = t],
         NEW x \in Nat \union {None}, ~t.bare /\ ~t.dirty /\ x # None => x = t.got,
         list' = Paint(c, x)
  PROVE  ListTyped' /\ ListInv'
<1>1. CASE list # None /\ list.turn = c
  <2>1. list' = [list EXCEPT !.text = x] /\ list \in [turn : Turns, text : Nat \union {None}]
    BY <1>1 DEF Paint, ChatTyped
  <2>2. list' \in [turn : Turns, text : Nat \union {None}] /\ list'.turn = c /\ list'.text = x
    BY <1>1, <2>1
  <2>3. turn'[c] = t
    BY DEF ChatTyped
  <2>. QED
    BY <2>2, <2>3 DEF ListTyped, ListInv
<1>2. CASE ~(list # None /\ list.turn = c)
  <2>1. list' = list
    BY <1>2 DEF Paint
  <2>2. list # None => list.turn \in Turns /\ turn'[list.turn] = turn[list.turn]
    BY <1>2 DEF ChatTyped
  <2>. QED
    BY <2>1, <2>2 DEF ListTyped, ListInv, ChatTyped
<1>. QED
  BY <1>1, <1>2

\* The list stays: what the turn received and what waits to be painted is as before, or more waits.
LEMMA ListStays ==
  ASSUME ChatTyped, ListInv, NEW c \in Turns, NEW t \in TurnState, t.at # "off" \/ turn[c].at = "off",
         t.dirty \/ t.bare \/ (t.got = turn[c].got /\ ~turn[c].bare /\ ~turn[c].dirty),
         turn' = [turn EXCEPT ![c] = t], list' = list
  PROVE  ListTyped' /\ ListInv'
<1>1. list # None => list.turn \in Turns /\ turn'[list.turn] = IF list.turn = c THEN t ELSE turn[list.turn]
  BY DEF ChatTyped
<1>2. ListTyped'
  BY DEF ListTyped, ChatTyped
<1>3. CASE list # None /\ list.turn = c
  <2>1. turn'[c] = t
    BY DEF ChatTyped
  <2>. QED
    BY <1>2, <1>3, <2>1 DEF ListInv
<1>4. CASE ~(list # None /\ list.turn = c)
  BY <1>1, <1>2, <1>4 DEF ListInv
<1>. QED
  BY <1>3, <1>4

\* The parts of the invariant, put together.
LEMMA ChatsInvParts ==
  ASSUME turn' \in [Turns -> TurnState], stream_of' \in [Turns -> StreamState], TurnsInv',
         ListTyped', ListInv', ref' \in Turns \union {None}
  PROVE  ChatsInv'
  BY DEF ChatsInv, ChatTyped, ListTyped

\* The server's side of a chat stream keeps the invariant of its turn.
LEMMA StreamStepsKeep ==
  ASSUME DashTyped, ChatsInv, NEW c \in Turns, version' \in Versions,
         \/ Register(c) \/ Refuse(c) \/ Token(c) \/ Reply(c) \/ Aborts(c) \/ Unregister(c) \/ AbortArrives(c)
         \/ \E bare \in BOOLEAN : Breaks(c, bare)
  PROVE  ChatsInv'
<1>. DEFINE T == turn[c]
            S == stream_of[c]
<1>1. ChatTyped /\ TurnsInv /\ ListInv
  BY DEF ChatsInv
<1>2. T \in TurnState /\ S \in StreamState /\ TurnInv(T, S)
  BY <1>1 DEF ChatTyped, TurnsInv
<1>3. list' = list /\ ref' = ref /\ (Register(c) \/ turn' = turn)
  BY DEF Register, Refuse, Token, Reply, Aborts, Unregister, AbortArrives, Breaks
<1>4. version \in Shown /\ version' \in Shown /\ None \in Shown
  BY DEF Shown, DashTyped
\* what a frame does, in each of the steps that send one
<1>5. ASSUME NEW at \in {"running", "answered", "ended"},
             NEW type \in {"start", "delta", "done", "aborted", "error"}, NEW v \in Shown,
             Send(c, at, type, v),
             \/ S.at \in {"none", "running"} /\ at = "running" /\ type \notin EndTypes
             \/ S.at = "running" /\ at # "running" /\ type \in EndTypes
             \/ S.at \in {"running", "answered"} /\ T.aborted
      PROVE  \E s \in StreamState :
                /\ s.at = at /\ TurnInv(T, s)
                /\ stream_of' = [stream_of EXCEPT ![c] = s]
  <2>. DEFINE f == Frame(type, v)
              s == [S EXCEPT !.at = at, !.frames = Append(@, f)]
  <2>1. f \in FrameState /\ f.type = type
    BY DEF Frame, FrameState
  <2>2. stream_of' = [stream_of EXCEPT ![c] = s]
    BY <1>1, <1>5 DEF Send, ChatTyped
  <2>. HIDE DEF f
  <2>3. s \in StreamState /\ TurnInv(T, s)
    <3>. HIDE DEF T, S
    <3>. QED
      BY <1>2, <1>5, <2>1, FrameSent
  <2>4. s.at = at
    BY <1>2 DEF StreamState
  <2>. QED
    BY <2>2, <2>3, <2>4
\* in every step but the first, the turn stays as it is
<1>6. ASSUME turn' = turn, NEW s \in StreamState, TurnInv(T, s), stream_of' = [stream_of EXCEPT ![c] = s]
      PROVE  ChatsInv'
  <2>1. turn' = [turn EXCEPT ![c] = T]
    BY <1>1, <1>6 DEF ChatTyped
  <2>2. turn' \in [Turns -> TurnState] /\ stream_of' \in [Turns -> StreamState] /\ TurnsInv'
    BY <1>1, <1>2, <1>6, <2>1, TurnStep
  <2>3. ListTyped' /\ ListInv'
    BY <1>1, <1>3, <1>6 DEF ListTyped, ListInv, ChatTyped
  <2>. QED
    BY <1>1, <1>3, <2>2, <2>3, ChatsInvParts DEF ChatTyped
<1>7. CASE Register(c)
  <2>1. Send(c, "running", "start", None) /\ S.at = "none" /\ T.at # "off"
        /\ turn' = [turn EXCEPT ![c].posts = @ + 1]
    BY <1>7 DEF Register, Started
  <2>2. PICK s \in StreamState : /\ s.at = "running" /\ TurnInv(T, s)
                                 /\ stream_of' = [stream_of EXCEPT ![c] = s]
    BY <1>4, <1>5, <2>1 DEF EndTypes
  <2>. DEFINE t == [T EXCEPT !.posts = @ + 1]
  <2>3. t \in TurnState
    BY <1>2 DEF TurnState
  <2>4. t.reply = T.reply /\ t.got = T.got /\ t.ends = T.ends /\ t.at = T.at /\ t.posts = T.posts + 1
    BY <1>2 DEF TurnState
  <2>5. (t.started <=> T.started) /\ (t.aborted <=> T.aborted) /\ (t.stopped <=> T.stopped) /\ (t.bare <=> T.bare) /\ (t.dirty <=> T.dirty)
    BY <1>2 DEF TurnState
  <2>6. turn' = [turn EXCEPT ![c] = t]
    BY <1>1, <2>1 DEF ChatTyped
  <2>. HIDE DEF t
  <2>7. T.reply = None => T.posts = 0
    BY <1>2, <2>1 DEF TurnInv, SentOnceEach, Untaken
  <2>8. TurnInv(t, s)
    BY <2>2, <2>4, <2>5, <2>7 DEF TurnInv, EndsOnce, SentOnceEach, Untaken, PaintedBefore
  <2>9. turn' \in [Turns -> TurnState] /\ stream_of' \in [Turns -> StreamState] /\ TurnsInv'
    BY <1>1, <2>2, <2>3, <2>6, <2>8, TurnStep
  <2>10. ListTyped' /\ ListInv'
    BY <1>1, <1>3, <2>1, <2>3, <2>4, <2>5, <2>6, ListStays
  <2>. QED
    BY <1>1, <1>3, <2>9, <2>10, ChatsInvParts DEF ChatTyped
<1>8. CASE Token(c)
  BY <1>3, <1>4, <1>5, <1>6, <1>8 DEF Token, EndTypes, Register
<1>9. CASE Reply(c)
  BY <1>3, <1>4, <1>5, <1>6, <1>9 DEF Reply, EndTypes, Register
<1>10. ASSUME NEW bare \in BOOLEAN, Breaks(c, bare) PROVE ChatsInv'
  <2>1. turn' = turn
    BY <1>10 DEF Breaks
  <2>2. PICK v \in Shown : Send(c, "ended", "error", v)
    BY <1>4, <1>10 DEF Breaks
  <2>. QED
    BY <1>5, <1>6, <1>10, <2>1, <2>2 DEF Breaks, EndTypes
<1>11. CASE Aborts(c)
  <2>1. T.aborted
    BY <1>2, <1>11 DEF Aborts, TurnInv, EndsOnce
  <2>. QED
    BY <1>4, <1>5, <1>6, <1>11, <2>1 DEF Aborts
<1>12. CASE Unregister(c)
  <2>. DEFINE s == [S EXCEPT !.at = "ended"]
  <2>1. stream_of' = [stream_of EXCEPT ![c] = s] /\ turn' = turn /\ S.at \in {"running", "answered"}
    BY <1>1, <1>12 DEF Unregister, ChatTyped
  <2>2. s \in StreamState /\ s.at = "ended" /\ (s.abort <=> S.abort) /\ s.frames = S.frames
    BY <1>2 DEF StreamState
  <2>. HIDE DEF s
  <2>3. TurnInv(T, s)
    BY <1>2, <2>1, <2>2 DEF TurnInv, EndsOnce, SentOnceEach, Untaken
  <2>. QED
    BY <1>6, <2>1, <2>2, <2>3
<1>13. CASE AbortArrives(c)
  <2>. DEFINE s == [S EXCEPT !.abort = TRUE]
  <2>1. stream_of' = [stream_of EXCEPT ![c] = s] /\ turn' = turn /\ T.aborted
    BY <1>1, <1>13 DEF AbortArrives, ChatTyped
  <2>2. s \in StreamState /\ s.at = S.at /\ s.frames = S.frames
    BY <1>2 DEF StreamState
  <2>. HIDE DEF s
  <2>3. TurnInv(T, s)
    BY <1>2, <2>1, <2>2 DEF TurnInv, EndsOnce, SentOnceEach, Untaken
  <2>. QED
    BY <1>6, <2>1, <2>2, <2>3
<1>14. CASE Refuse(c)
  <2>. DEFINE s == [S EXCEPT !.at = "refused"]
  <2>1. stream_of' = [stream_of EXCEPT ![c] = s] /\ turn' = turn /\ S.at = "none"
    BY <1>1, <1>14 DEF Refuse, ChatTyped
  <2>2. s \in StreamState /\ s.at = "refused" /\ (s.abort <=> S.abort) /\ s.frames = S.frames
    BY <1>2 DEF StreamState
  <2>. HIDE DEF s
  <2>3. TurnInv(T, s)
    BY <1>2, <2>1, <2>2 DEF TurnInv, EndsOnce, SentOnceEach, Untaken
  <2>. QED
    BY <1>6, <2>1, <2>2, <2>3
<1>. QED
  BY <1>7, <1>8, <1>9, <1>10, <1>11, <1>12, <1>13, <1>14

\* The animation frames of a turn.
LEMMA FrameStepsKeep ==
  ASSUME ChatsInv, NEW c \in Turns, NEW g \in turn[c].raf, AnimationFrame(c, g) \/ DropFrame(c, g)
  PROVE  ChatsInv'
<1>. DEFINE T == turn[c]
            S == stream_of[c]
<1>1. ChatTyped /\ TurnsInv /\ ListInv
  BY DEF ChatsInv
<1>2. T \in TurnState /\ S \in StreamState /\ TurnInv(T, S)
  BY <1>1 DEF ChatTyped, TurnsInv
<1>3. ref' = ref /\ stream_of' = [stream_of EXCEPT ![c] = S]
  BY <1>1 DEF AnimationFrame, DropFrame, ChatTyped
<1>4. ASSUME NEW u \in TurnState, SameTurn(T, u), u.at = T.at, u.dirty => T.dirty,
             turn' = [turn EXCEPT ![c] = u],
             ListTyped' /\ ListInv'
      PROVE  ChatsInv'
  <2>1. u.dirty => u.at = "streaming" /\ u.started
    BY <1>2, <1>4 DEF TurnInv, PaintedBefore, SentOnceEach, Untaken, SameTurn
  <2>. HIDE DEF T, S
  <2>2. TurnInv(u, S)
    BY <1>2, <1>4, <2>1, TurnChanged
  <2>3. turn' \in [Turns -> TurnState] /\ stream_of' \in [Turns -> StreamState] /\ TurnsInv'
    BY <1>1, <1>2, <1>3, <1>4, <2>2, TurnStep
  <2>. QED
    BY <1>1, <1>3, <1>4, <2>3, ChatsInvParts DEF ChatTyped
\* the callback that was cancelled, and the one that is dropped
<1>5. ASSUME turn' = [turn EXCEPT ![c].raf = @ \ {g}], list' = list
      PROVE  ChatsInv'
  <2>. DEFINE u == [T EXCEPT !.raf = @ \ {g}]
  <2>1. u \in TurnState
    BY <1>2 DEF TurnState
  <2>2. u.posts = T.posts /\ u.reply = T.reply /\ u.got = T.got /\ u.ends = T.ends /\ u.at = T.at
    BY <1>2 DEF TurnState
  <2>3. (u.started <=> T.started) /\ (u.aborted <=> T.aborted) /\ (u.stopped <=> T.stopped) /\ (u.bare <=> T.bare) /\ (u.dirty <=> T.dirty)
    BY <1>2 DEF TurnState
  <2>4. turn' = [turn EXCEPT ![c] = u]
    BY <1>1, <1>5 DEF ChatTyped
  <2>. HIDE DEF u
  <2>5. SameTurn(T, u)
    BY <2>2, <2>3 DEF SameTurn
  <2>7. ChatTyped /\ ListInv /\ list' = list
    BY <1>1, <1>5
  <2>6. ListTyped' /\ ListInv'
    BY <2>1, <2>2, <2>3, <2>4, <2>7, ListStays
  <2>. QED
    BY <1>4, <2>1, <2>2, <2>3, <2>4, <2>5, <2>6
<1>6. CASE DropFrame(c, g)
  BY <1>5, <1>6 DEF DropFrame
<1>7. CASE AnimationFrame(c, g) /\ T.active # g
  <2>1. [T EXCEPT !.raf = @ \ {g}].active = T.active
    BY <1>2 DEF TurnState
  <2>2. turn' = [turn EXCEPT ![c] = [T EXCEPT !.raf = @ \ {g}]] /\ list' = list
    BY <1>7, <2>1 DEF AnimationFrame
  <2>3. turn' = [turn EXCEPT ![c].raf = @ \ {g}]
    BY <1>1, <2>2 DEF ChatTyped
  <2>. QED
    BY <1>5, <2>2, <2>3
<1>8. CASE AnimationFrame(c, g) /\ T.active = g
  <2>. DEFINE t == [T EXCEPT !.raf = @ \ {g}]
              u == [t EXCEPT !.active = 0, !.dirty = FALSE]
  <2>1. t \in TurnState /\ t.active = T.active /\ t.got = T.got /\ (t.dirty <=> T.dirty)
    BY <1>2 DEF TurnState
  <2>2. u \in TurnState /\ ~u.dirty
    BY <1>2 DEF TurnState
  <2>3. u.posts = T.posts /\ u.reply = T.reply /\ u.got = T.got /\ u.ends = T.ends /\ u.at = T.at
    BY <1>2 DEF TurnState
  <2>4. (u.started <=> T.started) /\ (u.aborted <=> T.aborted) /\ (u.stopped <=> T.stopped) /\ (u.bare <=> T.bare)
    BY <1>2 DEF TurnState
  <2>5. turn' = [turn EXCEPT ![c] = u] /\ list' = IF t.dirty THEN Paint(c, t.got) ELSE list
    BY <1>8, <2>1 DEF AnimationFrame
  <2>. HIDE DEF t, u
  <2>6. SameTurn(T, u)
    BY <2>3, <2>4 DEF SameTurn
  <2>7. ListTyped' /\ ListInv'
    <3>1. CASE T.dirty
      <4>1. T.at = "streaming" /\ T.got \in Nat
        BY <1>2, <3>1 DEF TurnInv, PaintedBefore, TurnState
      <4>2. list' = Paint(c, T.got)
        BY <2>1, <2>5, <3>1
      <4>. QED
        BY <1>1, <2>2, <2>3, <2>5, <4>1, <4>2, ListStep
    <3>2. CASE ~T.dirty
      BY <1>1, <2>1, <2>2, <2>3, <2>4, <2>5, <3>2, ListStays
    <3>. QED
      BY <3>1, <3>2
  <2>. QED
    BY <1>4, <2>2, <2>3, <2>5, <2>6, <2>7
<1>. QED
  BY <1>6, <1>7, <1>8

\* The finally of handleChat, whether the stream or the other endpoint has ended the turn.
LEMMA FinishKeeps ==
  ASSUME ChatsInv, NEW c \in Turns, turn[c].at \in {"streaming", "fallback"}, NEW s \in StreamState,
         TurnInv(turn[c], s), stream_of' = [stream_of EXCEPT ![c] = s],
         turn' = [turn EXCEPT ![c] = Settle(@)], ref' = None,
         list' = None \/ list' = IF turn[c].dirty THEN Paint(c, turn[c].got) ELSE list
  PROVE  ChatsInv'
<1>. DEFINE T == turn[c]
            u == Settle(T)
<1>1. ChatTyped /\ TurnsInv /\ ListInv
  BY DEF ChatsInv
<1>2. T \in TurnState
  BY <1>1 DEF ChatTyped
<1>3. u \in TurnState /\ SameTurn(T, u) /\ u.at = "over" /\ ~u.dirty
  BY <1>2, BatcherProperties
<1>4. turn' = [turn EXCEPT ![c] = u]
  BY <1>1 DEF ChatTyped
<1>. HIDE DEF u
<1>5. TurnInv(u, s)
  BY <1>2, <1>3, TurnChanged
<1>6. turn' \in [Turns -> TurnState] /\ stream_of' \in [Turns -> StreamState] /\ TurnsInv'
  BY <1>1, <1>3, <1>4, <1>5, TurnStep
<1>7. ListTyped' /\ ListInv'
  <2>1. CASE list' = None
    BY <2>1 DEF ListTyped, ListInv
  <2>2. CASE list' # None /\ T.dirty
    <3>1. list' = Paint(c, T.got) /\ T.got \in Nat /\ T.got = u.got
      BY <1>2, <1>3, <2>2 DEF TurnState, SameTurn
    <3>. QED
      BY <1>1, <1>3, <1>4, <3>1, ListStep
  <2>3. CASE list' # None /\ ~T.dirty
    <3>1. list' = list /\ T.got = u.got /\ (T.bare <=> u.bare)
      BY <1>3, <2>3 DEF SameTurn
    <3>. QED
      BY <1>1, <1>3, <1>4, <2>3, <3>1, ListStays
  <2>. QED
    BY <2>1, <2>2, <2>3
<1>. QED
  BY <1>6, <1>7, ChatsInvParts

\* The events of a stream, as the turn handles them.
LEMMA EventsKeep ==
  ASSUME ChatsInv, NEW c \in Turns, OnText(c) \/ OnEnd(c)
  PROVE  ChatsInv'
<1>. DEFINE T == turn[c]
            S == stream_of[c]
            s == [S EXCEPT !.frames = Tail(@)]
            e == Head(S.frames)
<1>1. ChatTyped /\ TurnsInv /\ ListInv
  BY DEF ChatsInv
<1>2. T \in TurnState /\ S \in StreamState /\ TurnInv(T, S)
  BY <1>1 DEF ChatTyped, TurnsInv
<1>3. ref' = ref /\ T.at = "streaming" /\ ~T.aborted /\ S.frames # <<>>
  BY DEF OnText, OnEnd, Streaming
<1>4. stream_of' = [stream_of EXCEPT ![c] = s]
  BY <1>1 DEF OnText, OnEnd, ChatTyped
<1>5. /\ s \in StreamState /\ TurnInv(T, s) /\ e \in FrameState
      /\ e.type \in EndTypes => s.frames = <<>> /\ s.at \in {"answered", "ended"} /\ T.ends = 0
  <2>1. /\ s \in StreamState /\ TurnInv(T, s) /\ e \in FrameState
        /\ e.type \in EndTypes => Tail(S.frames) = <<>> /\ S.at \in {"answered", "ended"} /\ T.ends = 0
    <3>. HIDE DEF T, S
    <3>. QED
      BY <1>2, <1>3, FrameRead
  <2>2. s.frames = Tail(S.frames) /\ s.at = S.at
    BY <1>2 DEF StreamState
  <2>. QED
    BY <2>1, <2>2
<1>6. T.reply = None /\ ~Untaken(s)
  <2>1. DOMAIN S.frames # {}
    <3>. DEFINE fs == S.frames
    <3>1. fs \in Seq(FrameState) /\ fs # <<>>
      BY <1>2, <1>3 DEF StreamState
    <3>. HIDE DEF fs
    <3>2. 1 \in DOMAIN fs
      BY <3>1
    <3>. QED
      BY <3>2 DEF fs
  <2>2. s.at = S.at
    BY <1>2 DEF StreamState
  <2>. QED
    BY <1>2, <1>3, <2>1, <2>2 DEF TurnInv, SentOnceEach, Untaken
<1>. HIDE DEF s
<1>7. ASSUME NEW u \in TurnState, TurnInv(u, s), turn' = [turn EXCEPT ![c] = u],
             ListTyped' /\ ListInv'
      PROVE  ChatsInv'
  <2>1. turn' \in [Turns -> TurnState] /\ stream_of' \in [Turns -> StreamState] /\ TurnsInv'
    BY <1>1, <1>4, <1>5, <1>7, TurnStep
  <2>. QED
    BY <1>1, <1>3, <1>7, <2>1, ChatsInvParts DEF ChatTyped
<1>8. CASE OnText(c) /\ e.type = "start"
  <2>. DEFINE u == [T EXCEPT !.started = TRUE]
  <2>1. u \in TurnState /\ u.started
    BY <1>2 DEF TurnState
  <2>2. u.posts = T.posts /\ u.reply = T.reply /\ u.got = T.got /\ u.ends = T.ends /\ u.at = T.at
    BY <1>2 DEF TurnState
  <2>3. (u.aborted <=> T.aborted) /\ (u.stopped <=> T.stopped) /\ (u.bare <=> T.bare) /\ (u.dirty <=> T.dirty)
    BY <1>2 DEF TurnState
  <2>4. turn' = [turn EXCEPT ![c] = u] /\ list' = list
    BY <1>1, <1>8 DEF OnText, ChatTyped
  <2>. HIDE DEF u
  <2>5. TurnInv(u, s)
    BY <1>3, <1>5, <1>6, <2>1, <2>2, <2>3 DEF TurnInv, EndsOnce, SentOnceEach, Untaken, PaintedBefore
  <2>6. ListTyped' /\ ListInv'
    BY <1>1, <1>3, <2>1, <2>2, <2>3, <2>4, ListStays
  <2>. QED
    BY <1>7, <2>1, <2>4, <2>5, <2>6
<1>9. CASE OnText(c) /\ e.type # "start"
  <2>. DEFINE t0 == [T EXCEPT !.started = TRUE]
              t == [t0 EXCEPT !.got = t0.got + 1]
              u == Schedule(t)
  <2>12. t0 \in TurnState
    BY <1>2 DEF TurnState
  <2>10. t0.got + 1 \in Nat
    <3>. HIDE DEF t0
    <3>. QED
      BY <2>12 DEF TurnState
  <2>1. t \in TurnState /\ t.started
    BY <1>2, <2>10, <2>12 DEF TurnState
  <2>2. t.posts = T.posts /\ t.reply = T.reply /\ t.ends = T.ends /\ t.at = T.at
    BY <1>2 DEF TurnState
  <2>3. (t.aborted <=> T.aborted) /\ (t.stopped <=> T.stopped) /\ (t.bare <=> T.bare) /\ (t.dirty <=> T.dirty)
    BY <1>2 DEF TurnState
  <2>11. turn' = [turn EXCEPT ![c] = IF e.type = "start" THEN t0 ELSE Schedule(t)] /\ list' = list
    BY <1>9 DEF OnText
  <2>4. turn' = [turn EXCEPT ![c] = u] /\ list' = list
    BY <1>9, <2>11
  <2>. HIDE DEF t
  <2>5. u \in TurnState /\ SameTurn(t, u) /\ u.at = t.at /\ u.dirty
    BY <2>1, BatcherProperties
  <2>. HIDE DEF u
  <2>6. TurnInv(t, s)
    BY <1>3, <1>5, <1>6, <2>1, <2>2, <2>3 DEF TurnInv, EndsOnce, SentOnceEach, Untaken, PaintedBefore
  <2>7. u.started
    BY <2>1, <2>5 DEF SameTurn
  <2>8. TurnInv(u, s)
    BY <1>3, <1>5, <2>1, <2>2, <2>5, <2>6, <2>7, TurnChanged
  <2>9. ListTyped' /\ ListInv'
    BY <1>1, <1>3, <2>2, <2>4, <2>5, ListStays
  <2>. QED
    BY <1>7, <2>4, <2>5, <2>8, <2>9
<1>10. CASE OnEnd(c)
  <2>. DEFINE t == Cancel(T)
              bare == e.ver = None
              u == [t EXCEPT !.finished = TRUE, !.ends = t.ends + 1, !.bare = bare]
  <2>1. t \in TurnState /\ SameTurn(T, t) /\ t.at = T.at /\ ~t.dirty
    BY <1>2, BatcherProperties
  <2>2. turn' = [turn EXCEPT ![c] = u]
    BY <1>10 DEF OnEnd
  <2>3. /\ list' = IF ~bare THEN None ELSE IF T.got = 0 THEN Paint(c, None) ELSE list
        /\ e.type \in EndTypes
    BY <1>10 DEF OnEnd, EndTypes
  <2>. HIDE DEF t
  <2>4. bare \in BOOLEAN
    OBVIOUS
  <2>. HIDE DEF bare
  <2>10. t.ends + 1 \in Nat
    BY <2>1 DEF TurnState
  <2>5. u \in TurnState
    BY <2>1, <2>4, <2>10 DEF TurnState
  <2>6. u.posts = t.posts /\ u.reply = t.reply /\ u.got = t.got /\ u.ends = t.ends + 1 /\ u.at = t.at
    BY <2>1 DEF TurnState
  <2>7. (u.started <=> t.started) /\ (u.aborted <=> t.aborted) /\ (u.stopped <=> t.stopped) /\ (u.dirty <=> t.dirty) /\ (u.bare <=> bare)
    BY <2>1 DEF TurnState
  <2>. HIDE DEF u, e
  <2>8. TurnInv(u, s)
    <3>1. s.frames = <<>> /\ s.at \in {"answered", "ended"} /\ u.ends = 1
      BY <1>5, <2>1, <2>3, <2>6 DEF SameTurn
    <3>2. EndsOnce(u, s)
      BY <1>5, <2>1, <2>7, <3>1 DEF TurnInv, EndsOnce, SameTurn
    <3>3. SentOnceEach(u, s)
      BY <1>3, <1>5, <1>6, <2>1, <2>6, <2>7 DEF TurnInv, SentOnceEach, Untaken, SameTurn
    <3>4. PaintedBefore(u)
      BY <1>3, <2>1, <2>6, <2>7 DEF PaintedBefore
    <3>. QED
      BY <3>2, <3>3, <3>4 DEF TurnInv
  <2>9. ListTyped' /\ ListInv'
    <3>1. CASE ~bare
      BY <2>3, <3>1 DEF ListTyped, ListInv
    <3>2. CASE bare /\ T.got = 0
      <4>1. list' = Paint(c, None)
        BY <2>3, <3>2
      <4>. QED
        BY <1>1, <1>3, <2>1, <2>2, <2>5, <2>6, <4>1, ListStep
    <3>3. CASE bare /\ T.got # 0
      BY <1>1, <1>3, <2>1, <2>2, <2>3, <2>5, <2>6, <2>7, <3>3, ListStays
    <3>. QED
      BY <3>1, <3>2, <3>3
  <2>. QED
    BY <1>7, <2>2, <2>5, <2>8, <2>9
<1>. QED
  BY <1>8, <1>9, <1>10

\* The handlers: a turn begins, ends, goes to the other endpoint, or is stopped.
LEMMA HandlersKeep ==
  ASSUME DashTyped, ChatsInv, NEW c \in Turns, version' \in Versions,
         \/ HandleChat(c) \/ StreamEnds(c) \/ StreamFails(c) \/ OnRefusal(c)
         \/ FallbackServed(c) \/ FallbackAnswered(c) \/ FallbackFails(c) \/ Stopped(c)
  PROVE  ChatsInv'
<1>. DEFINE T == turn[c]
            S == stream_of[c]
            s == [S EXCEPT !.frames = <<>>]
<1>1. ChatTyped /\ TurnsInv /\ ListInv
  BY DEF ChatsInv
<1>2. T \in TurnState /\ S \in StreamState /\ TurnInv(T, S)
  BY <1>1 DEF ChatTyped, TurnsInv
<1>3. s \in StreamState /\ TurnInv(T, s)
  <2>. HIDE DEF T, S
  <2>. QED
    BY <1>2, FrameRead
<1>4. stream_of' = stream_of => stream_of' = [stream_of EXCEPT ![c] = S]
  BY <1>1 DEF ChatTyped
<1>5. stream_of' = [stream_of EXCEPT ![c].frames = <<>>] => stream_of' = [stream_of EXCEPT ![c] = s]
  BY <1>1 DEF ChatTyped
<1>. HIDE DEF s
<1>6. ASSUME NEW u \in TurnState, NEW r \in StreamState, TurnInv(u, r), turn' = [turn EXCEPT ![c] = u],
             stream_of' = [stream_of EXCEPT ![c] = r],
             ref' \in Turns \union {None}, ListTyped' /\ ListInv'
      PROVE  ChatsInv'
  <2>1. turn' \in [Turns -> TurnState] /\ stream_of' \in [Turns -> StreamState] /\ TurnsInv'
    BY <1>1, <1>6, TurnStep
  <2>. QED
    BY <1>6, <2>1, ChatsInvParts
<1>7. CASE HandleChat(c)
  <2>. DEFINE u == [T EXCEPT !.at = "streaming"]
  <2>1. T.at = "off" /\ turn' = [turn EXCEPT ![c] = u] /\ list' = [turn |-> c, text |-> 0] /\ ref' = c
        /\ stream_of' = stream_of
    BY <1>1, <1>7 DEF HandleChat, ChatTyped
  <2>2. u \in TurnState /\ u.at = "streaming"
    BY <1>2 DEF TurnState
  <2>3. u.posts = T.posts /\ u.reply = T.reply /\ u.got = T.got /\ u.ends = T.ends
    BY <1>2 DEF TurnState
  <2>4. (u.started <=> T.started) /\ (u.aborted <=> T.aborted) /\ (u.stopped <=> T.stopped) /\ (u.bare <=> T.bare) /\ (u.dirty <=> T.dirty)
    BY <1>2 DEF TurnState
  <2>. HIDE DEF u
  <2>5. TurnInv(u, S) /\ u.got = 0
    BY <1>2, <2>1, <2>2, <2>3, <2>4 DEF TurnInv, EndsOnce, SentOnceEach, Untaken, PaintedBefore
  <2>6. ListTyped' /\ ListInv'
    <3>1. turn'[c] = u
      BY <1>1, <2>1 DEF ChatTyped
    <3>. QED
      BY <2>1, <2>2, <2>5, <3>1 DEF ListTyped, ListInv
  <2>. QED
    BY <1>2, <1>4, <1>6, <2>1, <2>2, <2>5, <2>6
<1>8. CASE StreamEnds(c)
  BY <1>2, <1>4, <1>8, FinishKeeps DEF StreamEnds, Finish, Streaming
<1>9. CASE StreamFails(c) /\ T.started
  BY <1>2, <1>3, <1>5, <1>9, FinishKeeps DEF StreamFails, Finish, Streaming
<1>10. ASSUME NEW r \in StreamState, TurnInv(T, r), stream_of' = [stream_of EXCEPT ![c] = r],
              turn' = [turn EXCEPT ![c].at = "fallback"], list' = list, ref' = ref,
              T.at = "streaming", ~T.started, ~T.aborted \/ r.at = "refused"
       PROVE  ChatsInv'
  <2>. DEFINE u == [T EXCEPT !.at = "fallback"]
  <2>1. turn' = [turn EXCEPT ![c] = u]
    BY <1>1, <1>10 DEF ChatTyped
  <2>2. u \in TurnState /\ u.at = "fallback"
    BY <1>2 DEF TurnState
  <2>3. u.posts = T.posts /\ u.reply = T.reply /\ u.got = T.got /\ u.ends = T.ends
    BY <1>2 DEF TurnState
  <2>4. (u.started <=> T.started) /\ (u.aborted <=> T.aborted) /\ (u.stopped <=> T.stopped) /\ (u.bare <=> T.bare) /\ (u.dirty <=> T.dirty)
    BY <1>2 DEF TurnState
  <2>. HIDE DEF u
  <2>5. TurnInv(u, r)
    BY <1>10, <2>2, <2>3, <2>4 DEF TurnInv, EndsOnce, SentOnceEach, Untaken, PaintedBefore
  <2>6. ListTyped' /\ ListInv'
    BY <1>1, <1>10, <2>1, <2>2, <2>3, <2>4, ListStays
  <2>. QED
    BY <1>1, <1>6, <1>10, <2>1, <2>2, <2>5, <2>6 DEF ChatTyped
<1>15. CASE StreamFails(c) /\ ~T.started
  BY <1>3, <1>5, <1>10, <1>15 DEF StreamFails, Streaming
<1>16. CASE OnRefusal(c)
  <2>1. S.at = "refused" /\ T.at = "streaming"
    BY <1>16 DEF OnRefusal, Streaming
  <2>2. ~T.started
    BY <1>2, <2>1 DEF TurnInv, SentOnceEach, Untaken
  <2>. QED
    BY <1>2, <1>4, <1>10, <1>16, <2>1, <2>2 DEF OnRefusal
<1>11. CASE FallbackServed(c)
  <2>. DEFINE u == [T EXCEPT !.reply = version', !.posts = @ + 1]
  <2>1. /\ T.at = "fallback" /\ T.reply = None /\ turn' = [turn EXCEPT ![c] = u]
        /\ list' = list /\ ref' = ref /\ stream_of' = stream_of
    BY <1>1, <1>11 DEF FallbackServed, ChatTyped
  <2>2. version' \in Shown /\ version' # None
    BY ConstantFacts DEF Shown
  <2>8. T.posts + 1 \in Nat
    BY <1>2 DEF TurnState
  <2>3. u \in TurnState
    BY <1>2, <2>2, <2>8 DEF TurnState
  <2>4. u.posts = T.posts + 1 /\ u.reply = version' /\ u.got = T.got /\ u.ends = T.ends /\ u.at = T.at
    BY <1>2 DEF TurnState
  <2>5. (u.started <=> T.started) /\ (u.aborted <=> T.aborted) /\ (u.stopped <=> T.stopped) /\ (u.bare <=> T.bare) /\ (u.dirty <=> T.dirty)
    BY <1>2 DEF TurnState
  <2>. HIDE DEF u
  <2>6. TurnInv(u, S)
    BY <1>2, <2>1, <2>2, <2>4, <2>5 DEF TurnInv, EndsOnce, SentOnceEach, Untaken, PaintedBefore
  <2>7. ListTyped' /\ ListInv'
    BY <1>1, <2>1, <2>3, <2>4, <2>5, ListStays
  <2>. QED
    BY <1>1, <1>2, <1>4, <1>6, <2>1, <2>3, <2>6, <2>7 DEF ChatTyped
<1>12. CASE FallbackAnswered(c)
  BY <1>2, <1>4, <1>12, FinishKeeps DEF FallbackAnswered
<1>13. CASE FallbackFails(c)
  BY <1>2, <1>4, <1>13, FinishKeeps DEF FallbackFails, Finish
<1>14. CASE Stopped(c)
  BY <1>2, <1>3, <1>5, <1>14, FinishKeeps DEF Stopped, Finish, Streaming
<1>. QED
  BY <1>7, <1>8, <1>9, <1>11, <1>12, <1>13, <1>14, <1>15, <1>16

\* Stop marks the turn the references name, whichever it is.
LEMMA StopKeeps ==
  ASSUME ChatsInv, HandleStopChat
  PROVE  ChatsInv'
<1>1. ChatTyped /\ TurnsInv /\ ListInv
  BY DEF ChatsInv
<1>2. stream_of' = stream_of /\ list' = list /\ ref' = ref /\ ref \in Turns \union {None}
  BY <1>1 DEF HandleStopChat, ChatTyped
<1>3. CASE ref = None
  <2>1. turn' = turn
    BY <1>3 DEF HandleStopChat
  <2>. QED
    BY <1>1, <1>2, <2>1 DEF ChatsInv, ChatTyped, TurnsInv, ListInv
<1>4. CASE ref # None
  <2>. DEFINE T == turn[ref]
              S == stream_of[ref]
              u == [T EXCEPT !.aborted = TRUE, !.stopped = @ \/ Streaming(ref)]
  <2>1. ref \in Turns /\ T \in TurnState /\ S \in StreamState /\ TurnInv(T, S)
    BY <1>1, <1>2, <1>4 DEF ChatTyped, TurnsInv
  <2>2. turn' = [turn EXCEPT ![ref] = u]
    BY <1>1, <1>4 DEF HandleStopChat, ChatTyped
  <2>10. (T.stopped \/ Streaming(ref)) \in BOOLEAN
    BY <2>1 DEF TurnState, Streaming
  <2>3. u \in TurnState /\ u.aborted /\ (u.stopped => T.stopped \/ T.at = "streaming")
    BY <2>1, <2>10 DEF TurnState, Streaming
  <2>4. u.posts = T.posts /\ u.reply = T.reply /\ u.got = T.got /\ u.ends = T.ends /\ u.at = T.at
    BY <2>1 DEF TurnState
  <2>5. (u.started <=> T.started) /\ (u.bare <=> T.bare) /\ (u.dirty <=> T.dirty)
    BY <2>1 DEF TurnState
  <2>. HIDE DEF u
  <2>6. TurnInv(u, S)
    BY <2>1, <2>3, <2>4, <2>5 DEF TurnInv, EndsOnce, SentOnceEach, Untaken, PaintedBefore
  <2>7. stream_of' = [stream_of EXCEPT ![ref] = S]
    BY <1>1, <1>2, <2>1 DEF ChatTyped
  <2>8. turn' \in [Turns -> TurnState] /\ stream_of' \in [Turns -> StreamState] /\ TurnsInv'
    BY <1>1, <2>1, <2>2, <2>3, <2>6, <2>7, TurnStep
  <2>9. ListTyped' /\ ListInv'
    BY <1>1, <1>2, <2>1, <2>2, <2>3, <2>4, <2>5, ListStays
  <2>. QED
    BY <1>1, <1>2, <2>8, <2>9, ChatsInvParts DEF ChatTyped
<1>. QED
  BY <1>3, <1>4

\* The steps of a turn that leave the server, the event stream, the view and the requests.
Apart(c) ==
    \/ Register(c) \/ Refuse(c) \/ Unregister(c) \/ AbortArrives(c) \/ Token(c)
    \/ \E g \in turn[c].raf : AnimationFrame(c, g) \/ DropFrame(c, g)
    \/ HandleChat(c) \/ OnText(c) \/ StreamEnds(c) \/ StreamFails(c) \/ OnRefusal(c)
    \/ FallbackFails(c) \/ Stopped(c)
\* Those that change the server's state, or announce it.
Publishing(c) == Reply(c) \/ Aborts(c) \/ FallbackServed(c) \/ \E bare \in BOOLEAN : Breaks(c, bare)
\* Those that show the state they bring.
Showing(c) == OnEnd(c) \/ FallbackAnswered(c)

\* Every step of the chat is one of these, or of the requests that reset it.
LEMMA ChatStepsAre ==
  ASSUME ChatSteps
  PROVE  \/ \E c \in Turns : Apart(c) \/ Publishing(c) \/ Showing(c)
         \/ HandleStopChat
         \/ \E kind \in {"reset", "wipe"} : RequestReset(kind)
         \/ \E i \in DOMAIN flight : ResetAnswered(i)
  BY DEF ChatSteps, Apart, Publishing, Showing

\* What they leave.
LEMMA ApartStays ==
  ASSUME NEW c \in Turns, Apart(c)
  PROVE  UNCHANGED <<server, stream, view, lastSummary, flight>>
<1>1. ASSUME Register(c) \/ Refuse(c) \/ Unregister(c) \/ AbortArrives(c) \/ OnRefusal(c)
      PROVE  UNCHANGED <<server, stream, view, lastSummary, flight>>
  BY <1>1 DEF Register, Refuse, Unregister, AbortArrives, OnRefusal, dashVars
<1>2. ASSUME NEW g \in turn[c].raf, AnimationFrame(c, g) \/ DropFrame(c, g)
      PROVE  UNCHANGED <<server, stream, view, lastSummary, flight>>
  BY <1>2 DEF AnimationFrame, DropFrame, dashVars
<1>3. ASSUME Token(c) \/ HandleChat(c) \/ OnText(c) PROVE UNCHANGED <<server, stream, view, lastSummary, flight>>
  BY <1>3 DEF Token, HandleChat, OnText, dashVars
<1>4. ASSUME StreamEnds(c) \/ StreamFails(c) PROVE UNCHANGED <<server, stream, view, lastSummary, flight>>
  BY <1>4 DEF StreamEnds, StreamFails
<1>5. ASSUME FallbackFails(c) \/ Stopped(c) PROVE UNCHANGED <<server, stream, view, lastSummary, flight>>
  BY <1>5 DEF FallbackFails, Stopped
<1>. QED
  BY <1>1, <1>2, <1>3, <1>4, <1>5 DEF Apart

\* What is published is the server's state, in an event of type "state".
LEMMA PublishingOffers ==
  ASSUME DashTyped, NEW c \in Turns, Publishing(c)
  PROVE  /\ version' \in Versions /\ version <= version' /\ told' \in Versions
         /\ UNCHANGED <<executor, sse, view, busy, lastSummary, flight>>
         /\ \/ UNCHANGED <<version, told, wire>>
            \/ told' = version' /\ Offer(Event("state", version', FALSE))
<1>0. version \in Versions /\ version <= version /\ told \in Versions
  BY ConstantFacts DEF DashTyped
<1>1. ASSUME Reply(c) \/ FallbackServed(c)
      PROVE  /\ version' = IF version < MaxVersion THEN version + 1 ELSE version
             /\ told' = version' /\ Offer(Event("state", version', FALSE))
             /\ UNCHANGED <<executor, sse, view, busy, lastSummary, flight>>
  BY <1>1 DEF Reply, FallbackServed
<1>2. ASSUME Aborts(c) \/ \E bare \in BOOLEAN : Breaks(c, bare)
      PROVE  /\ version' = version
             /\ UNCHANGED <<told, wire>> \/ (told' = version' /\ Offer(Event("state", version', FALSE)))
             /\ UNCHANGED <<executor, sse, view, busy, lastSummary, flight>>
  BY <1>2 DEF Aborts, Breaks
<1>3. CASE Reply(c) \/ FallbackServed(c)
  BY <1>0, <1>1, <1>3, NextVersion
<1>4. CASE Aborts(c) \/ \E bare \in BOOLEAN : Breaks(c, bare)
  BY <1>0, <1>2, <1>4
<1>. QED
  BY <1>3, <1>4 DEF Publishing

\* What a turn shows is what it brings.
LEMMA ShowingShows ==
  ASSUME ChatTyped, NEW c \in Turns, Showing(c)
  PROVE  /\ UNCHANGED <<server, stream, badge, notice, lastSummary, flight>>
         /\ \/ UNCHANGED <<shown, newest>>
            \/ \E v \in Versions : /\ shown' = v /\ newest' = LaterOf(newest, v)
                                   /\ \/ v = turn[c].reply
                                      \/ stream_of[c].frames # <<>> /\ v = stream_of[c].frames[1].ver
<1>1. turn[c].reply \in Shown /\ stream_of[c].frames \in Seq(FrameState)
  BY DEF ChatTyped, TurnState, StreamState
<1>2. CASE OnEnd(c)
  <2>. DEFINE e == Head(stream_of[c].frames)
  <2>1. stream_of[c].frames # <<>> /\ e = stream_of[c].frames[1] /\ e \in FrameState
    BY <1>1, <1>2 DEF OnEnd
  <2>2. /\ shown' = IF e.ver = None THEN shown ELSE e.ver
        /\ newest' = IF e.ver = None THEN newest ELSE LaterOf(newest, e.ver)
        /\ UNCHANGED <<server, stream, badge, notice, lastSummary, flight>>
    BY <1>2 DEF OnEnd
  <2>. HIDE DEF e
  <2>3. e.ver # None => e.ver \in Versions
    BY <2>1 DEF FrameState, Shown
  <2>. QED
    BY <2>1, <2>2, <2>3
<1>3. CASE FallbackAnswered(c)
  BY <1>1, <1>3 DEF FallbackAnswered, Shown
<1>. QED
  BY <1>2, <1>3 DEF Showing

\* Every step of the chat keeps the types of the Dashboard.
LEMMA ChatKeepsTypes ==
  ASSUME DashTyped, ChatTyped, ChatSteps
  PROVE  DashTyped'
<1>1. ASSUME NEW c \in Turns, Apart(c) PROVE DashTyped'
  BY <1>1, ApartStays DEF DashTyped, server, stream, view
<1>2. ASSUME NEW c \in Turns, Publishing(c) PROVE DashTyped'
  <2>1. /\ version' \in Versions /\ told' \in Versions
        /\ UNCHANGED <<executor, sse, view, busy, lastSummary, flight>>
        /\ UNCHANGED wire \/ Offer(Event("state", version', FALSE))
    BY <1>2, PublishingOffers
  <2>. DEFINE e == Event("state", version', FALSE)
  <2>2. e \in EventState
    BY <2>1, EventTyped DEF EventTypes, DashTyped
  <2>3. UNCHANGED wire \/ Offer(e)
    BY <2>1
  <2>. HIDE DEF e
  <2>4. wire' \in Seq(EventState)
    BY <2>2, <2>3, OfferProperties DEF DashTyped
  <2>. QED
    BY <2>1, <2>4 DEF DashTyped, view
<1>3. ASSUME NEW c \in Turns, Showing(c) PROVE DashTyped'
  <2>1. shown' \in Shown /\ newest' \in Shown
    BY <1>3, ShowingShows, LaterTyped DEF DashTyped, Shown
  <2>2. UNCHANGED <<server, stream, flight>>
    BY <1>3, ShowingShows
  <2>. QED
    BY <2>1, <2>2 DEF DashTyped, server, stream
<1>4. CASE HandleStopChat
  BY <1>4 DEF HandleStopChat, DashTyped, server, stream, view
<1>5. ASSUME NEW kind \in {"reset", "wipe"}, RequestReset(kind) PROVE DashTyped'
  <2>. DEFINE r == Request(kind, "none")
  <2>1. r \in RequestState
    BY RequestTyped DEF Kinds
  <2>2. flight' = Append(flight, r)
    BY <1>5 DEF RequestReset
  <2>. HIDE DEF r
  <2>3. flight' \in Seq(RequestState)
    BY <2>1, <2>2 DEF DashTyped
  <2>. QED
    BY <1>5, <2>3 DEF RequestReset, DashTyped, server, stream, view
<1>6. ASSUME NEW i \in DOMAIN flight, ResetAnswered(i) PROVE DashTyped'
  <2>1. flight[i] \in RequestState
    BY DEF DashTyped
  <2>2. flight[i].ver \in Shown
    BY <2>1 DEF RequestState
  <2>3. shown' \in Shown /\ newest' \in Shown
    BY <1>6, <2>2, LaterTyped DEF ResetAnswered, DashTyped
  <2>4. flight' \in Seq(RequestState)
    BY <1>6, RemoveAtProperties DEF ResetAnswered, DashTyped
  <2>. QED
    BY <1>6, <2>3, <2>4 DEF ResetAnswered, DashTyped, server, stream
<1>. QED
  BY <1>1, <1>2, <1>3, <1>4, <1>5, <1>6, ChatStepsAre

\* Types, turns and the message list: an invariant on its own.
TurnsHold == DashTyped /\ ChatsInv

\* Every step keeps it.
THEOREM TurnsHoldInductive ==
  ASSUME TurnsHold, [ChatNext]_allVars
  PROVE  TurnsHold'
<1>. USE DEF TurnsHold
<1>1. CASE ChatSteps
  <2>1. DashTyped' /\ version' \in Versions
    BY <1>1, ChatKeepsTypes DEF ChatsInv, DashTyped
  <2>2. ASSUME NEW c \in Turns, Apart(c) \/ Publishing(c) \/ Showing(c) PROVE ChatsInv'
    <3>1. \/ Register(c) \/ Refuse(c) \/ Token(c) \/ Reply(c) \/ Aborts(c) \/ Unregister(c) \/ AbortArrives(c)
          \/ \E bare \in BOOLEAN : Breaks(c, bare)
          \/ \E g \in turn[c].raf : AnimationFrame(c, g) \/ DropFrame(c, g)
          \/ OnText(c) \/ OnEnd(c)
          \/ HandleChat(c) \/ StreamEnds(c) \/ StreamFails(c) \/ OnRefusal(c)
          \/ FallbackServed(c) \/ FallbackAnswered(c) \/ FallbackFails(c) \/ Stopped(c)
      BY <2>2 DEF Apart, Publishing, Showing
    <3>. QED
      BY <2>1, <3>1, StreamStepsKeep, FrameStepsKeep, EventsKeep, HandlersKeep
  <2>3. ASSUME UNCHANGED chatVars PROVE ChatsInv'
    BY <2>3 DEF ChatsInv, ChatTyped, TurnsInv, ListInv, chatVars
  <2>4. ASSUME NEW kind \in {"reset", "wipe"}, RequestReset(kind) PROVE ChatsInv'
    BY <2>3, <2>4 DEF RequestReset
  <2>5. ASSUME NEW i \in DOMAIN flight, ResetAnswered(i) PROVE ChatsInv'
    BY <2>5 DEF ResetAnswered, ChatsInv, ChatTyped, TurnsInv, ListInv
  <2>. QED
    BY <1>1, <2>1, <2>2, <2>4, <2>5, ChatStepsAre, StopKeeps
<1>2. CASE DashNext /\ UNCHANGED chatVars
  <2>1. DashTyped'
    BY <1>2, ServerTyped, ClientTyped DEF DashNext
  <2>2. ChatsInv'
    BY <1>2 DEF ChatsInv, ChatTyped, TurnsInv, ListInv, chatVars
  <2>. QED
    BY <2>1, <2>2
<1>3. CASE UNCHANGED allVars
  BY <1>3 DEF ChatsInv, ChatTyped, TurnsInv, ListInv, chatVars, allVars, dashVars, DashTyped, server, stream, view
<1>. QED
  BY <1>1, <1>2, <1>3 DEF ChatNext

\* So the types and what holds of each turn always hold, for any number of turns.
THEOREM TurnsHoldAlways == ChatSpec => []TurnsHold
<1>1. ASSUME DashInit, ChatInit PROVE TurnsHold
  <2>1. DashTyped
    <3>1. Request("snapshot", "none") \in RequestState
      BY RequestTyped DEF Kinds
    <3>. DEFINE r == Request("snapshot", "none")
    <3>2. r \in RequestState /\ flight = <<r>>
      BY <1>1, <3>1 DEF DashInit
    <3>. HIDE DEF r
    <3>3. flight \in Seq(RequestState)
      BY <3>2
    <3>4. wire \in Seq(EventState) /\ 0 \in Versions /\ None \in Shown
      BY <1>1, ConstantFacts DEF DashInit, Versions, Shown
    <3>. QED
      BY <1>1, <3>3, <3>4 DEF DashInit, DashTyped
  <2>2. Idle \in TurnState /\ NoStream \in StreamState
    BY DEF Idle, TurnState, NoStream, StreamState, Shown
  <2>3. ChatTyped /\ ListInv
    BY <1>1, <2>2 DEF ChatInit, ChatTyped, ListInv
  <2>4. TurnInv(Idle, NoStream)
    BY DEF TurnInv, EndsOnce, SentOnceEach, Untaken, PaintedBefore, Idle, NoStream
  <2>5. TurnsInv
    BY <1>1, <2>4 DEF TurnsInv, ChatInit
  <2>. QED
    BY <2>1, <2>3, <2>5 DEF TurnsHold, ChatsInv
<1>. QED
  BY <1>1, TurnsHoldInductive, PTL DEF ChatSpec

\* A turn handles one terminal event, whatever the server sends after a stop.
THEOREM OneEndPerTurnHolds == ChatSpec => []OneEndPerTurn
<1>1. TurnsHold => OneEndPerTurn
  BY DEF TurnsHold, ChatsInv, TurnsInv, TurnInv, EndsOnce, OneEndPerTurn
<1>. QED
  BY <1>1, TurnsHoldAlways, PTL

\* A message reaches the server twice only if nothing of its stream was seen, and it was not
\* stopped before its stream failed.
THEOREM SentTwiceOnlyUnseenHolds == ChatSpec => []SentTwiceOnlyUnseen
<1>1. ASSUME TurnsHold, NEW c \in Turns, turn[c].posts > 1
      PROVE  ~turn[c].started /\ turn[c].got = 0 /\ ~turn[c].stopped
  <2>1. SentOnceEach(turn[c], stream_of[c]) /\ turn[c].posts \in Nat
    BY <1>1 DEF TurnsHold, ChatsInv, TurnsInv, TurnInv, ChatTyped, TurnState
  <2>2. turn[c].reply # None /\ stream_of[c].at # "refused"
    BY <1>1, <2>1 DEF SentOnceEach, Untaken
  <2>. QED
    BY <2>1, <2>2 DEF SentOnceEach, Untaken
<1>2. TurnsHold => SentTwiceOnlyUnseen
  BY <1>1 DEF SentTwiceOnlyUnseen
<1>. QED
  BY <1>2, TurnsHoldAlways, PTL

\* The text of a turn that is over is all that came, unless an error without a state ended it.
THEOREM LastTokensPaintedHolds == ChatSpec => []LastTokensPainted
<1>1. ASSUME TurnsHold, list # None, turn[list.turn].at = "over", ~turn[list.turn].bare, list.text # None
      PROVE  list.text = turn[list.turn].got
  <2>1. list.turn \in Turns
    BY <1>1 DEF TurnsHold, ChatsInv, ChatTyped
  <2>2. ~turn[list.turn].dirty
    BY <1>1, <2>1 DEF TurnsHold, ChatsInv, TurnsInv, TurnInv, PaintedBefore
  <2>. QED
    BY <1>1, <2>2 DEF TurnsHold, ChatsInv, ListInv
<1>2. TurnsHold => LastTokensPainted
  BY <1>1 DEF LastTokensPainted
<1>. QED
  BY <1>2, TurnsHoldAlways, PTL

----------------------------------------------------------------------------
(* The busy slot. *)

Waited == {"refresh", "proposal", "initialize"}
\* A request that the spinner may be about.
Causes(r, b) == r.kind = (IF b = "refresh" THEN "snapshot" ELSE b) \/ (b = "initialize" /\ r.owner = "initialize")
Owned(r) == r.owner = "initialize" => r.kind = "snapshot"

\* The invariant, in these terms.
LEMMA BusyInvIs ==
  BusyInv <=> /\ busy \in Waited => \E i \in DOMAIN flight : Causes(flight[i], busy)
              /\ \A i \in DOMAIN flight : Owned(flight[i])
  BY DEF BusyInv, BusyHasACause, Waited, Causes, Owned

\* A request is sent.
LEMMA BusyAppend ==
  ASSUME BusyInv, flight \in Seq(RequestState), NEW r \in RequestState, Owned(r), flight' = Append(flight, r),
         busy' = busy \/ busy' \notin Waited \/ Causes(r, busy')
  PROVE  BusyInv'
<1>1. /\ DOMAIN flight' = DOMAIN flight \union {Len(flight) + 1}
      /\ \A i \in DOMAIN flight : flight'[i] = flight[i]
      /\ flight'[Len(flight) + 1] = r
  BY AppendProperties
<1>2. /\ busy \in Waited => \E i \in DOMAIN flight : Causes(flight[i], busy)
      /\ \A i \in DOMAIN flight : Owned(flight[i])
  BY BusyInvIs
<1>3. \A i \in DOMAIN flight' : Owned(flight'[i])
  BY <1>1, <1>2
<1>4. ASSUME busy' \in Waited PROVE \E i \in DOMAIN flight' : Causes(flight'[i], busy')
  BY <1>1, <1>2, <1>4
<1>. QED
  BY <1>3, <1>4 DEF BusyInv, BusyHasACause, Waited, Causes, Owned

\* A request comes back.
LEMMA BusyRemove ==
  ASSUME BusyInv, flight \in Seq(RequestState), NEW i \in DOMAIN flight, flight' = RemoveAt(flight, i),
         busy' \notin Waited \/ (busy' = busy /\ ~Causes(flight[i], busy))
  PROVE  BusyInv'
<1>1. /\ \A k \in DOMAIN flight' : Before(i, k) \in DOMAIN flight /\ flight'[k] = flight[Before(i, k)]
      /\ \A j \in DOMAIN flight \ {i} : \E k \in DOMAIN flight' : flight'[k] = flight[j]
  BY RemoveAtProperties, RemoveAtKeeps
<1>2. /\ busy \in Waited => \E j \in DOMAIN flight : Causes(flight[j], busy)
      /\ \A j \in DOMAIN flight : Owned(flight[j])
  BY BusyInvIs
<1>3. \A k \in DOMAIN flight' : Owned(flight'[k])
  BY <1>1, <1>2
<1>4. ASSUME busy' \in Waited PROVE \E k \in DOMAIN flight' : Causes(flight'[k], busy')
  <2>1. PICK j \in DOMAIN flight : Causes(flight[j], busy)
    BY <1>2, <1>4
  <2>2. j # i
    BY <1>4, <2>1
  <2>. QED
    BY <1>1, <1>4, <2>1, <2>2
<1>. QED
  BY <1>3, <1>4 DEF BusyInv, BusyHasACause, Waited, Causes, Owned

\* A request is replaced by one that causes no less.
LEMMA BusyReplace ==
  ASSUME BusyInv, flight \in Seq(RequestState), NEW i \in DOMAIN flight, NEW r \in RequestState, Owned(r),
         flight' = [flight EXCEPT ![i] = r],
         \/ busy' = busy /\ (Causes(flight[i], busy) => Causes(r, busy))
         \/ Causes(r, busy')
  PROVE  BusyInv'
<1>1. /\ DOMAIN flight' = DOMAIN flight
      /\ \A k \in DOMAIN flight : flight'[k] = IF k = i THEN r ELSE flight[k]
  BY UpdateProperties
<1>2. /\ busy \in Waited => \E j \in DOMAIN flight : Causes(flight[j], busy)
      /\ \A j \in DOMAIN flight : Owned(flight[j])
  BY BusyInvIs
<1>3. \A k \in DOMAIN flight' : Owned(flight'[k])
  BY <1>1, <1>2
<1>4. ASSUME busy' \in Waited PROVE \E k \in DOMAIN flight' : Causes(flight'[k], busy')
  BY <1>1, <1>2, <1>4
<1>. QED
  BY <1>3, <1>4 DEF BusyInv, BusyHasACause, Waited, Causes, Owned

\* The requests stay, and the slot stays or is given to something else.
LEMMA BusyStays ==
  ASSUME BusyInv, flight' = flight, busy' = busy \/ busy' \notin Waited
  PROVE  BusyInv'
  BY DEF BusyInv, BusyHasACause, Waited

\* What a finally leaves in the slot is not about the request that came back.
LEMMA FinallyLeaves ==
  ASSUME NEW r \in RequestState, Owned(r), Finally(r)
  PROVE  busy' \notin Waited \/ (busy' = busy /\ (busy \in Waited => ~Causes(r, busy)))
  BY DEF Finally, Waited, Causes, Owned, RequestState, Kinds

\* Every step keeps the cause of the spinner, and the owners of the requests.
LEMMA BusyInvKept ==
  ASSUME DashTyped, BusyInv, [ChatNext]_allVars
  PROVE  BusyInv'
<1>0. flight \in Seq(RequestState) /\ \A i \in DOMAIN flight : flight[i] \in RequestState /\ Owned(flight[i])
  BY BusyInvIs DEF DashTyped
<1>1. ASSUME NEW kind \in Kinds, flight' = Append(flight, Request(kind, "none")),
             busy' = busy \/ busy' \notin Waited \/ Causes(Request(kind, "none"), busy')
      PROVE  BusyInv'
  <2>. DEFINE r == Request(kind, "none")
  <2>1. r \in RequestState /\ Owned(r)
    BY RequestTyped DEF Owned
  <2>2. flight' = Append(flight, r) /\ (busy' = busy \/ busy' \notin Waited \/ Causes(r, busy'))
    BY <1>1
  <2>. HIDE DEF r
  <2>. QED
    BY <1>0, <2>1, <2>2, BusyAppend
<1>2. ASSUME LoadSnapshot("none") PROVE BusyInv'
  <2>1. flight' = Append(flight, Request("snapshot", "none")) /\ (busy' = busy \/ busy' = "refresh")
    BY <1>2 DEF LoadSnapshot
  <2>2. Causes(Request("snapshot", "none"), "refresh")
    BY DEF Causes, Request
  <2>. QED
    BY <1>1, <2>1, <2>2 DEF Kinds
<1>3. ASSUME NEW i \in DOMAIN flight, flight' = RemoveAt(flight, i),
             busy' \notin Waited \/ (busy' = busy /\ (busy \in Waited => ~Causes(flight[i], busy)))
      PROVE  BusyInv'
  BY <1>0, <1>3, BusyRemove
<1>4. CASE ServerSteps
  <2>1. UNCHANGED <<flight, busy>>
    BY <1>4 DEF ServerSteps, ChangeElsewhere, WatchTick, WatchFails, ExecutorTurns, Heartbeat, Connect, Disconnect
  <2>. QED
    BY <2>1, BusyStays
<1>5. CASE HandleRefresh \/ Listener
  BY <1>2, <1>5, BusyStays DEF HandleRefresh, Listener
<1>6. CASE Submit \/ HandleInitialize \/ PanelRequest
  <2>1. CASE Submit
    BY <1>1, <2>1 DEF Submit, Kinds, Causes, Request
  <2>2. CASE HandleInitialize
    BY <1>1, <2>2 DEF HandleInitialize, Kinds, Causes, Request
  <2>3. CASE PanelRequest
    BY <1>1, <2>3 DEF PanelRequest, Kinds
  <2>. QED
    BY <1>6, <2>1, <2>2, <2>3
<1>7. ASSUME NEW i \in DOMAIN flight, Serve(i) PROVE BusyInv'
  <2>. DEFINE r == [flight[i] EXCEPT !.ver = version', !.running = executor]
  <2>1. version' \in Shown
    <3>1. version' = version \/ version' = IF version < MaxVersion THEN version + 1 ELSE version
      BY <1>7 DEF Serve
    <3>. QED
      BY <3>1, NextVersion DEF DashTyped, Shown
  <2>2. r \in RequestState /\ r.kind = flight[i].kind /\ r.owner = flight[i].owner
    BY <1>0, <2>1 DEF RequestState, DashTyped
  <2>3. flight' = [flight EXCEPT ![i] = r] /\ busy' = busy
    BY <1>7 DEF Serve
  <2>. HIDE DEF r
  <2>4. Owned(r) /\ (Causes(flight[i], busy) => Causes(r, busy))
    BY <1>0, <2>2 DEF Owned, Causes
  <2>. QED
    BY <1>0, <2>2, <2>3, <2>4, BusyReplace
<1>8. ASSUME NEW i \in DOMAIN flight, Answer(i) PROVE BusyInv'
  <2>1. CASE flight[i].kind = "initialize"
    <3>. DEFINE r == Request("snapshot", "initialize")
    <3>1. r \in RequestState /\ Owned(r) /\ Causes(r, "refresh") /\ Causes(r, "initialize")
      BY RequestTyped DEF Owned, Causes, Kinds
    <3>2. flight' = [flight EXCEPT ![i] = r] /\ busy' = IF busy = "none" THEN "refresh" ELSE busy
      BY <1>8, <2>1 DEF Answer
    <3>3. flight[i].owner # "initialize"
      BY <1>0, <2>1 DEF Owned
    <3>4. Causes(flight[i], busy) => busy = "initialize"
      BY <2>1, <3>3 DEF Causes
    <3>. HIDE DEF r
    <3>. QED
      BY <1>0, <3>1, <3>2, <3>4, BusyReplace
  <2>2. CASE flight[i].kind # "initialize"
    <3>1. flight' = RemoveAt(flight, i) /\ Finally(flight[i])
      BY <1>8, <2>2 DEF Answer
    <3>. QED
      BY <1>0, <1>3, <3>1, FinallyLeaves
  <2>. QED
    BY <2>1, <2>2
<1>9. ASSUME NEW i \in DOMAIN flight, Fail(i) PROVE BusyInv'
  <2>1. flight' = RemoveAt(flight, i) /\ Finally(flight[i])
    BY <1>9 DEF Fail
  <2>. QED
    BY <1>0, <1>3, <2>1, FinallyLeaves
<1>10. ASSUME NEW c \in Turns, Apart(c) \/ Publishing(c) \/ Showing(c) PROVE BusyInv'
  <2>1. flight' = flight
    BY <1>10 DEF Apart, Publishing, Showing, Register, Token, Reply, Aborts, Unregister, AbortArrives, Breaks,
              Refuse, AnimationFrame, DropFrame, OnText, OnEnd, HandleChat, StreamEnds, StreamFails, OnRefusal, FallbackServed,
              FallbackAnswered, FallbackFails, Stopped, dashVars
  <2>2. busy' = busy \/ busy' \in {"none", "chat"}
    BY <1>10 DEF Apart, Publishing, Showing, Register, Token, Reply, Aborts, Unregister, AbortArrives, Breaks,
              Refuse, AnimationFrame, DropFrame, OnText, OnEnd, HandleChat, StreamEnds, StreamFails, OnRefusal, FallbackServed,
              FallbackAnswered, FallbackFails, Stopped, Finish, dashVars
  <2>. QED
    BY <2>1, <2>2, BusyStays DEF Waited
<1>11. CASE HandleStopChat
  BY <1>11, BusyStays DEF HandleStopChat
<1>12. ASSUME NEW kind \in {"reset", "wipe"}, RequestReset(kind) PROVE BusyInv'
  BY <1>1, <1>12 DEF RequestReset, Kinds, Waited
<1>13. ASSUME NEW i \in DOMAIN flight, ResetAnswered(i) PROVE BusyInv'
  <2>1. flight[i].kind \in {"reset", "wipe"} /\ Owned(flight[i])
    BY <1>0, <1>13 DEF ResetAnswered
  <2>2. busy \in Waited => ~Causes(flight[i], busy)
    BY <2>1 DEF Causes, Waited, Owned
  <2>3. flight' = RemoveAt(flight, i) /\ (busy' = busy \/ busy' = "none")
    BY <1>13 DEF ResetAnswered
  <2>. QED
    BY <1>3, <2>2, <2>3 DEF Waited
<1>14. CASE UNCHANGED allVars
  BY <1>14, BusyStays DEF allVars, dashVars
<1>15. CASE DashNext
  BY <1>4, <1>5, <1>6, <1>7, <1>8, <1>9, <1>15 DEF DashNext, ClientSteps
<1>. QED
  BY <1>10, <1>11, <1>12, <1>13, <1>14, <1>15, ChatStepsAre DEF ChatNext

\* The one busy slot, which every handler overwrites and clears, never outlives its cause.
THEOREM BusyHasACauseHolds == ChatSpec => []BusyHasACause
<1>1. ASSUME DashInit PROVE BusyInv
  <2>. DEFINE r == Request("snapshot", "none")
  <2>1. r.kind = "snapshot" /\ r.owner = "none"
    BY DEF Request
  <2>2. flight = <<r>> /\ busy = "refresh"
    BY <1>1 DEF DashInit
  <2>. HIDE DEF r
  <2>3. DOMAIN flight = {1} /\ flight[1] = r
    BY <2>2
  <2>. QED
    BY <2>1, <2>2, <2>3 DEF BusyInv, BusyHasACause
<1>2. TurnsHold => DashTyped
  BY DEF TurnsHold
<1>3. BusyInv => BusyHasACause
  BY DEF BusyInv
<1>. QED
  BY <1>1, <1>2, <1>3, TurnsHoldAlways, BusyInvKept, PTL DEF ChatSpec

----------------------------------------------------------------------------
(* What the Dashboard has been told, and what it has answers for. *)

\* A request comes back, or fails: it had its answer, or could have had the state as it is.
Served(r) == IF r.ver = None THEN version ELSE r.ver
\* No version that was reached is forgotten.
ReachedStays == \A v \in Versions : v <= version /\ Reached(v) => Reached(v)'

\* A request is sent: whatever is there will be reached.
LEMMA ReachedAppend ==
  ASSUME DashTyped, newest' = newest, NEW r \in RequestState, r.ver = None, flight' = Append(flight, r)
  PROVE  ReachedStays /\ \A v \in Versions : Reached(v)'
<1>1. /\ DOMAIN flight' = DOMAIN flight \union {Len(flight) + 1}
      /\ flight'[Len(flight) + 1] = r
  BY AppendProperties DEF DashTyped
<1>2. ASSUME NEW v \in Versions PROVE Reached(v)'
  BY <1>1 DEF Reached
<1>. QED
  BY <1>2 DEF ReachedStays

\* A request is served, and holds the server's state.
LEMMA ReachedServed ==
  ASSUME DashTyped, newest' = newest, NEW i \in DOMAIN flight, NEW r \in RequestState,
         version' \in Versions, version <= version', r.ver = version', flight' = [flight EXCEPT ![i] = r]
  PROVE  ReachedStays
<1>1. /\ DOMAIN flight' = DOMAIN flight
      /\ \A k \in DOMAIN flight : flight'[k] = IF k = i THEN r ELSE flight[k]
  BY UpdateProperties DEF DashTyped
<1>2. ASSUME NEW v \in Versions, v <= version, Reached(v) PROVE Reached(v)'
  <2>1. v <= version'
    BY <1>2, ConstantFacts DEF DashTyped, Versions
  <2>2. CASE newest # None /\ v <= newest
    BY <2>2 DEF Reached
  <2>3. CASE \E k \in DOMAIN flight : flight[k].ver = None \/ v <= flight[k].ver
    <3>1. PICK k \in DOMAIN flight : flight[k].ver = None \/ v <= flight[k].ver
      BY <2>3
    <3>2. flight'[k].ver = None \/ v <= flight'[k].ver
      BY <1>1, <2>1, <3>1
    <3>. QED
      BY <1>1, <3>2 DEF Reached
  <2>. QED
    BY <1>2, <2>2, <2>3 DEF Reached
<1>. QED
  BY <1>2 DEF ReachedStays

\* A request has come back: what it reached has been answered.
LEMMA ReachedRemove ==
  ASSUME DashTyped, NEW i \in DOMAIN flight, NEW w \in Versions, w = Served(flight[i]),
         newest' = LaterOf(newest, w),
         \A j \in DOMAIN flight \ {i} : \E k \in DOMAIN flight' : flight'[k] = flight[j]
  PROVE  ReachedStays
<1>1. /\ newest' \in Versions /\ w <= newest' /\ (newest # None => newest <= newest')
      /\ newest # None => newest \in Versions
  BY LaterTyped, ConstantFacts DEF DashTyped, Shown
<1>2. newest' # None
  BY <1>1, ConstantFacts
<1>3. ASSUME NEW v \in Versions, v <= version, Reached(v) PROVE Reached(v)'
  <2>1. CASE newest # None /\ v <= newest
    BY <1>1, <1>2, <2>1, ConstantFacts DEF Reached, Versions
  <2>2. CASE \E k \in DOMAIN flight : flight[k].ver = None \/ v <= flight[k].ver
    <3>1. PICK j \in DOMAIN flight : flight[j].ver = None \/ v <= flight[j].ver
      BY <2>2
    <3>2. CASE j = i
      <4>1. v <= w
        BY <1>3, <3>1, <3>2 DEF Served
      <4>. QED
        BY <1>1, <1>2, <4>1, ConstantFacts DEF Reached, Versions
    <3>3. CASE j # i
      BY <3>1, <3>3 DEF Reached
    <3>. QED
      BY <3>2, <3>3
  <2>. QED
    BY <1>3, <2>1, <2>2 DEF Reached
<1>. QED
  BY <1>3 DEF ReachedStays

\* The requests stay, and the newest answer is no older.
LEMMA ReachedKept ==
  ASSUME DashTyped, flight' = flight, newest' = newest \/ \E w \in Versions : newest' = LaterOf(newest, w)
  PROVE  ReachedStays
<1>1. newest \in Shown /\ (newest # None => newest \in Versions)
  BY DEF DashTyped, Shown
<1>2. newest # None => newest' \in Versions /\ newest' # None /\ newest <= newest'
  <2>1. CASE newest' = newest
    BY <1>1, <2>1, ConstantFacts DEF Versions
  <2>2. CASE \E w \in Versions : newest' = LaterOf(newest, w)
    <3>1. PICK w \in Versions : newest' = LaterOf(newest, w)
      BY <2>2
    <3>2. w \in Shown
      BY DEF Shown
    <3>. QED
      BY <1>1, <3>1, <3>2, LaterTyped
  <2>. QED
    BY <2>1, <2>2
<1>3. ASSUME NEW v \in Versions, newest # None, v <= newest PROVE v <= newest'
  BY <1>1, <1>2, <1>3, ConstantFacts DEF Versions
<1>. QED
  BY <1>2, <1>3 DEF ReachedStays, Reached

\* What a step may add to what travels: nothing newer than the state it leaves.
LEMMA PastKept ==
  ASSUME DashTyped, DashTyped', DashPast, version <= version',
         told' \in {told, version'},
         \/ UNCHANGED <<shown, newest>>
         \/ \E w \in Versions : w <= version' /\ newest' = LaterOf(newest, w) /\ shown' \in {shown, w},
         \A k \in DOMAIN flight' : \/ flight'[k].ver \in {None, version'}
                                   \/ \E j \in DOMAIN flight : flight'[k].ver = flight[j].ver,
         \A k \in DOMAIN wire' : \/ wire'[k].ver \in {told', version', told}
                                 \/ \E j \in DOMAIN wire : wire'[k].ver = wire[j].ver
  PROVE  DashPast'
<1>1. version \in Versions /\ version' \in Versions /\ told \in Versions
  BY DEF DashTyped
<1>2. ASSUME NEW v \in Shown, Old(v) PROVE v = None \/ v <= version'
  BY <1>1, <1>2, ConstantFacts DEF Old, Shown, Versions
<1>3. told \in Shown /\ newest \in Shown /\ shown \in Shown
  BY <1>1 DEF DashTyped, Shown
<1>4. told' <= version' /\ told <= version'
  <2>1. told # None
    BY <1>1, ConstantFacts
  <2>. QED
    BY <1>1, <1>2, <1>3, <2>1, ConstantFacts DEF DashPast, Versions
<1>5. /\ newest' = None \/ newest' <= version'
      /\ shown' # None => newest' # None /\ shown' <= newest'
  <2>1. CASE UNCHANGED <<shown, newest>>
    BY <1>2, <1>3, <2>1 DEF DashPast
  <2>2. CASE \E w \in Versions : w <= version' /\ newest' = LaterOf(newest, w) /\ shown' \in {shown, w}
    <3>1. PICK w \in Versions : w <= version' /\ newest' = LaterOf(newest, w) /\ shown' \in {shown, w}
      BY <2>2
    <3>2. w \in Shown /\ w # None
      BY ConstantFacts DEF Shown
    <3>3. newest' # None /\ w <= newest' /\ newest' \in {newest, w} /\ (newest # None => newest <= newest')
      BY <1>3, <3>1, <3>2, LaterTyped
    <3>4. newest' <= version'
      BY <1>2, <1>3, <3>1, <3>3 DEF DashPast
    <3>5. shown # None => newest # None /\ shown <= newest /\ newest <= newest'
      BY <3>3 DEF DashPast
    <3>6. shown # None => shown <= newest'
      <4>1. newest' \in Versions /\ (shown # None => shown \in Versions /\ newest \in Versions)
        BY <1>3, <3>1, <3>3, <3>5 DEF Shown
      <4>. QED
        BY <3>5, <4>1, ConstantFacts DEF Versions
    <3>. QED
      BY <3>1, <3>3, <3>4, <3>6
  <2>. QED
    BY <2>1, <2>2
<1>6. ASSUME NEW k \in DOMAIN flight' PROVE flight'[k].ver = None \/ flight'[k].ver <= version'
  <2>1. CASE flight'[k].ver \in {None, version'}
    BY <1>1, <2>1, ConstantFacts DEF Versions
  <2>2. CASE \E j \in DOMAIN flight : flight'[k].ver = flight[j].ver
    <3>1. PICK j \in DOMAIN flight : flight'[k].ver = flight[j].ver
      BY <2>2
    <3>2. flight[j] \in RequestState
      BY DEF DashTyped
    <3>3. flight[j].ver \in Shown /\ Old(flight[j].ver)
      BY <3>2 DEF RequestState, DashPast
    <3>. QED
      BY <1>2, <3>1, <3>3
  <2>. QED
    BY <2>1, <2>2
<1>7. ASSUME NEW k \in DOMAIN wire' PROVE wire'[k].ver <= version'
  <2>1. CASE wire'[k].ver \in {told', version', told}
    BY <1>1, <1>4, <2>1, ConstantFacts DEF Versions
  <2>2. CASE \E j \in DOMAIN wire : wire'[k].ver = wire[j].ver
    <3>1. PICK j \in DOMAIN wire : wire'[k].ver = wire[j].ver
      BY <2>2
    <3>2. wire[j] \in EventState
      BY DEF DashTyped
    <3>3. wire[j].ver \in Versions /\ Old(wire[j].ver)
      BY <3>2 DEF EventState, DashPast
    <3>4. wire[j].ver \in Shown /\ wire[j].ver # None
      BY <3>3, ConstantFacts DEF Shown
    <3>. QED
      BY <1>2, <3>1, <3>3, <3>4
  <2>. QED
    BY <2>1, <2>2
<1>. QED
  BY <1>4, <1>5, <1>6, <1>7 DEF DashPast, Old

\* What is known stays known.
LEMMA KnownStays ==
  ASSUME DashTyped, version' \in Versions, version <= version', ReachedStays, NEW v \in Versions, Known(v)
  PROVE  Known(v)'
<1>1. PICK w \in Versions : w <= version /\ SummaryOf[w] = SummaryOf[v] /\ Reached(w)
  BY DEF Known
<1>2. w <= version' /\ Reached(w)'
  BY <1>1, ConstantFacts DEF ReachedStays, DashTyped, Versions
<1>. QED
  BY <1>1, <1>2 DEF Known

\* What the last event said stays known.
LEMMA LastStays ==
  ASSUME DashTyped, version' \in Versions, version <= version', ReachedStays, lastSummary' = lastSummary,
         LastKnown
  PROVE  LastKnown'
<1>1. ASSUME lastSummary # None
      PROVE  \E w \in Versions, running \in BOOLEAN :
                w <= version' /\ lastSummary' = <<SummaryOf[w], running>> /\ Reached(w)'
  <2>1. PICK w \in Versions, running \in BOOLEAN :
                w <= version /\ lastSummary = <<SummaryOf[w], running>> /\ Reached(w)
    BY <1>1 DEF LastKnown
  <2>2. w <= version' /\ Reached(w)'
    BY <2>1, ConstantFacts DEF ReachedStays, DashTyped, Versions
  <2>. QED
    BY <2>1, <2>2
<1>. QED
  BY <1>1 DEF LastKnown

\* Nothing is said.
LEMMA NewsKept ==
  ASSUME DashTyped, NewsInv, version' \in Versions, version <= version', ReachedStays,
         UNCHANGED <<told, sse, wire, lastSummary>>
  PROVE  NewsInv'
<1>1. LastKnown'
  BY LastStays DEF NewsInv
<1>2. ASSUME sse = "open" PROVE Known(told)' \/ (wire' # <<>> /\ Prompts(wire[Len(wire)])')
  <2>1. CASE Known(told)
    <3>1. told \in Versions
      BY DEF DashTyped
    <3>2. Known(told)'
      <4>. DEFINE v == told
      <4>1. v \in Versions /\ Known(v)
        BY <2>1, <3>1
      <4>2. PICK w \in Versions : w <= version /\ SummaryOf[w] = SummaryOf[v] /\ Reached(w)
        BY <4>1 DEF Known
      <4>3. w <= version' /\ Reached(w)'
        BY <4>2, ConstantFacts DEF ReachedStays, DashTyped, Versions
      <4>. QED
        BY <4>2, <4>3 DEF Known
    <3>. QED
      BY <3>2
  <2>2. CASE wire # <<>> /\ Prompts(wire[Len(wire)])
    BY <2>2 DEF Prompts
  <2>. QED
    BY <1>2, <2>1, <2>2 DEF NewsInv
<1>. QED
  BY <1>1, <1>2 DEF NewsInv

\* What was published is said.
LEMMA NewsOffered ==
  ASSUME DashTyped, NewsInv, version' \in Versions, version <= version', ReachedStays,
         UNCHANGED <<sse, lastSummary>>,
         NEW e \in EventState, Offer(e), e.type \in {"state", "watch_step", "error"}, e.ver = told'
  PROVE  NewsInv'
<1>1. LastKnown'
  BY LastStays DEF NewsInv
<1>2. sse = "open" => wire' # <<>> /\ wire'[Len(wire')] = e
  BY OfferProperties DEF DashTyped
<1>3. sse' = "open" => wire' # <<>> /\ Prompts(wire[Len(wire)])'
  BY <1>2 DEF Prompts
<1>. QED
  BY <1>1, <1>3 DEF NewsInv

\* The state that a turn's second endpoint has answered with is the server's of that moment.
LEMMA RepliesAre ==
  ASSUME ChatTyped, NEW c \in Turns, Apart(c) \/ Publishing(c) \/ Showing(c), NEW d \in Turns
  PROVE  turn'[d].reply \in {turn[d].reply, version'}
<1>. DEFINE T == turn[c]
<1>1. T \in TurnState /\ turn \in [Turns -> TurnState]
  BY DEF ChatTyped
<1>2. ASSUME NEW u, u.reply \in {T.reply, version'}, turn' = [turn EXCEPT ![c] = u]
      PROVE  turn'[d].reply \in {turn[d].reply, version'}
  BY <1>1, <1>2
<1>3. CASE turn' = turn
  BY <1>3
<1>4. CASE Register(c)
  BY <1>1, <1>4 DEF Register, TurnState
<1>5. ASSUME NEW g \in T.raf, AnimationFrame(c, g) \/ DropFrame(c, g)
      PROVE  turn'[d].reply \in {turn[d].reply, version'}
  <2>1. CASE DropFrame(c, g)
    BY <1>1, <2>1 DEF DropFrame, TurnState
  <2>2. CASE AnimationFrame(c, g)
    <3>. DEFINE t == [T EXCEPT !.raf = @ \ {g}]
    <3>1. t.reply = T.reply /\ [t EXCEPT !.active = 0, !.dirty = FALSE].reply = T.reply
      BY <1>1 DEF TurnState
    <3>2. turn' = [turn EXCEPT ![c] = t] \/ turn' = [turn EXCEPT ![c] = [t EXCEPT !.active = 0, !.dirty = FALSE]]
      BY <2>2 DEF AnimationFrame
    <3>. DEFINE t1 == [t EXCEPT !.active = 0, !.dirty = FALSE]
    <3>3. t.reply = T.reply /\ t1.reply = T.reply /\ (turn' = [turn EXCEPT ![c] = t] \/ turn' = [turn EXCEPT ![c] = t1])
      BY <3>1, <3>2
    <3>. HIDE DEF t, t1
    <3>. QED
      BY <1>2, <3>3
  <2>. QED
    BY <1>5, <2>1, <2>2
<1>6. CASE OnText(c)
  <2>. DEFINE t == [T EXCEPT !.started = TRUE]
              t1 == [t EXCEPT !.got = t.got + 1]
  <2>1. t \in TurnState /\ t.reply = T.reply
    BY <1>1 DEF TurnState
  <2>2. t.got + 1 \in Nat
    <3>. HIDE DEF t
    <3>. QED
      BY <2>1 DEF TurnState
  <2>3. t1 \in TurnState /\ t1.reply = T.reply
    BY <1>1, <2>1, <2>2 DEF TurnState
  <2>4. turn' = [turn EXCEPT ![c] = IF Head(stream_of[c].frames).type = "start" THEN t ELSE Schedule(t1)]
    BY <1>6 DEF OnText
  <2>. HIDE DEF t, t1
  <2>5. Schedule(t1).reply = T.reply
    BY <2>3, BatcherProperties DEF SameTurn
  <2>. QED
    BY <1>2, <2>1, <2>4, <2>5
<1>7. CASE OnEnd(c)
  <2>. DEFINE t == Cancel(T)
              bare == Head(stream_of[c].frames).ver = None
              u == [t EXCEPT !.finished = TRUE, !.ends = t.ends + 1, !.bare = bare]
  <2>1. t \in TurnState /\ t.reply = T.reply
    BY <1>1, BatcherProperties DEF SameTurn
  <2>2. turn' = [turn EXCEPT ![c] = u]
    BY <1>7 DEF OnEnd
  <2>. HIDE DEF t, bare
  <2>3. u.reply = T.reply
    BY <2>1 DEF TurnState
  <2>. QED
    BY <1>2, <2>2, <2>3
<1>8. CASE HandleChat(c)
  BY <1>1, <1>8 DEF HandleChat, TurnState
<1>9. CASE turn' = [turn EXCEPT ![c] = Settle(@)]
  <2>1. Settle(T).reply = T.reply
    BY <1>1, BatcherProperties DEF SameTurn
  <2>. QED
    BY <1>2, <1>9, <2>1
<1>10. CASE turn' = [turn EXCEPT ![c].at = "fallback"]
  BY <1>1, <1>10 DEF TurnState
<1>11. CASE FallbackServed(c)
  BY <1>1, <1>11 DEF FallbackServed, TurnState
<1>12. \/ turn' = turn \/ turn' = [turn EXCEPT ![c] = Settle(@)] \/ turn' = [turn EXCEPT ![c].at = "fallback"]
       \/ Register(c) \/ OnText(c) \/ OnEnd(c) \/ HandleChat(c) \/ FallbackServed(c)
       \/ \E g \in T.raf : AnimationFrame(c, g) \/ DropFrame(c, g)
  BY DEF Apart, Publishing, Showing, Refuse, Token, Reply, Aborts, Unregister, AbortArrives, Breaks,
         StreamEnds, StreamFails, OnRefusal, FallbackAnswered, FallbackFails, Stopped, Finish
<1>. QED
  BY <1>3, <1>4, <1>5, <1>6, <1>7, <1>8, <1>9, <1>10, <1>11, <1>12

\* So is the state that a frame of its stream carries.
LEMMA FramesAre ==
  ASSUME ChatTyped, NEW c \in Turns, Apart(c) \/ Publishing(c) \/ Showing(c), NEW d \in Turns
  PROVE  \A k \in DOMAIN stream_of'[d].frames :
            \/ stream_of'[d].frames[k].ver \in {None, version'}
            \/ \E j \in DOMAIN stream_of[d].frames : stream_of'[d].frames[k].ver = stream_of[d].frames[j].ver
<1>. DEFINE S == stream_of[c]
            Aged(fs, gs) == \A k \in DOMAIN fs : \/ fs[k].ver \in {None, version'}
                                                 \/ \E j \in DOMAIN gs : fs[k].ver = gs[j].ver
<1>. SUFFICES Aged(stream_of'[d].frames, stream_of[d].frames)
  OBVIOUS
<1>1. S \in StreamState /\ S.frames \in Seq(FrameState) /\ stream_of \in [Turns -> StreamState]
  BY DEF ChatTyped, StreamState
<1>2. ASSUME NEW s, Aged(s.frames, S.frames), stream_of' = [stream_of EXCEPT ![c] = s]
      PROVE  Aged(stream_of'[d].frames, stream_of[d].frames)
  <2>1. CASE d = c
    <3>1. stream_of'[d] = s
      BY <1>1, <1>2, <2>1
    <3>. QED
      BY <1>2, <2>1, <3>1
  <2>2. CASE d # c
    <3>1. stream_of'[d] = stream_of[d]
      BY <1>1, <1>2, <2>2
    <3>. QED
      BY <3>1
  <2>. QED
    BY <2>1, <2>2
<1>3. ASSUME NEW s, s.frames = S.frames, stream_of' = [stream_of EXCEPT ![c] = s]
      PROVE  Aged(stream_of'[d].frames, stream_of[d].frames)
  BY <1>2, <1>3
<1>4. CASE stream_of' = stream_of
  BY <1>4
<1>5. ASSUME NEW at, NEW type, NEW v, v \in {None, version'}, Send(c, at, type, v)
      PROVE  Aged(stream_of'[d].frames, stream_of[d].frames)
  <2>. DEFINE f == Frame(type, v)
              s == [S EXCEPT !.at = at, !.frames = Append(S.frames, f)]
  <2>1. f.ver = v
    BY DEF Frame
  <2>2. stream_of' = [stream_of EXCEPT ![c] = s]
    BY <1>1, <1>5 DEF Send
  <2>. HIDE DEF f
  <2>3. s.frames = Append(S.frames, f)
    BY <1>1 DEF StreamState
  <2>4. Aged(Append(S.frames, f), S.frames)
    <3>. DEFINE gs == S.frames
    <3>1. gs \in Seq(FrameState)
      BY <1>1
    <3>. HIDE DEF gs
    <3>2. \A k \in DOMAIN Append(gs, f) : Append(gs, f)[k] = f \/ (k \in DOMAIN gs /\ Append(gs, f)[k] = gs[k])
      BY <3>1
    <3>3. Aged(Append(gs, f), gs)
      BY <1>5, <2>1, <3>2
    <3>. QED
      BY <3>3 DEF gs
  <2>. HIDE DEF s, Aged
  <2>. QED
    BY <1>2, <2>2, <2>3, <2>4
<1>6. CASE \/ stream_of' = [stream_of EXCEPT ![c].at = "ended"] \/ stream_of' = [stream_of EXCEPT ![c].at = "refused"]
          \/ stream_of' = [stream_of EXCEPT ![c].abort = TRUE]
  <2>1. /\ [S EXCEPT !.at = "ended"].frames = S.frames /\ [S EXCEPT !.abort = TRUE].frames = S.frames
        /\ [S EXCEPT !.at = "refused"].frames = S.frames
    BY <1>1 DEF StreamState
  <2>2. \/ stream_of' = [stream_of EXCEPT ![c] = [S EXCEPT !.at = "ended"]]
        \/ stream_of' = [stream_of EXCEPT ![c] = [S EXCEPT !.at = "refused"]]
        \/ stream_of' = [stream_of EXCEPT ![c] = [S EXCEPT !.abort = TRUE]]
    BY <1>6
  <2>. QED
    BY <1>3, <2>1, <2>2
<1>7. CASE stream_of' = [stream_of EXCEPT ![c].frames = <<>>]
  <2>. DEFINE s == [S EXCEPT !.frames = <<>>]
  <2>1. s.frames = <<>> /\ stream_of' = [stream_of EXCEPT ![c] = s]
    BY <1>1, <1>7 DEF StreamState
  <2>2. Aged(s.frames, S.frames)
    BY <2>1
  <2>. HIDE DEF s, Aged
  <2>. QED
    BY <1>2, <2>1, <2>2
<1>8. CASE S.frames # <<>> /\ stream_of' = [stream_of EXCEPT ![c].frames = Tail(@)]
  <2>. DEFINE s == [S EXCEPT !.frames = Tail(S.frames)]
  <2>1. s.frames = Tail(S.frames) /\ stream_of' = [stream_of EXCEPT ![c] = s]
    BY <1>1, <1>8 DEF StreamState
  <2>2. Aged(Tail(S.frames), S.frames)
    <3>. DEFINE gs == S.frames
    <3>1. gs \in Seq(FrameState) /\ gs # <<>>
      BY <1>1, <1>8
    <3>. HIDE DEF gs
    <3>2. \A k \in DOMAIN Tail(gs) : k + 1 \in DOMAIN gs /\ Tail(gs)[k] = gs[k + 1]
      BY <3>1
    <3>3. Aged(Tail(gs), gs)
      BY <3>2
    <3>. QED
      BY <3>3 DEF gs
  <2>. HIDE DEF s, Aged
  <2>. QED
    BY <1>2, <2>1, <2>2
<1>9. \/ stream_of' = stream_of
      \/ stream_of' = [stream_of EXCEPT ![c].at = "ended"] \/ stream_of' = [stream_of EXCEPT ![c].at = "refused"]
      \/ stream_of' = [stream_of EXCEPT ![c].abort = TRUE]
      \/ stream_of' = [stream_of EXCEPT ![c].frames = <<>>]
      \/ S.frames # <<>> /\ stream_of' = [stream_of EXCEPT ![c].frames = Tail(@)]
      \/ Send(c, "running", "start", None) \/ Send(c, "running", "delta", None)
      \/ Send(c, "answered", "done", version') \/ Send(c, "ended", "aborted", version')
      \/ Send(c, "ended", "error", None) \/ Send(c, "ended", "error", version')
  <2>1. CASE Apart(c)
    BY <2>1 DEF Apart, Register, Refuse, Unregister, AbortArrives, Token, AnimationFrame, DropFrame, HandleChat, OnText,
                OnRefusal, StreamEnds, StreamFails, FallbackFails, Stopped
  <2>2. CASE Publishing(c)
    <3>1. ASSUME NEW bare \in BOOLEAN, Breaks(c, bare)
          PROVE  Send(c, "ended", "error", None) \/ Send(c, "ended", "error", version')
      <4>1. version' = version
        BY <3>1 DEF Breaks
      <4>2. Send(c, "ended", "error", IF bare THEN None ELSE version)
        BY <3>1 DEF Breaks
      <4>. QED
        BY <4>1, <4>2
    <3>2. Aborts(c) => Send(c, "ended", "aborted", version')
      <4>1. Aborts(c) => version' = version /\ Send(c, "ended", "aborted", version)
        BY DEF Aborts
      <4>. QED
        BY <4>1
    <3>. QED
      BY <2>2, <3>1, <3>2 DEF Publishing, Reply, FallbackServed
  <2>3. CASE Showing(c)
    BY <2>3 DEF Showing, OnEnd, FallbackAnswered
  <2>. QED
    BY <2>1, <2>2, <2>3
<1>. HIDE DEF Aged
<1>. QED
  BY <1>4, <1>5, <1>6, <1>7, <1>8, <1>9

\* What the turns and their streams carry is no newer than the server's state.
LEMMA ChatPastKept ==
  ASSUME TurnsHold, ChatPast, [ChatNext]_allVars, version' \in Versions, version <= version'
  PROVE  ChatPast'
<1>1. /\ version \in Versions
      /\ \A c \in Turns : turn[c].reply \in Shown /\ stream_of[c].frames \in Seq(FrameState)
  BY DEF TurnsHold, DashTyped, ChatsInv, ChatTyped, TurnState, StreamState
<1>2. ASSUME NEW v \in Shown, Old(v) PROVE v = None \/ v <= version'
  BY <1>1, <1>2, ConstantFacts DEF Old, Shown, Versions
<1>3. CASE UNCHANGED <<turn, stream_of>>
  <2>1. \A c \in Turns : \A k \in DOMAIN stream_of[c].frames : stream_of[c].frames[k].ver \in Shown
    <3>1. ASSUME NEW c \in Turns, NEW k \in DOMAIN stream_of[c].frames PROVE stream_of[c].frames[k].ver \in Shown
      <4>1. stream_of[c].frames[k] \in FrameState
        BY <1>1
      <4>. QED
        BY <4>1 DEF FrameState
    <3>. QED
      BY <3>1
  <2>. QED
    BY <1>1, <1>2, <1>3, <2>1 DEF ChatPast, Old
<1>4. ASSUME NEW c \in Turns, Apart(c) \/ Publishing(c) \/ Showing(c)
      PROVE  ChatPast'
  <2>1. ASSUME NEW d \in Turns PROVE turn'[d].reply = None \/ turn'[d].reply <= version'
    <3>1. turn'[d].reply \in {turn[d].reply, version'}
      BY <1>4, RepliesAre DEF TurnsHold, ChatsInv
    <3>. QED
      BY <1>1, <1>2, <3>1, ConstantFacts DEF ChatPast, Versions
  <2>2. ASSUME NEW d \in Turns, NEW k \in DOMAIN stream_of'[d].frames
        PROVE  stream_of'[d].frames[k].ver = None \/ stream_of'[d].frames[k].ver <= version'
    <3>1. \/ stream_of'[d].frames[k].ver \in {None, version'}
          \/ \E j \in DOMAIN stream_of[d].frames : stream_of'[d].frames[k].ver = stream_of[d].frames[j].ver
      BY <1>4, FramesAre DEF TurnsHold, ChatsInv
    <3>2. CASE stream_of'[d].frames[k].ver \in {None, version'}
      BY <3>2, ConstantFacts DEF Versions
    <3>3. CASE \E j \in DOMAIN stream_of[d].frames : stream_of'[d].frames[k].ver = stream_of[d].frames[j].ver
      <4>1. PICK j \in DOMAIN stream_of[d].frames : stream_of'[d].frames[k].ver = stream_of[d].frames[j].ver
        BY <3>3
      <4>2. stream_of[d].frames[j] \in FrameState
        BY <1>1
      <4>3. stream_of[d].frames[j].ver \in Shown /\ Old(stream_of[d].frames[j].ver)
        BY <4>2 DEF FrameState, ChatPast
      <4>. QED
        BY <1>2, <4>1, <4>3
    <3>. QED
      BY <3>1, <3>2, <3>3
  <2>. QED
    BY <2>1, <2>2 DEF ChatPast, Old
<1>5. CASE HandleStopChat
  <2>1. stream_of' = stream_of
    BY <1>5 DEF HandleStopChat
  <2>2. ASSUME NEW d \in Turns PROVE turn'[d].reply = turn[d].reply
    <3>1. turn \in [Turns -> TurnState]
      BY DEF TurnsHold, ChatsInv, ChatTyped
    <3>. QED
      BY <1>5, <3>1 DEF HandleStopChat, TurnState
  <2>3. ASSUME NEW d \in Turns, NEW k \in DOMAIN stream_of[d].frames
        PROVE  stream_of[d].frames[k].ver \in Shown
    <3>1. stream_of[d].frames[k] \in FrameState
      BY <1>1
    <3>. QED
      BY <3>1 DEF FrameState
  <2>. QED
    BY <1>1, <1>2, <2>1, <2>2, <2>3 DEF ChatPast, Old
<1>6. ASSUME NEW kind \in {"reset", "wipe"}, RequestReset(kind) PROVE ChatPast'
  BY <1>3, <1>6 DEF RequestReset, chatVars
<1>7. ASSUME NEW i \in DOMAIN flight, ResetAnswered(i) PROVE ChatPast'
  BY <1>3, <1>7 DEF ResetAnswered
<1>8. CASE UNCHANGED chatVars \/ UNCHANGED allVars
  BY <1>3, <1>8 DEF chatVars, allVars
<1>. QED
  BY <1>4, <1>5, <1>6, <1>7, <1>8, ChatStepsAre DEF ChatNext

\* What a step does, as far as the news is concerned: nothing is said, or what is published is.
Silent == UNCHANGED <<told, sse, wire, lastSummary>>
Saying == /\ told' \in {told, version'} /\ UNCHANGED <<sse, lastSummary>>
          /\ \E e \in EventState : e.type \in {"state", "watch_step", "error"} /\ e.ver = told' /\ Offer(e)

\* A step that says nothing, or says what is published, keeps what is known of the news.
LEMMA NewsStep ==
  ASSUME DashTyped, DashTyped', DashPast, NewsInv, version <= version', ReachedStays, Silent \/ Saying,
         \/ UNCHANGED <<shown, newest>>
         \/ \E w \in Versions : w <= version' /\ newest' = LaterOf(newest, w) /\ shown' \in {shown, w},
         \A k \in DOMAIN flight' : \/ flight'[k].ver \in {None, version'}
                                   \/ \E j \in DOMAIN flight : flight'[k].ver = flight[j].ver
  PROVE  DashPast' /\ NewsInv'
<1>1. version' \in Versions
  BY DEF DashTyped
<1>2. NewsInv'
  BY <1>1, NewsKept, NewsOffered DEF Silent, Saying
<1>3. \A k \in DOMAIN wire' : \/ wire'[k].ver \in {told', version', told}
                              \/ \E j \in DOMAIN wire : wire'[k].ver = wire[j].ver
  <2>1. CASE Silent
    BY <2>1 DEF Silent
  <2>2. CASE Saying
    <3>1. PICK e \in EventState : e.ver = told' /\ Offer(e)
      BY <2>2 DEF Saying
    <3>2. \A k \in DOMAIN wire' : wire'[k] = e \/ \E j \in DOMAIN wire : wire'[k] = wire[j]
      BY <3>1, OfferProperties DEF DashTyped
    <3>3. ASSUME NEW k \in DOMAIN wire', wire'[k] = e PROVE wire'[k].ver = told'
      BY <3>1, <3>3
    <3>4. ASSUME NEW k \in DOMAIN wire', NEW j \in DOMAIN wire, wire'[k] = wire[j] PROVE wire'[k].ver = wire[j].ver
      BY <3>4
    <3>. QED
      BY <3>2, <3>3, <3>4
  <2>. QED
    BY <2>1, <2>2
<1>4. told' \in {told, version'}
  BY DEF Silent, Saying
<1>. QED
  BY <1>2, <1>3, <1>4, PastKept

\* The steps of the server.
LEMMA ServerNews ==
  ASSUME DashTyped, DashTyped', DashPast, NewsInv, ServerSteps
  PROVE  version <= version' /\ DashPast' /\ NewsInv'
<1>0. version \in Versions /\ version' \in Versions /\ told \in Versions /\ executor \in BOOLEAN
  BY DEF DashTyped
<1>1. UNCHANGED <<shown, newest, flight>>
  BY DEF ServerSteps, ChangeElsewhere, WatchTick, WatchFails, ExecutorTurns, Heartbeat, Connect, Disconnect, view
<1>2. ReachedStays
  BY <1>1, ReachedKept
<1>3. \A k \in DOMAIN flight' : \E j \in DOMAIN flight : flight'[k].ver = flight[j].ver
  BY <1>1
<1>4. version <= version'
  <2>1. version' = version \/ version' = version + 1
    BY DEF ServerSteps, ChangeElsewhere, WatchTick, WatchFails, ExecutorTurns, Heartbeat, Connect, Disconnect, server
  <2>. QED
    BY <1>0, <2>1, ConstantFacts DEF Versions
<1>5. CASE Silent \/ Saying
  BY <1>1, <1>2, <1>3, <1>4, <1>5, NewsStep
<1>6. CASE ChangeElsewhere \/ ExecutorTurns
  BY <1>5, <1>6 DEF ChangeElsewhere, ExecutorTurns, Silent, stream
<1>7. ASSUME NEW executed \in BOOLEAN, WatchTick(executed) PROVE Saying
  <2>. DEFINE e == Event("watch_step", version', executed)
  <2>1. e \in EventState /\ e.type = "watch_step" /\ e.ver = version'
    BY <1>0, EventTyped DEF EventTypes
  <2>2. Offer(e) /\ told' = version' /\ UNCHANGED <<sse, lastSummary>>
    BY <1>7 DEF WatchTick
  <2>. HIDE DEF e
  <2>. QED
    BY <2>1, <2>2 DEF Saying
<1>8. ASSUME WatchFails PROVE Saying
  <2>. DEFINE e == Event("error", told, FALSE)
  <2>1. e \in EventState /\ e.type = "error" /\ e.ver = told
    BY <1>0, EventTyped DEF EventTypes
  <2>2. Offer(e) /\ told' = told /\ UNCHANGED <<sse, lastSummary>>
    BY <1>8 DEF WatchFails, server
  <2>. HIDE DEF e
  <2>. QED
    BY <2>1, <2>2 DEF Saying
<1>9. LastKnown'
  <2>1. lastSummary' = lastSummary
    BY DEF ServerSteps, ChangeElsewhere, WatchTick, WatchFails, ExecutorTurns, Heartbeat, Connect, Disconnect
  <2>. QED
    BY <1>0, <1>2, <1>4, <2>1, LastStays DEF NewsInv
\* the wire is new, and tells of versions that are not
<1>10. ASSUME UNCHANGED <<version, told>>,
              \A k \in DOMAIN wire' : wire'[k].ver \in {told, version}
       PROVE  DashPast'
  BY <1>0, <1>1, <1>3, <1>4, <1>10, PastKept
<1>11. CASE Heartbeat
  <2>. DEFINE e == Event("executor", told, FALSE)
  <2>1. e.ver = told
    BY DEF Event
  <2>2. wire = <<>> /\ wire' = <<e>> /\ UNCHANGED <<version, told, sse>> /\ sse = "open"
    BY <1>11 DEF Heartbeat, server
  <2>. HIDE DEF e
  <2>3. DashPast'
    BY <1>10, <2>1, <2>2
  <2>4. Known(told)
    BY <2>2 DEF NewsInv
  <2>5. Known(told)'
    BY <1>1, <2>2, <2>4 DEF Known, Reached
  <2>. QED
    BY <1>4, <1>9, <2>3, <2>5 DEF NewsInv
<1>12. CASE Connect
  <2>. DEFINE a == Event("hello", version, FALSE)
              b == Event("connect", version, FALSE)
              c == Event("watch_step", told, FALSE)
              w == <<a, b>> \o (IF told = 0 THEN <<>> ELSE <<c>>)
  <2>1. a.ver = version /\ b.ver = version /\ c.ver = told /\ b.type = "connect" /\ c.type = "watch_step"
    BY DEF Event
  <2>2. wire' = w /\ UNCHANGED <<version, told>>
    BY <1>12 DEF Connect, server
  <2>. HIDE DEF a, b, c
  <2>4. /\ \A k \in DOMAIN w : w[k] \in {a, b, c}
        /\ w # <<>> /\ w[Len(w)] \in {b, c}
    <3>. DEFINE S == {a, b, c}
                u == <<a, b>>
                v == IF told = 0 THEN <<>> ELSE <<c>>
    <3>0. a \in S /\ b \in S /\ c \in S
      OBVIOUS
    <3>3. w = u \o v
      OBVIOUS
    <3>. HIDE DEF S, w
    <3>1. u \in Seq(S) /\ Len(u) = 2 /\ u[2] = b
      BY <3>0
    <3>2. v \in Seq(S) /\ (Len(v) = 0 \/ (Len(v) = 1 /\ v[1] = c))
      <4>1. CASE told = 0
        <5>1. v = <<>>
          BY <4>1
        <5>. HIDE DEF v
        <5>. QED
          BY <5>1
      <4>2. CASE told # 0
        <5>1. v = <<c>>
          BY <4>2
        <5>. HIDE DEF v
        <5>. QED
          BY <3>0, <5>1
      <4>. QED
        BY <4>1, <4>2
    <3>. HIDE DEF u, v
    <3>8. u \in Seq(S) /\ v \in Seq(S)
      BY <3>1, <3>2
    <3>9. u \o v \in Seq(S)
      BY <3>8
    <3>7. Len(u \o v) = Len(u) + Len(v)
      BY <3>8
    <3>4. w \in Seq(S) /\ Len(w) = 2 + Len(v)
      BY <3>1, <3>3, <3>7, <3>9
    <3>5. w[Len(w)] \in {b, c}
      BY <3>1, <3>2, <3>3, <3>4
    <3>6. \A k \in DOMAIN w : w[k] \in S
      BY <3>4
    <3>. QED
      BY <3>2, <3>4, <3>5, <3>6 DEF S
  <2>. HIDE DEF w
  <2>5. DashPast'
    <3>1. ASSUME NEW k \in DOMAIN wire' PROVE wire'[k].ver \in {told, version}
      BY <2>1, <2>2, <2>4, <3>1
    <3>. QED
      BY <1>10, <2>2, <3>1
  <2>6. wire' # <<>> /\ Prompts(wire[Len(wire)])'
    BY <2>1, <2>2, <2>4 DEF Prompts
  <2>. QED
    BY <1>4, <1>9, <2>5, <2>6 DEF NewsInv
<1>13. CASE Disconnect
  <2>1. wire' = <<>> /\ sse' = "closed" /\ UNCHANGED <<version, told>>
    BY <1>13 DEF Disconnect, server
  <2>2. DashPast'
    BY <1>10, <2>1
  <2>. QED
    BY <1>4, <1>9, <2>1, <2>2 DEF NewsInv
<1>. QED
  BY <1>5, <1>6, <1>7, <1>8, <1>11, <1>12, <1>13 DEF ServerSteps

\* An event is read.
LEMMA ListenerNews ==
  ASSUME DashTyped, DashTyped', DashPast, NewsInv, Listener
  PROVE  DashPast' /\ NewsInv'
<1>. DEFINE e == Head(wire)
            q == Request("snapshot", "none")
<1>0. version \in Versions /\ told \in Versions /\ wire \in Seq(EventState) /\ wire # <<>>
  BY DEF DashTyped, Listener
<1>1. UNCHANGED <<version, told, sse, shown, newest>> /\ wire' = Tail(wire)
  BY DEF Listener, server
<1>2. e = wire[1] /\ e \in EventState /\ 1 \in DOMAIN wire
  BY <1>0
<1>3. e.ver \in Versions /\ e.ver <= version
  <2>1. Old(e.ver) /\ e.ver \in Versions
    BY <1>2 DEF DashPast, EventState
  <2>. QED
    BY <2>1, ConstantFacts DEF Old
<1>4. /\ lastSummary' = IF e.type \in Telling THEN Summarized(e) ELSE lastSummary
      /\ IF e.type = "error" \/ (e.type \in Telling /\ ~IdleWatchTick(e))
         THEN flight' = Append(flight, q) ELSE flight' = flight
  BY DEF Listener, LoadSnapshot
<1>5. q \in RequestState /\ q.ver = None
  BY RequestTyped DEF Kinds
<1>. HIDE DEF q, e
<1>6. /\ Tail(wire) \in Seq(EventState) /\ Len(Tail(wire)) = Len(wire) - 1
      /\ \A k \in DOMAIN Tail(wire) : k + 1 \in DOMAIN wire /\ Tail(wire)[k] = wire[k + 1]
  BY <1>0
<1>7. DashPast'
  <2>1. \A k \in DOMAIN flight' : \/ flight'[k].ver \in {None, version'}
                                  \/ \E j \in DOMAIN flight : flight'[k].ver = flight[j].ver
    <3>1. CASE flight' = flight
      BY <3>1
    <3>2. CASE flight' = Append(flight, q)
      <4>1. /\ DOMAIN flight' = DOMAIN flight \union {Len(flight) + 1}
            /\ \A k \in DOMAIN flight : flight'[k] = flight[k]
            /\ flight'[Len(flight) + 1] = q
        BY <1>5, <3>2, AppendProperties DEF DashTyped
      <4>2. ASSUME NEW k \in DOMAIN flight', k \notin DOMAIN flight PROVE flight'[k].ver = None
        BY <1>5, <4>1, <4>2
      <4>3. ASSUME NEW k \in DOMAIN flight PROVE flight'[k].ver = flight[k].ver
        BY <4>1
      <4>. QED
        BY <4>2, <4>3
    <3>. QED
      BY <1>4, <3>1, <3>2
  <2>2. \A k \in DOMAIN wire' : \E j \in DOMAIN wire : wire'[k].ver = wire[j].ver
    <3>1. ASSUME NEW k \in DOMAIN wire' PROVE wire'[k].ver = wire[k + 1].ver /\ k + 1 \in DOMAIN wire
      BY <1>1, <1>6
    <3>. QED
      BY <3>1
  <2>3. version <= version'
    BY <1>0, <1>1, ConstantFacts DEF Versions
  <2>. QED
    BY <1>1, <2>1, <2>2, <2>3, PastKept
<1>8. version' \in Versions /\ version <= version'
  BY <1>0, <1>1, ConstantFacts DEF Versions
\* the event makes the Dashboard ask, and all that is there will be reached
<1>9. CASE flight' = Append(flight, q)
  <2>1. ReachedStays /\ \A v \in Versions : Reached(v)'
    BY <1>1, <1>5, <1>9, ReachedAppend
  <2>2. Known(told)'
    <3>1. told <= version
      <4>1. Old(told) /\ told # None
        BY <1>0, ConstantFacts DEF DashPast
      <4>. QED
        BY <4>1 DEF Old
    <3>. QED
      BY <1>0, <1>1, <2>1, <3>1 DEF Known
  <2>3. LastKnown'
    <3>1. CASE e.type \in Telling
      <4>1. lastSummary' = <<SummaryOf[e.ver], e.running>> /\ e.running \in BOOLEAN
        BY <1>2, <1>4, <3>1 DEF Summarized, EventState
      <4>2. PICK v \in Versions : v = e.ver
        BY <1>3
      <4>3. v <= version' /\ Reached(v)'
        BY <1>1, <1>3, <2>1, <4>2
      <4>4. PICK running \in BOOLEAN : running = e.running
        BY <4>1
      <4>5. lastSummary' = <<SummaryOf[v], running>>
        BY <4>1, <4>2, <4>4
      <4>. QED
        BY <4>3, <4>5 DEF LastKnown
    <3>2. CASE e.type \notin Telling
      BY <1>4, <1>8, <2>1, <3>2, LastStays DEF NewsInv
    <3>. QED
      BY <3>1, <3>2
  <2>. QED
    BY <1>7, <2>2, <2>3 DEF NewsInv
\* the event tells nothing, or nothing new
<1>10. CASE flight' = flight /\ e.type # "error" /\ (e.type \in Telling => IdleWatchTick(e))
  <2>1. ReachedStays
    BY <1>1, <1>10, ReachedKept
  <2>2. lastSummary' = lastSummary
    BY <1>4, <1>10 DEF IdleWatchTick
  <2>3. LastKnown'
    BY <1>8, <2>1, <2>2, LastStays DEF NewsInv
  <2>4. ASSUME Known(told) PROVE Known(told)'
    <3>1. Known(told)' <=> Known(told)
      BY <1>1, <1>10 DEF Known, Reached
    <3>. QED
      BY <2>4, <3>1
  <2>5. ASSUME Len(wire) = 1, Prompts(wire[Len(wire)]) PROVE Known(told)
    <3>1. e.type = "watch_step" /\ e.ver = told /\ <<SummaryOf[e.ver], e.running>> = lastSummary
      BY <1>2, <1>10, <2>5 DEF Prompts, Telling, IdleWatchTick, Summarized
    <3>2. lastSummary # None
      <4>1. e.running \in BOOLEAN
        BY <1>2 DEF EventState
      <4>. QED
        BY <1>3, <3>1, <4>1, ConstantFacts
    <3>3. PICK w \in Versions, running \in BOOLEAN :
             w <= version /\ lastSummary = <<SummaryOf[w], running>> /\ Reached(w)
      BY <3>2 DEF NewsInv, LastKnown
    <3>4. SummaryOf[w] = SummaryOf[told]
      BY <3>1, <3>3
    <3>. QED
      BY <3>3, <3>4 DEF Known
  <2>6. ASSUME Len(wire) # 1, Prompts(wire[Len(wire)])
        PROVE  wire' # <<>> /\ Prompts(wire[Len(wire)])'
    <3>1. Len(wire) \in Nat /\ Len(wire) > 1
      BY <1>0, <2>6
    <3>2. wire' # <<>> /\ wire'[Len(wire')] = wire[Len(wire)]
      <4>. DEFINE w == Tail(wire)
      <4>1. wire' = w /\ w \in Seq(EventState) /\ Len(w) = Len(wire) - 1 /\ Len(w) \in DOMAIN w
        BY <1>1, <1>6, <3>1
      <4>2. w[Len(w)] = wire[Len(w) + 1]
        BY <1>6, <4>1
      <4>. HIDE DEF w
      <4>3. Len(w) + 1 = Len(wire) /\ w # <<>>
        BY <3>1, <4>1
      <4>. QED
        BY <4>1, <4>2, <4>3
    <3>3. Prompts(wire[Len(wire)])' <=> Prompts(wire[Len(wire)])
      BY <1>1, <3>2 DEF Prompts
    <3>. QED
      BY <2>6, <3>2, <3>3
  <2>7. sse' = "open" => Known(told)' \/ (wire' # <<>> /\ Prompts(wire[Len(wire)])')
    BY <1>1, <2>4, <2>5, <2>6 DEF NewsInv
  <2>. QED
    BY <1>7, <2>3, <2>7 DEF NewsInv
<1>. QED
  BY <1>4, <1>9, <1>10

\* A request is sent.
LEMMA AppendNews ==
  ASSUME DashTyped, DashTyped', DashPast, NewsInv, NEW r \in RequestState, r.ver = None,
         flight' = Append(flight, r), Silent, UNCHANGED <<version, shown, newest>>
  PROVE  DashPast' /\ NewsInv'
<1>1. ReachedStays
  BY ReachedAppend
<1>2. /\ DOMAIN flight' = DOMAIN flight \union {Len(flight) + 1}
      /\ \A k \in DOMAIN flight : flight'[k] = flight[k]
      /\ flight'[Len(flight) + 1] = r
  BY AppendProperties DEF DashTyped
<1>3. \A k \in DOMAIN flight' : \/ flight'[k].ver \in {None, version'}
                                \/ \E j \in DOMAIN flight : flight'[k].ver = flight[j].ver
  <2>1. ASSUME NEW k \in DOMAIN flight', k \notin DOMAIN flight PROVE flight'[k].ver = None
    BY <1>2, <2>1
  <2>2. ASSUME NEW k \in DOMAIN flight PROVE flight'[k].ver = flight[k].ver
    BY <1>2
  <2>. QED
    BY <2>1, <2>2
<1>4. version <= version'
  BY ConstantFacts DEF DashTyped, Versions
<1>. QED
  BY <1>1, <1>3, <1>4, NewsStep

\* A request comes back, or fails.
LEMMA ReturnNews ==
  ASSUME DashTyped, DashTyped', DashPast, NewsInv, NEW i \in DOMAIN flight,
         \/ flight' = RemoveAt(flight, i)
         \/ \E r \in RequestState : r.ver = None /\ flight' = [flight EXCEPT ![i] = r],
         newest' = LaterOf(newest, Served(flight[i])), shown' \in {shown, Served(flight[i])},
         Silent, version' = version
  PROVE  DashPast' /\ NewsInv'
<1>. DEFINE w == Served(flight[i])
<1>0. version \in Versions /\ version <= version' /\ flight \in Seq(RequestState)
  BY ConstantFacts DEF DashTyped, Versions
<1>1. flight[i] \in RequestState
  BY <1>0
<1>2. w \in Versions /\ w <= version'
  <2>1. flight[i].ver \in Shown /\ Old(flight[i].ver)
    BY <1>1 DEF RequestState, DashPast
  <2>. QED
    BY <1>0, <2>1 DEF Served, Shown, Old
<1>3. /\ \A j \in DOMAIN flight \ {i} : \E k \in DOMAIN flight' : flight'[k] = flight[j]
      /\ \A k \in DOMAIN flight' : \/ flight'[k].ver \in {None, version'}
                                   \/ \E j \in DOMAIN flight : flight'[k].ver = flight[j].ver
  <2>1. CASE flight' = RemoveAt(flight, i)
    <3>1. \A j \in DOMAIN flight \ {i} : \E k \in DOMAIN flight' : flight'[k] = flight[j]
      BY <1>0, <2>1, RemoveAtKeeps
    <3>2. \A k \in DOMAIN flight' : Before(i, k) \in DOMAIN flight /\ flight'[k] = flight[Before(i, k)]
      BY <1>0, <2>1, RemoveAtProperties
    <3>3. ASSUME NEW k \in DOMAIN flight' PROVE flight'[k].ver = flight[Before(i, k)].ver /\ Before(i, k) \in DOMAIN flight
      BY <3>2
    <3>. QED
      BY <3>1, <3>3
  <2>2. CASE \E r \in RequestState : r.ver = None /\ flight' = [flight EXCEPT ![i] = r]
    <3>1. PICK r \in RequestState : r.ver = None /\ flight' = [flight EXCEPT ![i] = r]
      BY <2>2
    <3>2. /\ DOMAIN flight' = DOMAIN flight
          /\ \A k \in DOMAIN flight : flight'[k] = IF k = i THEN r ELSE flight[k]
      BY <1>0, <3>1, UpdateProperties
    <3>3. ASSUME NEW k \in DOMAIN flight PROVE flight'[k].ver = None \/ flight'[k].ver = flight[k].ver
      BY <3>1, <3>2
    <3>. QED
      BY <3>2, <3>3
  <2>. QED
    BY <2>1, <2>2
<1>. HIDE DEF w
<1>4. newest' = LaterOf(newest, w) /\ shown' \in {shown, w}
  BY DEF w
<1>5. ReachedStays
  BY <1>2, <1>3, <1>4, ReachedRemove DEF w
<1>. QED
  BY <1>0, <1>2, <1>3, <1>4, <1>5, NewsStep

\* The steps of the Dashboard.
LEMMA ClientNews ==
  ASSUME DashTyped, DashTyped', DashPast, NewsInv, ClientSteps
  PROVE  version <= version' /\ DashPast' /\ NewsInv'
<1>0. /\ version \in Versions /\ version' \in Versions /\ told \in Versions /\ executor \in BOOLEAN
      /\ \A i \in DOMAIN flight : flight[i] \in RequestState
  BY DEF DashTyped
<1>00. version <= version
  BY <1>0, ConstantFacts DEF Versions
<1>1. ASSUME NEW kind \in Kinds, flight' = Append(flight, Request(kind, "none")),
             Silent, UNCHANGED <<version, shown, newest>>
      PROVE  DashPast' /\ NewsInv'
  <2>. DEFINE r == Request(kind, "none")
  <2>1. r \in RequestState /\ r.ver = None /\ flight' = Append(flight, r)
    BY <1>1, RequestTyped
  <2>. HIDE DEF r
  <2>. QED
    BY <1>1, <2>1, AppendNews
<1>2. CASE HandleRefresh
  <2>1. flight' = Append(flight, Request("snapshot", "none")) /\ UNCHANGED <<server, stream, view, lastSummary>>
    BY <1>2 DEF HandleRefresh, LoadSnapshot
  <2>. QED
    BY <1>00, <1>1, <2>1 DEF Kinds, server, stream, view, Silent
<1>3. CASE Listener
  BY <1>00, <1>3, ListenerNews DEF Listener, server
<1>4. CASE Submit \/ HandleInitialize \/ PanelRequest
  <2>1. PICK kind \in Kinds : flight' = Append(flight, Request(kind, "none"))
    BY <1>4 DEF Submit, HandleInitialize, PanelRequest, Kinds
  <2>2. UNCHANGED <<server, stream, view, lastSummary>>
    BY <1>4 DEF Submit, HandleInitialize, PanelRequest
  <2>. QED
    BY <1>00, <1>1, <2>1, <2>2 DEF server, stream, view, Silent
<1>5. ASSUME NEW i \in DOMAIN flight, Serve(i) PROVE version <= version' /\ DashPast' /\ NewsInv'
  <2>. DEFINE r == [flight[i] EXCEPT !.ver = version', !.running = executor]
  <2>1. version <= version'
    <3>1. version' = version \/ version' = IF version < MaxVersion THEN version + 1 ELSE version
      BY <1>5 DEF Serve
    <3>. QED
      BY <1>0, <1>00, <3>1, NextVersion
  <2>2. r \in RequestState /\ r.ver = version'
    BY <1>0 DEF RequestState, Shown
  <2>3. flight' = [flight EXCEPT ![i] = r] /\ UNCHANGED <<shown, newest>>
    BY <1>5 DEF Serve, view
  <2>. HIDE DEF r
  <2>4. ReachedStays
    BY <1>0, <2>1, <2>2, <2>3, ReachedServed
  <2>5. /\ DOMAIN flight' = DOMAIN flight
        /\ \A k \in DOMAIN flight : flight'[k] = IF k = i THEN r ELSE flight[k]
    BY <2>2, <2>3, UpdateProperties DEF DashTyped
  <2>6. \A k \in DOMAIN flight' : \/ flight'[k].ver \in {None, version'}
                                  \/ \E j \in DOMAIN flight : flight'[k].ver = flight[j].ver
    <3>1. ASSUME NEW k \in DOMAIN flight PROVE flight'[k].ver = version' \/ flight'[k].ver = flight[k].ver
      BY <2>2, <2>5
    <3>. QED
      BY <2>5, <3>1
  <2>7. Silent \/ Saying
    <3>1. CASE flight[i].kind = "snapshot"
      BY <1>5, <3>1 DEF Serve, Silent
    <3>2. CASE flight[i].kind # "snapshot"
      <4>. DEFINE e == Event("state", version', FALSE)
      <4>0. "state" \in EventTypes /\ version' \in Versions /\ executor \in BOOLEAN /\ FALSE \in BOOLEAN
        BY <1>0 DEF EventTypes
      <4>1. e \in EventState /\ e.type = "state" /\ e.ver = version'
        BY <4>0, EventTyped
      <4>2. Offer(e) /\ told' = version' /\ UNCHANGED <<sse, lastSummary>>
        BY <1>5, <3>2 DEF Serve
      <4>. HIDE DEF e
      <4>. QED
        BY <4>1, <4>2 DEF Saying
    <3>. QED
      BY <3>1, <3>2
  <2>. QED
    BY <2>1, <2>3, <2>4, <2>6, <2>7, NewsStep
<1>6. ASSUME NEW i \in DOMAIN flight, Answer(i) PROVE DashPast' /\ NewsInv' /\ version' = version
  <2>1. /\ flight[i].ver # None /\ shown' = flight[i].ver /\ newest' = LaterOf(newest, flight[i].ver)
        /\ Silent /\ version' = version
    BY <1>6 DEF Answer, server, stream, Silent
  <2>2. flight' = [flight EXCEPT ![i] = Request("snapshot", "initialize")] \/ flight' = RemoveAt(flight, i)
    BY <1>6 DEF Answer
  <2>. DEFINE r == Request("snapshot", "initialize")
  <2>3. r \in RequestState /\ r.ver = None
    BY RequestTyped DEF Kinds
  <2>4. flight' = [flight EXCEPT ![i] = r] \/ flight' = RemoveAt(flight, i)
    BY <2>2
  <2>. HIDE DEF r
  <2>5. \/ flight' = RemoveAt(flight, i)
        \/ \E q \in RequestState : q.ver = None /\ flight' = [flight EXCEPT ![i] = q]
    BY <2>3, <2>4
  <2>. QED
    BY <2>1, <2>5, ReturnNews DEF Served
<1>7. ASSUME NEW i \in DOMAIN flight, Fail(i) PROVE DashPast' /\ NewsInv' /\ version' = version
  <2>1. /\ shown' = shown /\ newest' = LaterOf(newest, Served(flight[i]))
        /\ flight' = RemoveAt(flight, i) /\ Silent /\ version' = version
    BY <1>7 DEF Fail, server, stream, Silent, Served
  <2>. QED
    BY <2>1, ReturnNews
<1>8. version' = version => version <= version'
  BY <1>00
<1>. QED
  BY <1>2, <1>3, <1>4, <1>5, <1>6, <1>7, <1>8 DEF ClientSteps

\* The steps of the chat.
LEMMA ChatNews ==
  ASSUME TurnsHold, DashTyped', DashPast, ChatPast, NewsInv, ChatSteps
  PROVE  version <= version' /\ DashPast' /\ NewsInv'
<1>0. /\ DashTyped /\ ChatTyped
      /\ version \in Versions /\ version' \in Versions /\ told \in Versions /\ executor \in BOOLEAN
      /\ version <= version
  BY ConstantFacts DEF TurnsHold, ChatsInv, DashTyped, Versions
<1>1. ASSUME flight' = flight PROVE \A k \in DOMAIN flight' : \E j \in DOMAIN flight : flight'[k].ver = flight[j].ver
  BY <1>1
<1>2. ASSUME version <= version', UNCHANGED <<flight, shown, newest>>, Silent \/ Saying
      PROVE  DashPast' /\ NewsInv'
  <2>1. ReachedStays
    BY <1>0, <1>2, ReachedKept
  <2>. QED
    BY <1>0, <1>1, <1>2, <2>1, NewsStep
<1>3. ASSUME NEW c \in Turns, Apart(c) PROVE version <= version' /\ DashPast' /\ NewsInv'
  <2>1. UNCHANGED <<server, stream, view, lastSummary, flight>>
    BY <1>3, ApartStays
  <2>. QED
    BY <1>0, <1>2, <2>1 DEF Silent, server, stream, view
<1>4. ASSUME NEW c \in Turns, Publishing(c) PROVE version <= version' /\ DashPast' /\ NewsInv'
  <2>1. /\ version <= version' /\ UNCHANGED <<executor, sse, view, busy, lastSummary, flight>>
        /\ UNCHANGED <<version, told, wire>> \/ (told' = version' /\ Offer(Event("state", version', FALSE)))
    BY <1>0, <1>4, PublishingOffers
  <2>. DEFINE e == Event("state", version', FALSE)
  <2>0. "state" \in EventTypes /\ version' \in Versions /\ executor \in BOOLEAN /\ FALSE \in BOOLEAN
    BY <1>0 DEF EventTypes
  <2>2. e \in EventState /\ e.type = "state" /\ e.ver = version'
    BY <2>0, EventTyped
  <2>3. UNCHANGED <<version, told, wire>> \/ (told' = version' /\ Offer(e))
    BY <2>1
  <2>. HIDE DEF e
  <2>4. Silent \/ Saying
    BY <2>1, <2>2, <2>3 DEF Silent, Saying
  <2>. QED
    BY <1>2, <2>1, <2>4 DEF view
<1>5. ASSUME NEW c \in Turns, Showing(c) PROVE version <= version' /\ DashPast' /\ NewsInv'
  <2>1. /\ UNCHANGED <<server, stream, lastSummary, flight>>
        /\ \/ UNCHANGED <<shown, newest>>
           \/ \E v \in Versions : /\ shown' = v /\ newest' = LaterOf(newest, v)
                                  /\ \/ v = turn[c].reply
                                     \/ stream_of[c].frames # <<>> /\ v = stream_of[c].frames[1].ver
    BY <1>0, <1>5, ShowingShows
  <2>2. version' = version /\ Silent
    BY <2>1 DEF server, stream, Silent
  <2>3. CASE UNCHANGED <<shown, newest>>
    BY <1>0, <1>2, <2>1, <2>2, <2>3
  <2>4. CASE ~UNCHANGED <<shown, newest>>
    <3>1. PICK v \in Versions : /\ shown' = v /\ newest' = LaterOf(newest, v)
                                /\ \/ v = turn[c].reply
                                   \/ stream_of[c].frames # <<>> /\ v = stream_of[c].frames[1].ver
      BY <2>1, <2>4
    <3>2. Old(v)
      <4>1. stream_of[c].frames \in Seq(FrameState)
        BY <1>0 DEF ChatTyped, StreamState
      <4>2. stream_of[c].frames # <<>> => 1 \in DOMAIN stream_of[c].frames
        BY <4>1
      <4>. QED
        BY <3>1, <4>2 DEF ChatPast
    <3>3. v <= version'
      BY <2>2, <3>2, ConstantFacts DEF Old
    <3>4. ReachedStays
      BY <1>0, <2>1, <3>1, ReachedKept
    <3>. QED
      BY <1>0, <1>1, <2>1, <2>2, <3>1, <3>3, <3>4, NewsStep
  <2>. QED
    BY <2>3, <2>4
<1>6. CASE HandleStopChat
  BY <1>0, <1>2, <1>6 DEF HandleStopChat, Silent, server, stream, view
<1>7. ASSUME NEW kind \in {"reset", "wipe"}, RequestReset(kind) PROVE version <= version' /\ DashPast' /\ NewsInv'
  <2>. DEFINE r == Request(kind, "none")
  <2>1. r \in RequestState /\ r.ver = None
    BY RequestTyped DEF Kinds
  <2>2. flight' = Append(flight, r) /\ UNCHANGED <<server, stream, view, lastSummary>>
    BY <1>7 DEF RequestReset
  <2>. HIDE DEF r
  <2>. QED
    BY <1>0, <2>1, <2>2, AppendNews DEF server, stream, view, Silent
<1>8. ASSUME NEW i \in DOMAIN flight, ResetAnswered(i) PROVE version <= version' /\ DashPast' /\ NewsInv'
  <2>1. /\ flight[i].ver # None /\ shown' = flight[i].ver /\ newest' = LaterOf(newest, flight[i].ver)
        /\ flight' = RemoveAt(flight, i) /\ Silent /\ version' = version
    BY <1>8 DEF ResetAnswered, server, stream, Silent
  <2>. QED
    BY <1>0, <2>1, ReturnNews DEF Served
<1>. QED
  BY <1>3, <1>4, <1>5, <1>6, <1>7, <1>8, ChatStepsAre

\* Every step keeps what the Dashboard knows, or is about to be told.
LEMMA NewsKeptByAll ==
  ASSUME TurnsHold, TurnsHold', News, [ChatNext]_allVars
  PROVE  News'
<1>0. DashTyped /\ DashTyped' /\ version \in Versions /\ version' \in Versions
  BY DEF TurnsHold, DashTyped
<1>1. version <= version' /\ DashPast' /\ NewsInv'
  <2>1. CASE ChatSteps
    BY <1>0, <2>1, ChatNews DEF News
  <2>2. CASE DashNext
    BY <1>0, <2>2, ServerNews, ClientNews DEF News, DashNext
  <2>3. CASE UNCHANGED allVars
    <3>1. UNCHANGED <<version, told, sse, wire, shown, newest, flight, lastSummary>>
      BY <2>3 DEF allVars, dashVars, server, stream, view
    <3>2. version <= version'
      BY <1>0, <3>1, ConstantFacts DEF Versions
    <3>3. DashPast' <=> DashPast
      BY <3>1 DEF DashPast, Old
    <3>4. NewsInv' <=> NewsInv
      BY <3>1 DEF NewsInv, LastKnown, Known, Reached, Prompts
    <3>. QED
      BY <3>2, <3>3, <3>4 DEF News
  <2>. QED
    BY <2>1, <2>2, <2>3 DEF ChatNext
<1>2. ChatPast'
  BY <1>0, <1>1, ChatPastKept DEF News
<1>. QED
  BY <1>1, <1>2 DEF News

\* Once nothing is under way, what the Dashboard shows agrees with the server's state as far
\* as a summary tells, also when a full queue has dropped events.
THEOREM SettledViewIsCurrentHolds == ChatSpec => []SettledViewIsCurrent
<1>1. ASSUME DashInit, ChatInit, TurnsHold PROVE News
  <2>. DEFINE r == Request("snapshot", "none")
  <2>1. r.ver = None
    BY DEF Request
  <2>2. flight = <<r>> /\ wire = <<>>
    BY <1>1 DEF DashInit
  <2>. HIDE DEF r
  <2>3. DashPast
    <3>1. \A i \in DOMAIN flight : flight[i].ver = None
      BY <2>1, <2>2
    <3>. QED
      BY <1>1, <2>2, <3>1 DEF DashInit, DashPast, Old
  <2>4. ChatPast
    <3>1. \A c \in Turns : turn[c].reply = None /\ stream_of[c].frames = <<>>
      BY <1>1 DEF ChatInit, Idle, NoStream
    <3>. QED
      BY <3>1 DEF ChatPast, Old
  <2>5. NewsInv
    BY <1>1 DEF DashInit, NewsInv, LastKnown
  <2>. QED
    BY <2>3, <2>4, <2>5 DEF News
<1>2. ASSUME TurnsHold, News, Quiet, ~Overtaken, ~CameBack
      PROVE  SummaryOf[shown] = SummaryOf[version]
  <2>1. flight = <<>> /\ wire = <<>> /\ sse = "open" /\ told = version
    BY <1>2 DEF Quiet
  <2>2. Known(version)
    BY <1>2, <2>1 DEF News, NewsInv
  <2>3. PICK w \in Versions : w <= version /\ SummaryOf[w] = SummaryOf[version] /\ Reached(w)
    BY <2>2 DEF Known
  <2>4. newest # None /\ w <= newest
    BY <2>1, <2>3 DEF Reached
  <2>5. shown \in Versions /\ newest \in Versions /\ ~(shown < newest)
    BY <1>2, <2>4 DEF Overtaken, TurnsHold, DashTyped, Shown
  <2>6. w <= shown
    BY <2>4, <2>5, ConstantFacts DEF Versions
  <2>7. w \notin 0 .. shown - 1
    BY <1>2, <2>3 DEF CameBack
  <2>8. w = shown
    BY <2>5, <2>6, <2>7, ConstantFacts DEF Versions
  <2>. QED
    BY <2>3, <2>8
<1>3. TurnsHold /\ News => SettledViewIsCurrent
  BY <1>2 DEF SettledViewIsCurrent
<1>. QED
  BY <1>1, <1>3, TurnsHoldAlways, NewsKeptByAll, PTL DEF ChatSpec
=============================================================================
