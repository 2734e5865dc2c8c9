------------------------------- MODULE WebChat -------------------------------
(***************************************************************************)
(* A chat turn in the web client: POST /api/chat/stream answers with a     *)
(* stream of frames, of which the text is painted once per animation       *)
(* frame; a stream that fails before its first frame falls back to POST    *)
(* /api/chat; Stop aborts the request and asks the server to stop.  While  *)
(* a turn has a message list of its own (streamMessages), it hides the     *)
(* server's.                                                               *)
(*                                                                         *)
(* Turns share the message list, the error line, the busy slot and the     *)
(* references to the current stream.  A second turn may start while the    *)
(* first is streaming: its guard is the busy slot, which any other handler *)
(* of the Dashboard clears.                                                *)
(***************************************************************************)
EXTENDS WebDashboard

CONSTANTS
    Turns,      \* the turns of a behaviour, 1 .. n
    MaxTokens   \* bound on the frames of text in a behaviour

ASSUME WebChatAssumption == None \notin Turns /\ MaxTokens \in Nat

VARIABLES
    turn,       \* the activation of handleChat, with its batcher; `stopped' tells that Stop came
                \* while its stream was awaited
    stream_of,  \* the server's stream, and the frames on their way
    list,       \* streamMessages: the turn that made it and the text painted (None: an error's), or None
    chatError,  \* is there a chatStreamError?
    ref         \* chatStreamIdRef and chatAbortControllerRef: a turn, or None

chatVars == <<turn, stream_of, list, chatError, ref>>
allVars == <<dashVars, chatVars>>

Idle == [at |-> "off", started |-> FALSE, finished |-> FALSE, got |-> 0,
         dirty |-> FALSE, gen |-> 0, active |-> 0, raf |-> {},
         aborted |-> FALSE, stopped |-> FALSE, bare |-> FALSE, ends |-> 0, posts |-> 0, reply |-> None]
NoStream == [at |-> "none", abort |-> FALSE, frames |-> <<>>]

ChatTypeOK ==
    /\ \A c \in Turns :
        /\ turn[c].at \in {"off", "streaming", "fallback", "over"}
        /\ turn[c].got \in 0 .. MaxTokens /\ turn[c].reply \in Shown
        /\ turn[c].active <= turn[c].gen /\ turn[c].raf \subseteq 1 .. turn[c].gen
        /\ stream_of[c].at \in {"none", "refused", "running", "answered", "ended"}
    /\ list = None \/ (list.turn \in Turns /\ list.text \in (0 .. MaxTokens) \union {None})
    /\ chatError \in BOOLEAN
    /\ ref \in Turns \union {None}

ChatInit ==
    /\ turn = [c \in Turns |-> Idle]
    /\ stream_of = [c \in Turns |-> NoStream]
    /\ list = None /\ chatError = FALSE /\ ref = None

Streaming(c) == turn[c].at = "streaming"
Started(c) == turn[c].at # "off"

----------------------------------------------------------------------------
(* The server: register_chat_stream, the generator chat_stream and its abort. *)

Frame(type, ver) == [type |-> type, ver |-> ver]
Send(c, at, type, ver) ==
    stream_of' = [stream_of EXCEPT ![c].at = at, ![c].frames = Append(@, Frame(type, ver))]

\* The POST arrives, even when its client has gone already.
Register(c) ==
    /\ Started(c) /\ stream_of[c].at = "none"
    /\ Send(c, "running", "start", None)
    /\ turn' = [turn EXCEPT ![c].posts = @ + 1]
    /\ UNCHANGED <<dashVars, list, chatError, ref>>

\* Or it is refused: the answer is there, but for its body.
Refuse(c) ==
    /\ Streaming(c) /\ ~turn[c].aborted /\ Left("cuts")
    /\ stream_of[c].at = "none"
    /\ stream_of' = [stream_of EXCEPT ![c].at = "refused"]
    /\ Spend("cuts")
    /\ UNCHANGED <<server, stream, view, busy, lastSummary, flight, turn, list, chatError, ref>>

Token(c) ==
    /\ stream_of[c].at = "running" /\ ~stream_of[c].abort /\ Left("tokens")
    /\ Send(c, "running", "delta", None)
    /\ Spend("tokens")
    /\ UNCHANGED <<server, stream, view, busy, lastSummary, flight, turn, list, chatError, ref>>

\* The reply is stored and announced before the frame is sent.
Reply(c) ==
    /\ stream_of[c].at = "running" /\ ~stream_of[c].abort
    /\ version' = IF version < MaxVersion THEN version + 1 ELSE version
    /\ told' = version'
    /\ Offer(Event("state", version', FALSE))
    /\ Send(c, "answered", "done", version')
    /\ UNCHANGED <<executor, sse, view, busy, lastSummary, flight, left, turn, list, chatError, ref>>

\* The model fails: the frame carries the state.  Anything else that raises: it does not.
Breaks(c, bare) ==
    /\ Left("breaks")
    /\ stream_of[c].at = "running" /\ ~stream_of[c].abort
    /\ Send(c, "ended", "error", IF bare THEN None ELSE version)
    /\ Spend("breaks")
    /\ IF bare THEN UNCHANGED <<told, wire>>
       ELSE told' = version /\ Offer(Event("state", version, FALSE))
    /\ UNCHANGED <<version, executor, sse, view, busy, lastSummary, flight, turn, list, chatError, ref>>

\* The event is looked at between two frames, the one that ended the reply included.
Aborts(c) ==
    /\ stream_of[c].at \in {"running", "answered"} /\ stream_of[c].abort
    /\ told' = version
    /\ Offer(Event("state", version, FALSE))
    /\ Send(c, "ended", "aborted", version)
    /\ UNCHANGED <<version, executor, sse, view, busy, lastSummary, flight, left, turn, list, chatError, ref>>

\* MUTANT: only a client that goes away has its stream unregistered.
UnregisterGone(c) ==
    /\ stream_of[c].at \in {"running", "answered"} /\ ~Streaming(c)
    /\ stream_of' = [stream_of EXCEPT ![c].at = "ended"]
    /\ UNCHANGED <<dashVars, turn, list, chatError, ref>>

\* The generator is exhausted, or request.is_disconnected().
Unregister(c) ==
    /\ \/ stream_of[c].at = "answered" /\ ~stream_of[c].abort
       \/ stream_of[c].at \in {"running", "answered"} /\ ~Streaming(c)
    /\ stream_of' = [stream_of EXCEPT ![c].at = "ended"]
    /\ UNCHANGED <<dashVars, turn, list, chatError, ref>>

----------------------------------------------------------------------------
(* The batcher: at most one frame is queued, and one that was cancelled does not paint. *)

\* schedule()
Schedule(t) ==
    IF t.active = 0
    THEN [t EXCEPT !.dirty = TRUE, !.gen = @ + 1, !.active = t.gen + 1, !.raf = @ \union {t.gen + 1}]
    ELSE [t EXCEPT !.dirty = TRUE]
\* clearFrame(): the callback may have left the browser's queue already.
ClearFrame(t) == [t EXCEPT !.active = 0]
\* cancel()
Cancel(t) == [ClearFrame(t) EXCEPT !.dirty = FALSE]
\* settle(), in the finally; what it paints is in Finish.
Settle(t) == [ClearFrame(t) EXCEPT !.dirty = FALSE, !.at = "over"]

\* updateStreamingAssistant: only the placeholder of the turn is touched.
Paint(c, text) ==
    IF list # None /\ list.turn = c THEN [list EXCEPT !.text = text] ELSE list

\* runFrame(generation)
AnimationFrame(c, g) ==
    /\ g \in turn[c].raf
    /\ LET t == [turn[c] EXCEPT !.raf = @ \ {g}] IN
        IF t.active # g THEN /\ turn' = [turn EXCEPT ![c] = t]
                             /\ UNCHANGED list
        ELSE /\ turn' = [turn EXCEPT ![c] = [t EXCEPT !.active = 0, !.dirty = FALSE]]
             /\ list' = IF t.dirty THEN Paint(c, t.got) ELSE list
    /\ UNCHANGED <<dashVars, stream_of, chatError, ref>>

\* cancelFrame took effect.
DropFrame(c, g) ==
    /\ g \in turn[c].raf /\ g # turn[c].active
    /\ turn' = [turn EXCEPT ![c].raf = @ \ {g}]
    /\ UNCHANGED <<dashVars, stream_of, list, chatError, ref>>

----------------------------------------------------------------------------
(* handleChat. *)

\* The Sender submits, the trash can resets and Stop stops, by the busy slot.
SenderEnabled == busy # "chat"
StopEnabled == busy = "chat"

HandleChat(c) ==
    /\ turn[c].at = "off" /\ \A d \in Turns : d < c => Started(d)
    /\ Left("chats") /\ SenderEnabled
    /\ turn' = [turn EXCEPT ![c].at = "streaming"]
    /\ list' = [turn |-> c, text |-> 0]
    /\ chatError' = FALSE
    /\ ref' = c
    /\ busy' = "chat"
    /\ Spend("chats")
    /\ UNCHANGED <<server, stream, view, lastSummary, flight, stream_of>>

\* The events of a stream, but for those that end it.
OnText(c) ==
    /\ Streaming(c) /\ ~turn[c].aborted
    /\ stream_of[c].frames # <<>>
    /\ LET e == Head(stream_of[c].frames)
           t == [turn[c] EXCEPT !.started = TRUE]
       IN
        /\ e.type \in {"start", "delta"}
        /\ turn' = [turn EXCEPT ![c] = IF e.type = "start" THEN t ELSE Schedule([t EXCEPT !.got = t.got + 1])]
    /\ stream_of' = [stream_of EXCEPT ![c].frames = Tail(@)]
    /\ UNCHANGED <<dashVars, list, chatError, ref>>

\* MUTANT: Stop leaves the request as it is.
OnEndThoughStopped(c) ==
    /\ Streaming(c) /\ stream_of[c].frames # <<>> /\ Head(stream_of[c].frames).type # "delta"
    /\ turn' = [turn EXCEPT ![c].finished = TRUE, ![c].ends = @ + 1]
    /\ stream_of' = [stream_of EXCEPT ![c].frames = Tail(@)]
    /\ UNCHANGED <<dashVars, list, chatError, ref>>
\* done, aborted and error carry the server's state, which replaces the list; an error
\* without it leaves the text that was painted.
OnEnd(c) ==
    /\ Streaming(c) /\ ~turn[c].aborted
    /\ stream_of[c].frames # <<>>
    /\ LET e == Head(stream_of[c].frames)
           t == Cancel(turn[c])
       IN
        /\ e.type \in {"done", "aborted", "error"}
        /\ turn' = [turn EXCEPT ![c] = [t EXCEPT !.finished = TRUE, !.ends = t.ends + 1,
                                                 !.bare = (e.ver = None)]]
        /\ shown' = IF e.ver = None THEN shown ELSE e.ver
        /\ newest' = IF e.ver = None THEN newest ELSE LaterOf(newest, e.ver)
        /\ list' = IF e.ver # None THEN None
                   ELSE IF turn[c].got = 0 THEN Paint(c, None) ELSE list
        /\ chatError' = (chatError \/ e.type # "done")
    /\ stream_of' = [stream_of EXCEPT ![c].frames = Tail(@)]
    /\ UNCHANGED <<server, stream, badge, notice, busy, lastSummary, flight, left, ref>>

\* MUTANT: what the last animation frame did not paint is dropped.
FinishUnpainted(c) ==
    /\ turn' = [turn EXCEPT ![c] = Settle(@)]
    /\ ref' = None /\ busy' = "none"
    /\ UNCHANGED list
\* The finally: whatever turn it belongs to, it forgets the current one and the busy slot.
Finish(c) ==
    /\ turn' = [turn EXCEPT ![c] = Settle(@)]
    /\ list' = IF turn[c].dirty THEN Paint(c, turn[c].got) ELSE list
    /\ ref' = None
    /\ busy' = "none"

\* The body has been read to its end.
StreamEnds(c) ==
    /\ Streaming(c) /\ ~turn[c].aborted
    /\ stream_of[c].at = "ended" /\ stream_of[c].frames = <<>>
    /\ chatError' = (chatError \/ (turn[c].started /\ ~turn[c].finished))
    /\ Finish(c)
    /\ UNCHANGED <<server, stream, view, lastSummary, flight, left, stream_of>>

\* MUTANT: a stream that breaks is always replaced by the other endpoint.
StreamFailsOver(c) ==
    /\ Streaming(c) /\ ~turn[c].aborted /\ Left("cuts")
    /\ Spend("cuts")
    /\ stream_of' = [stream_of EXCEPT ![c].frames = <<>>]
    /\ turn' = [turn EXCEPT ![c].at = "fallback"]
    /\ UNCHANGED <<server, stream, view, lastSummary, flight, chatError, list, ref, busy>>
\* The connection fails: an error after the first event, and the other endpoint before.
StreamFails(c) ==
    /\ Streaming(c) /\ ~turn[c].aborted /\ Left("cuts")
    /\ Spend("cuts")
    /\ stream_of' = [stream_of EXCEPT ![c].frames = <<>>]
    /\ IF turn[c].started
       THEN /\ chatError' = TRUE
            /\ Finish(c)
       ELSE /\ turn' = [turn EXCEPT ![c].at = "fallback"]
            /\ UNCHANGED <<chatError, list, ref, busy>>
    /\ UNCHANGED <<server, stream, view, lastSummary, flight>>

\* The body of a refusal is read for its message, and an abort of that read is swallowed with
\* any other failure of it: the other endpoint is asked for a turn that was stopped then.
OnRefusal(c) ==
    /\ Streaming(c) /\ stream_of[c].at = "refused"
    /\ turn' = [turn EXCEPT ![c].at = "fallback"]
    /\ UNCHANGED <<dashVars, stream_of, list, chatError, ref>>

\* POST /api/chat, in the server.
FallbackServed(c) ==
    /\ turn[c].at = "fallback" /\ turn[c].reply = None
    /\ version' = IF version < MaxVersion THEN version + 1 ELSE version
    /\ told' = version'
    /\ Offer(Event("state", version', FALSE))
    /\ turn' = [turn EXCEPT ![c].reply = version', ![c].posts = @ + 1]
    /\ UNCHANGED <<executor, sse, view, busy, lastSummary, flight, left, stream_of, list, chatError, ref>>

FallbackAnswered(c) ==
    /\ turn[c].at = "fallback" /\ turn[c].reply # None
    /\ shown' = turn[c].reply
    /\ newest' = LaterOf(newest, turn[c].reply)
    /\ turn' = [turn EXCEPT ![c] = Settle(@)]
    /\ list' = None /\ ref' = None /\ busy' = "none"
    /\ UNCHANGED <<server, stream, badge, notice, lastSummary, flight, left, stream_of, chatError>>

FallbackFails(c) ==
    /\ turn[c].at = "fallback" /\ Left("cuts")
    /\ Spend("cuts")
    /\ chatError' = TRUE
    /\ Finish(c)
    /\ UNCHANGED <<server, stream, view, lastSummary, flight, stream_of>>

\* handleStopChat: the abort endpoint and the controller.
HandleStopChat ==
    /\ StopEnabled /\ Left("stops")
    /\ Spend("stops")
    /\ turn' = IF ref = None THEN turn
               ELSE [turn EXCEPT ![ref].aborted = TRUE, ![ref].stopped = @ \/ Streaming(ref)]
    /\ UNCHANGED <<server, stream, view, busy, lastSummary, flight, stream_of, list, chatError, ref>>

\* abort_chat_stream finds the stream, or arrives too early or too late.
AbortArrives(c) ==
    /\ turn[c].aborted /\ stream_of[c].at \in {"running", "answered"} /\ ~stream_of[c].abort
    /\ stream_of' = [stream_of EXCEPT ![c].abort = TRUE]
    /\ UNCHANGED <<dashVars, turn, list, chatError, ref>>

\* The read rejects with an AbortError.
Stopped(c) ==
    /\ Streaming(c) /\ turn[c].aborted /\ stream_of[c].at # "refused"
    /\ chatError' = TRUE
    /\ Finish(c)
    /\ stream_of' = [stream_of EXCEPT ![c].frames = <<>>]
    /\ UNCHANGED <<server, stream, view, lastSummary, flight, left>>

\* handleResetChat, and the workspace reset of the settings page.
RequestReset(kind) ==
    /\ Left("resets") /\ Len(flight) < MaxFlight
    /\ kind = "reset" => SenderEnabled
    /\ flight' = Append(flight, Request(kind, "none"))
    /\ busy' = IF kind = "reset" THEN "chat" ELSE busy
    /\ Spend("resets")
    /\ UNCHANGED <<server, stream, view, lastSummary, chatVars>>

ResetAnswered(i) ==
    /\ flight[i].kind \in {"reset", "wipe"} /\ flight[i].ver # None
    /\ shown' = flight[i].ver
    /\ newest' = LaterOf(newest, flight[i].ver)
    /\ list' = None /\ chatError' = FALSE
    /\ busy' = IF flight[i].kind = "reset" THEN "none" ELSE busy
    /\ flight' = RemoveAt(flight, i)
    /\ UNCHANGED <<server, stream, badge, notice, lastSummary, left, turn, stream_of, ref>>

ChatSteps ==
    \/ \E c \in Turns :
        \/ Register(c) \/ Refuse(c) \/ Token(c) \/ Reply(c) \/ Aborts(c) \/ Unregister(c)
        \/ \E bare \in BOOLEAN : Breaks(c, bare)
        \/ \E g \in turn[c].raf : AnimationFrame(c, g) \/ DropFrame(c, g)
        \/ HandleChat(c) \/ OnText(c) \/ OnEnd(c) \/ StreamEnds(c) \/ StreamFails(c) \/ OnRefusal(c)
        \/ FallbackServed(c) \/ FallbackAnswered(c) \/ FallbackFails(c)
        \/ AbortArrives(c) \/ Stopped(c)
    \/ HandleStopChat
    \/ \E kind \in {"reset", "wipe"} : RequestReset(kind)
    \/ \E i \in DOMAIN flight : ResetAnswered(i)

ChatNext == ChatSteps \/ (DashNext /\ UNCHANGED chatVars)

\* The server's generator goes on, the browser reads what arrives and paints.
ChatFairness ==
    \A c \in Turns :
        /\ WF_allVars(Register(c)) /\ WF_allVars(Reply(c) \/ Aborts(c) \/ Unregister(c))
        /\ WF_allVars(OnText(c) \/ OnEnd(c) \/ StreamEnds(c) \/ OnRefusal(c) \/ Stopped(c))
        /\ WF_allVars(FallbackServed(c) \/ FallbackAnswered(c))

----------------------------------------------------------------------------
(* Properties. *)

\* When a turn is over and its text still stands, it is all the text that was received,
\* unless the server's error frame had no state: cancel() then drops what was not painted.
LastTokensPainted ==
    list # None =>
        LET t == turn[list.turn] IN
        t.at = "over" /\ ~t.bare /\ list.text # None => list.text = t.got

\* A turn handles one terminal event, although the server sends `aborted' after `done' when
\* the abort comes between the two.
OneEndPerTurn == \A c \in Turns : turn[c].ends <= 1

\* A message reaches the server twice only if its stream failed before its first event was
\* seen: not the message of a turn that showed any text, nor of one that was stopped before its
\* stream failed, whichever order the abort, the failure and the late arrival of the first
\* request come in.
SentTwiceOnlyUnseen ==
    \A c \in Turns :
        turn[c].posts > 1 => ~turn[c].started /\ turn[c].got = 0 /\ ~turn[c].stopped

\* Every stream that was registered is given up, whether its turn ended, failed or was stopped.
StreamsAreReleased == \A c \in Turns : stream_of[c].at = "running" ~> stream_of[c].at = "ended"
=============================================================================
