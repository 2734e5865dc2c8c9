---------------------------- MODULE TerminalClient ----------------------------
(***************************************************************************)
(* The terminal client: a snapshot of the server's state that events,      *)
(* polling and the answers of commands replace, in any order, and a        *)
(* transcript that only grows.  Two effects, which React runs after a      *)
(* render and at the latest before the next, add to the transcript: the    *)
(* outcome of each action that was seen active (ActionActivityTracker),    *)
(* and the messages of the chat that were not entered here.  What is       *)
(* entered here is added at once, and recognised by its text when the      *)
(* server's list brings it.                                                *)
(*                                                                         *)
(* The command line submits whether or not a command is under way.         *)
(***************************************************************************)
EXTENDS EventBudget, Sequences, SequencesExt

CONSTANTS
    Ids,        \* actions; a reset lets an identifier be used again
    ChatTurns,  \* the chat turns entered here, 1 .. n
    TextOf,     \* what is said in each turn, and in turn 0: by another client
    MaxReads    \* bound on the requests, and on the events, under way

ASSUME TerminalAssumption ==
    /\ IsFiniteSet(Ids)
    /\ 0 \notin ChatTurns /\ DOMAIN TextOf = ChatTurns \union {0}

VARIABLES
    srv,        \* the server: workspace, actions, chat
    mode,       \* how news arrive: "sse", "polling" or "degraded"
    feed,       \* events on their way
    connected,  \* what the status bar says
    reads,      \* requests under way
    talk,       \* the chat streams
    screen,     \* state
    rendered,   \* have the effects run for it?
    diary,      \* the tracker, what the transcript is made from, and, as history, `since': the
                \* workspace that the tracker was started for
    missed      \* history: what the properties exempt

termVars == <<srv, mode, feed, connected, reads, talk, screen, rendered, diary, missed>>

Roles == {"user", "assistant"}
Statuses == {"none", "active", "completed", "rejected", "cancelled", "failed"}
Terminal == {"completed", "rejected", "cancelled", "failed"}
Texts == {TextOf[c] : c \in DOMAIN TextOf}

\* What the server keeps, and sends as a state.
Messages == [role : Roles, text : Texts, of : DOMAIN TextOf, key : Nat \X Nat]
State == [gen : Nat, act : [Ids -> Statuses], chat : Seq(Messages)]

ASSUME StateAssumption == None \notin State

Tracker == [initialized |-> FALSE, generation |-> 0, active |-> {}, closed |-> {}]

TermInit ==
    /\ srv \in {[gen |-> 0, act |-> a, chat |-> <<>>] : a \in [Ids -> {"none", "active"}]}
    /\ mode \in {"sse", "polling"}
    /\ feed = <<>> /\ connected = FALSE
    /\ reads = <<[op |-> "refresh", got |-> None]>>
    /\ talk = [c \in ChatTurns |-> [at |-> "off", frame |-> None]]
    /\ screen = None /\ rendered = TRUE
    /\ diary = [tracker |-> Tracker, since |-> 0, said |-> <<>>, seen |-> {}, pending |-> <<>>,
                shown |-> [r \in Roles |-> [x \in Texts |-> 0]]]
    /\ missed = {}

----------------------------------------------------------------------------
(* The server, and the Watch that it runs. *)

\* _publish_state, or a tick that changed something.
Tell(type) ==
    feed' = IF mode = "sse" /\ Len(feed) < MaxReads THEN Append(feed, type) ELSE feed

Moves == [none |-> {"active"}, active |-> {"completed", "rejected", "cancelled"},
          cancelled |-> {"failed"}, completed |-> {}, rejected |-> {}, failed |-> {}]

\* An action is added, ends, or gets its result (failed or cancelled), which is recorded after
\* the end.
ActionMoves(a) ==
    /\ Left("moves") /\ Spend("moves")
    /\ \E to \in Moves[srv.act[a]] : srv' = [srv EXCEPT !.act[a] = to]
    /\ mode = "sse" => Len(feed) < MaxReads
    /\ Tell("watch_step")
    /\ UNCHANGED <<mode, connected, reads, talk, screen, rendered, diary, missed>>

Emptied == [gen |-> srv.gen + 1, act |-> [a \in Ids |-> "none"], chat |-> <<>>]

\* Another client resets the workspace: the event is a `state' with a reason.
ResetElsewhere ==
    /\ Left("remote") /\ Spend("remote")
    /\ srv' = Emptied
    /\ Tell("state")
    /\ UNCHANGED <<mode, connected, reads, talk, screen, rendered, diary, missed>>

Message(role, of) == [role |-> role, text |-> TextOf[of], of |-> of, key |-> <<srv.gen, Len(srv.chat)>>]
Says(role, of) == srv' = [srv EXCEPT !.chat = Append(@, Message(role, of))]

\* Another client says something.
ChatElsewhere ==
    /\ Left("foreign") /\ Spend("foreign")
    /\ Says("user", 0)
    /\ Tell("state")
    /\ UNCHANGED <<mode, connected, reads, talk, screen, rendered, diary, missed>>

----------------------------------------------------------------------------
(* The two effects. *)

\* MUTANT: the end is an outcome.
TerminalOutcomeAtOnce(s, a) == s.act[a]
\* terminalOutcome: a cancelled action has none before its result.
TerminalOutcome(s, a) == IF s.act[a] = "cancelled" THEN None ELSE s.act[a]

\* collectActionActivityEntries: the first state only sets the tracker up; an action that was
\* seen active is announced at its end, a cancelled one not before its result.
Activity(t, s) ==
    LET ended == {a \in Ids : s.act[a] \in Terminal}
        live == {a \in Ids : s.act[a] = "active"}
        unknown == ended \ (t.closed \union t.active)
        told == {a \in ended \cap t.active : TerminalOutcome(s, a) # None} \ t.closed
    IN  IF ~t.initialized
        THEN [tracker |-> [t EXCEPT !.initialized = TRUE, !.closed = @ \union ended,
                                    !.active = (@ \ ended) \union (live \ t.closed)],
              told |-> {}]
        ELSE [tracker |-> [t EXCEPT !.closed = @ \union unknown \union told,
                                    !.active = (@ \union (live \ t.closed)) \ told],
              told |-> told]

Announcement(t, s, a) == [generation |-> t.generation, gen |-> s.gen, id |-> a, outcome |-> TerminalOutcome(s, a)]

\* Of each message that was not seen before: one entered here is only recognised.
Note(d, m) ==
    LET match == {i \in DOMAIN d.pending : d.pending[i] = <<m.role, m.text>>} IN
    IF m.key \in d.seen THEN d
    ELSE IF match # {}
    THEN [d EXCEPT !.seen = @ \union {m.key},
                   !.pending = RemoveAt(@, CHOOSE i \in match : \A j \in match : i <= j)]
    ELSE [d EXCEPT !.seen = @ \union {m.key}, !.shown[m.role][m.text] = @ + 1]

\* The messages of a list, one after the other.
Noted(d, chat) ==
    LET noted[n \in 0 .. Len(chat)] == IF n = 0 THEN d ELSE Note(noted[n - 1], chat[n])
    IN  noted[Len(chat)]

Effects(d, s) ==
    LET a == Activity(d.tracker, s)
        news == SetToSeq({Announcement(d.tracker, s, id) : id \in a.told})
        chat == Noted(d, s.chat)
    IN  [tracker |-> a.tracker, since |-> d.since, said |-> d.said \o news,
         seen |-> chat.seen, pending |-> chat.pending, shown |-> chat.shown]

\* The diary once the effects of the last render have run.
Flushed(d) == IF rendered THEN d ELSE Effects(d, screen)

\* A reply that is on the screen before its `done' came; a state from before the reset that the
\* tracker was started by; an outcome from after it that was announced before.
Early(s) == \E c \in ChatTurns, i \in DOMAIN s.chat :
                talk'[c].at = "replied" /\ s.chat[i].of = c /\ s.chat[i].role = "assistant"
Older(s, d) == s.gen < diary.since \/ (~rendered /\ screen.gen < d.since)
Ahead(d) == \E k \in DOMAIN d.said :
               d.said[k].generation < d.tracker.generation /\ d.said[k].gen >= d.since

\* setState, from anywhere, after what d has become.
Apply(s, d) ==
    /\ screen' = s
    /\ rendered' = FALSE
    /\ diary' = Flushed(d)
    /\ missed' = missed \union (IF Early(s) THEN {"early"} ELSE {})
                        \union (IF Older(s, d) THEN {"older"} ELSE {})
                        \union (IF Ahead(d) THEN {"ahead"} ELSE {})

\* React runs the effects.
RunEffects ==
    /\ ~rendered
    /\ rendered' = TRUE
    /\ diary' = Effects(diary, screen)
    /\ UNCHANGED <<srv, mode, feed, connected, reads, talk, screen, missed, left>>

----------------------------------------------------------------------------
(* News. *)

Get(op) == [op |-> op, got |-> None]
Refresh == Len(reads) < MaxReads /\ reads' = Append(reads, Get("refresh"))

\* MUTANT: the fallback only says that the stream is gone.
PollAsAsked ==
    /\ mode = "polling" /\ \A i \in DOMAIN reads : reads[i].op # "refresh"
    /\ Refresh
    /\ UNCHANGED <<srv, mode, feed, connected, talk, screen, rendered, diary, missed, left>>
\* setInterval(refresh), unless the event stream is trusted.
Poll ==
    /\ mode # "sse"
    /\ \A i \in DOMAIN reads : reads[i].op # "refresh"
    /\ Refresh
    /\ UNCHANGED <<srv, mode, feed, connected, talk, screen, rendered, diary, missed, left>>

\* applyEvent: the server sends summaries, for which shouldRefreshFullStateFromEvent decides.
EventArrives ==
    /\ mode = "sse" /\ feed # <<>>
    /\ connected' = TRUE
    /\ feed' = Tail(feed)
    /\ Refresh
    /\ UNCHANGED <<srv, mode, talk, screen, rendered, diary, missed, left>>

\* The stream ends or fails, for good: enterPollingFallback.
StreamCloses ==
    /\ mode = "sse" /\ Left("cuts") /\ Spend("cuts")
    /\ mode' = "degraded"
    /\ feed' = <<>>
    /\ connected' = FALSE
    /\ UNCHANGED <<srv, reads, talk, screen, rendered, diary, missed>>

\* The server answers: a reset, a task, a rejection, or a read.
Effect(op) ==
    CASE op = "reset" -> {Emptied}
      [] op = "task" -> {[srv EXCEPT !.act[a] = "active"] : a \in {b \in Ids : srv.act[b] = "none"}}
      [] op = "reject" -> {[srv EXCEPT !.act[a] = "rejected"] : a \in {b \in Ids : srv.act[b] = "active"}}
      [] OTHER -> {srv}

ReadServed(i) ==
    /\ reads[i].got = None
    /\ srv' \in Effect(reads[i].op)
    /\ reads' = [reads EXCEPT ![i].got = srv']
    /\ IF reads[i].op = "refresh" THEN UNCHANGED feed ELSE Tell("state")
    /\ UNCHANGED <<mode, connected, talk, screen, rendered, diary, missed, left>>

\* There is nothing to reject, or no room for a task.
ReadRefused(i) ==
    /\ reads[i].got = None /\ Effect(reads[i].op) = {}
    /\ reads' = RemoveAt(reads, i)
    /\ UNCHANGED <<srv, mode, feed, connected, talk, screen, rendered, diary, missed, left>>

\* MUTANT: what was closed before the reset stays closed.
ResetTrackerKeeping(t) == [t EXCEPT !.generation = @ + 1, !.active = {}]
\* resetActionActivityTracker.
ResetTracker(t) == [Tracker EXCEPT !.generation = t.generation + 1]

\* refresh, and the commands that come with a state; a reset starts the tracker anew before
\* the effects of the last render have necessarily run.
ReadAnswered(i) ==
    /\ reads[i].got # None
    /\ connected' = (connected \/ reads[i].op = "refresh")
    /\ UNCHANGED talk
    /\ Apply(reads[i].got,
             IF reads[i].op = "reset"
             THEN [diary EXCEPT !.tracker = ResetTracker(@), !.since = reads[i].got.gen] ELSE diary)
    /\ reads' = RemoveAt(reads, i)
    /\ UNCHANGED <<srv, mode, feed, left>>

ReadFails(i) ==
    /\ Left("failures") /\ Spend("failures")
    /\ connected' = (connected /\ reads[i].op # "refresh")
    /\ reads' = RemoveAt(reads, i)
    /\ missed' = missed \union (IF mode = "sse" THEN {"news"} ELSE {})
                        \union (IF reads[i].op = "reset" /\ reads[i].got # None THEN {"older"} ELSE {})
    /\ UNCHANGED <<srv, mode, feed, talk, screen, rendered, diary>>

----------------------------------------------------------------------------
(* Commands. *)

\* Those that ask the server; the views and /refresh read, the others come with a state.
Commands == {"refresh", "approve", "task", "reject", "reset"}

\* handleSubmit: what a command does before its first await.
HandleSubmit(op) ==
    /\ Left("commands") /\ Spend("commands")
    /\ Len(reads) < MaxReads
    /\ reads' = Append(reads, Get(op))
    /\ UNCHANGED <<srv, mode, feed, connected, talk, screen, rendered, diary, missed>>

\* MUTANT: what is said here is not waited for.
LocalOnly(d, role, text) == [d EXCEPT !.shown[role][text] = @ + 1]
\* appendLocalChat.
Local(d, role, text) ==
    [d EXCEPT !.pending = Append(@, <<role, text>>), !.shown[role][text] = @ + 1]

RunChat(c) ==
    /\ talk[c].at = "off" /\ \A b \in ChatTurns : b < c => talk[b].at # "off"
    /\ Left("chats") /\ Spend("chats")
    /\ diary' = Local(diary, "user", TextOf[c])
    /\ talk' = [talk EXCEPT ![c].at = "sent"]
    /\ UNCHANGED <<srv, mode, feed, connected, reads, screen, rendered, missed>>

\* The server stores what was said, then the reply, and announces it before it sends `done'.
ChatHeard(c) ==
    /\ talk[c].at = "sent"
    /\ Says("user", c)
    /\ talk' = [talk EXCEPT ![c].at = "heard"]
    /\ UNCHANGED <<mode, feed, connected, reads, screen, rendered, diary, missed, left>>

ChatReplied(c) ==
    /\ talk[c].at = "heard"
    /\ Says("assistant", c)
    /\ Tell("state")
    /\ talk' = [talk EXCEPT ![c] = [at |-> "replied", frame |-> srv']]
    /\ UNCHANGED <<mode, connected, reads, screen, rendered, diary, missed, left>>

\* `done': the reply is appended, and its state applied.
ChatDone(c) ==
    /\ talk[c].at = "replied"
    /\ talk' = [talk EXCEPT ![c] = [at |-> "over", frame |-> None]]
    /\ Apply(talk[c].frame, Local(diary, "assistant", TextOf[c]))
    /\ UNCHANGED <<srv, mode, feed, connected, reads, left>>

\* The request or its stream fails: what was said may not have been stored.
ChatFails(c) ==
    /\ talk[c].at \in {"sent", "heard", "replied"} /\ Left("failures") /\ Spend("failures")
    /\ talk' = [talk EXCEPT ![c] = [at |-> "over", frame |-> None]]
    /\ missed' = missed \union (IF talk[c].at = "sent" THEN {"unheard"} ELSE {})
    /\ UNCHANGED <<srv, mode, feed, connected, reads, screen, rendered, diary>>

TermNext ==
    \/ \E a \in Ids : ActionMoves(a)
    \/ ResetElsewhere \/ ChatElsewhere
    \/ RunEffects \/ Poll \/ EventArrives \/ StreamCloses
    \/ \E i \in DOMAIN reads : ReadServed(i) \/ ReadRefused(i) \/ ReadAnswered(i) \/ ReadFails(i)
    \/ \E op \in Commands : HandleSubmit(op)
    \/ \E c \in ChatTurns : RunChat(c) \/ ChatHeard(c) \/ ChatReplied(c) \/ ChatDone(c) \/ ChatFails(c)

\* What was served is answered, or fails; the effects of a render run.
Settles == \E i \in DOMAIN reads : reads[i].got # None /\ reads' = RemoveAt(reads, i)
Rendered == ~rendered /\ rendered' = TRUE

\* Timers fire, events arrive, requests are served and settle, React runs effects.
TermFairness ==
    /\ WF_termVars(Poll) /\ WF_termVars(EventArrives)
    /\ WF_termVars(\E i \in DOMAIN reads : ReadServed(i) \/ ReadRefused(i))
    /\ WF_reads(Settles) /\ WF_rendered(Rendered)

----------------------------------------------------------------------------
(* Properties. *)

TermTypeOK ==
    /\ srv \in State /\ mode \in {"sse", "polling", "degraded"}
    /\ Len(feed) <= MaxReads /\ Len(reads) <= MaxReads /\ connected \in BOOLEAN
    /\ diary.tracker.active \cap diary.tracker.closed = {}
    /\ missed \subseteq {"early", "older", "ahead", "news", "unheard"}

\* However states overtake each other, an outcome is announced once, and it is the action's:
\* a cancelled action is announced with its result, and never as something else before.  An
\* entry's key in the transcript is its own, whatever is reset; and no outcome is announced
\* twice, unless the answer of a reset comes after an outcome from after it, or a state from
\* before it comes later still.
AnnouncedOnce ==
    LET said == diary.said IN
    /\ \A i \in DOMAIN said : said[i].outcome \in {"completed", "rejected", "failed"}
    /\ \A i, j \in DOMAIN said :
         said[i].generation = said[j].generation /\ said[i].id = said[j].id => i = j
    /\ missed \cap {"older", "ahead"} = {} =>
        \A i, j \in DOMAIN said : said[i].gen = said[j].gen /\ said[i].id = said[j].id => i = j

\* An action that is active and on the screen as such is followed, also under an identifier that
\* was used before a reset from here: once that reset is answered, and unless a state from
\* before it came after it.
ActiveIsFollowed ==
    /\ screen # None /\ rendered /\ "older" \notin missed
    /\ \A i \in DOMAIN reads : reads[i].op # "reset"
    =>
        \A a \in Ids : screen.gen = srv.gen /\ screen.act[a] = "active" /\ srv.act[a] = "active"
                            => a \in diary.tracker.active

\* What is followed and has its result is announced, unless the workspace is reset meanwhile:
\* by the events while the stream is there, by polling once it is gone.  A refresh that fails
\* while the stream is there is not tried again.
Settled(a) == srv.act[a] \in {"completed", "rejected", "failed"}
FollowedIsAnnounced ==
    \A a \in Ids :
        a \in diary.tracker.active /\ Settled(a)
            ~> a \notin diary.tracker.active \/ ~Settled(a) \/ "news" \in missed

\* When nothing is under way, the transcript has each message once, whoever said it and
\* however it came: unless a refresh brought a reply before its `done', or what was said was
\* never stored, and its text waits to be taken for a later message.
Heard(r, x) == Cardinality({k \in diary.seen : \E i \in DOMAIN srv.chat :
                   srv.chat[i].key = k /\ srv.chat[i].role = r /\ srv.chat[i].text = x})
TranscriptIsTheChat ==
    (\A c \in ChatTurns : talk[c].at \in {"off", "over"}) /\ rendered /\ screen # None =>
        \/ srv.gen > 0 \/ screen.chat # srv.chat
        \/ missed \cap {"early", "unheard"} # {}
        \/ \A r \in Roles, x \in Texts : diary.shown[r][x] = Heard(r, x)
=============================================================================
