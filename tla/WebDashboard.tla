---------------------------- MODULE WebDashboard ----------------------------
(***************************************************************************)
(* The Dashboard of the web client: it shows a copy of the server's state, *)
(* and refreshes it when an event of /api/events says that something has   *)
(* changed, when a request of its own comes back, or on demand.  Requests  *)
(* are asynchronous and come back in any order; whichever comes back last  *)
(* is what is shown.                                                       *)
(*                                                                         *)
(* The server is a counter of the changes committed so far (0: the project *)
(* is not initialized), a summary of it, and the broker's queue for this   *)
(* subscriber.                                                             *)
(***************************************************************************)
EXTENDS EventBudget, Sequences, SequencesExt

CONSTANTS
    MaxVersion,   \* bound on the changes of the server's state
    SummaryOf,    \* what summarize_state tells of each version
    QueueSize,    \* of the subscriber's queue
    MaxFlight     \* bound on the requests under way

Versions == 0 .. MaxVersion

ASSUME WebDashboardAssumption ==
    /\ MaxVersion \in Nat
    /\ DOMAIN SummaryOf = Versions
    /\ QueueSize \in Nat \ {0}
    /\ None \notin Versions
    /\ \A v \in Versions, running \in BOOLEAN : None # <<SummaryOf[v], running>>

VARIABLES
    version,      \* the server's state
    executor,     \* the server's executor: is a Watch running?
    told,         \* the last version that was published
    sse,          \* the EventSource: "open" or "closed"
    wire,         \* events on their way
    shown,        \* state: the version, or None
    badge,        \* executor, as shown
    notice,       \* is there a snapshotError?
    busy,         \* what the spinners are about
    lastSummary,  \* lastEventSummaryRef
    flight,       \* requests under way, in the order they were sent
    newest        \* the latest version a completed request could have shown

server == <<version, executor, told>>
stream == <<sse, wire>>
view == <<shown, badge, notice, newest>>
dashVars == <<server, stream, view, busy, lastSummary, flight, left>>

Shown == Versions \union {None}
BusyKeys == {"none", "refresh", "proposal", "initialize", "chat"}
Kinds == {"snapshot", "proposal", "initialize", "panel", "reset", "wipe"}
Request(kind, owner) == [kind |-> kind, owner |-> owner, ver |-> None, running |-> FALSE]
Event(type, ver, executed) == [type |-> type, ver |-> ver, executed |-> executed, running |-> executor]

DashTypeOK ==
    /\ version \in Versions /\ told \in Versions /\ shown \in Shown /\ newest \in Shown
    /\ executor \in BOOLEAN /\ badge \in BOOLEAN \union {None}
    /\ sse \in {"open", "closed"} /\ Len(wire) <= QueueSize + 2
    /\ notice \in BOOLEAN /\ busy \in BusyKeys
    /\ Len(flight) <= MaxFlight
    /\ \A i \in DOMAIN flight : /\ flight[i].kind \in Kinds
                                /\ flight[i].ver \in Shown

\* The first snapshot is requested as soon as the Dashboard is mounted.
DashInit ==
    /\ version = 0 /\ told = 0 /\ executor \in BOOLEAN
    /\ sse = "closed" /\ wire = <<>>
    /\ shown = None /\ newest = None /\ badge = None /\ notice = FALSE
    /\ busy = "refresh"
    /\ lastSummary = None
    /\ flight = <<Request("snapshot", "none")>>

----------------------------------------------------------------------------
(* The server's side of the event stream. *)

\* What the stream sends without the queue.
Unqueued(e) == e.type \in {"hello", "connect", "executor"}

\* MUTANT: the queue is full one event too late.
OfferOneMore(e) ==
    /\ sse = "open"
    /\ IF Len(wire) < QueueSize + 3 THEN wire' = Append(wire, e) ELSE UNCHANGED wire
\* A full queue loses its oldest event (_offer_event).
Offer(e) ==
    LET oldest == Cardinality({k \in DOMAIN wire : Unqueued(wire[k])}) + 1 IN
    wire' = IF sse = "closed" THEN wire
            ELSE IF Len(wire) < QueueSize + oldest - 1 THEN Append(wire, e)
            ELSE Append(RemoveAt(wire, oldest), e)

\* Another process changes the workspace: nothing is published.
ChangeElsewhere ==
    /\ Left("changes") /\ version < MaxVersion
    /\ version' = version + 1
    /\ Spend("changes")
    /\ UNCHANGED <<executor, told, stream, view, busy, lastSummary, flight>>

\* A tick of the embedded Watch, which executes something or is idle.
WatchTick(executed) ==
    /\ executor
    /\ executed => Left("changes") /\ version < MaxVersion
    /\ version' = IF executed THEN version + 1 ELSE version
    /\ told' = version'
    /\ Offer(Event("watch_step", version', executed))
    /\ IF executed THEN Spend("changes") ELSE UNCHANGED left
    /\ UNCHANGED <<executor, sse, view, busy, lastSummary, flight>>

\* A tick that raises.
WatchFails ==
    /\ Left("errors")
    /\ Offer(Event("error", told, FALSE))
    /\ Spend("errors")
    /\ UNCHANGED <<server, sse, view, busy, lastSummary, flight>>

\* The embedded Watch takes the lease or gives it up; no event says so.
ExecutorTurns ==
    /\ Left("turns")
    /\ executor' = ~executor
    /\ Spend("turns")
    /\ UNCHANGED <<version, told, stream, view, busy, lastSummary, flight>>

\* The queue has been empty for EXECUTOR_EVENT_INTERVAL_S, which a Watch that ticks prevents.
Heartbeat ==
    /\ sse = "open" /\ wire = <<>>
    /\ wire' = <<Event("executor", told, FALSE)>>
    /\ UNCHANGED <<server, sse, view, busy, lastSummary, flight, left>>

\* hello and a summary of the current state come first, then the backlog (one event of it).
Connect ==
    /\ sse = "closed" /\ Left("connects")
    /\ Spend("connects")
    /\ sse' = "open"
    /\ wire' = <<Event("hello", version, FALSE), Event("connect", version, FALSE)>>
                 \o (IF told = 0 THEN <<>> ELSE <<Event("watch_step", told, FALSE)>>)
    /\ UNCHANGED <<server, view, busy, lastSummary, flight>>

\* source.onerror; the EventSource connects again by itself.
Disconnect ==
    /\ sse = "open" /\ Left("drops")
    /\ sse' = "closed"
    /\ wire' = <<>>
    /\ Spend("drops")
    /\ UNCHANGED <<server, view, busy, lastSummary, flight>>

----------------------------------------------------------------------------
(* The Dashboard. *)

\* setBusy((current) => current ?? "refresh") and the two fetches, which are one read here.
LoadSnapshot(owner) ==
    /\ Len(flight) < MaxFlight
    /\ flight' = Append(flight, Request("snapshot", owner))
    /\ busy' = IF busy = "none" THEN "refresh" ELSE busy

\* The refresh button of the StatusBar is loading during a snapshot.
RefreshEnabled == busy # "refresh"

HandleRefresh ==
    /\ Left("refreshes") /\ RefreshEnabled
    /\ LoadSnapshot("none")
    /\ Spend("refreshes")
    /\ UNCHANGED <<server, stream, view, lastSummary>>

Telling == {"connect", "state", "watch_step"}
Summarized(e) == <<SummaryOf[e.ver], e.running>>

\* MUTANT: every idle tick after the first is taken for an old one.
IdleWatchTickUnread(e) == e.type = "watch_step" /\ ~e.executed /\ lastSummary # None
\* An idle tick whose summary is the last one seen does not fetch the state again.
IdleWatchTick(e) ==
    e.type = "watch_step" /\ ~e.executed /\ Summarized(e) = lastSummary

\* MUTANT: only the first event of a connection is looked at.
ExecutorFromHello(e) == IF e.type = "hello" THEN e.running ELSE badge
\* executorFromEventPayload: only hello and executor carry the projection.
ExecutorFrom(e) == IF e.type \in {"hello", "executor"} THEN e.running ELSE badge
\* The badge of the status bar.
DescribeExecutor == CASE badge = None -> "unknown" [] badge = TRUE -> "running" [] OTHER -> "not running"

Listener ==
    /\ wire # <<>>
    /\ LET e == Head(wire) IN
        /\ badge' = ExecutorFrom(e)
        /\ lastSummary' = IF e.type \in Telling THEN Summarized(e) ELSE lastSummary
        /\ IF e.type = "error" \/ (e.type \in Telling /\ ~IdleWatchTick(e))
           THEN LoadSnapshot("none")
           ELSE UNCHANGED <<flight, busy>>
    /\ wire' = Tail(wire)
    /\ UNCHANGED <<server, sse, shown, notice, newest, left>>

\* The buttons of ProposalPanel and of the reviews are loading while busy is "proposal".
SubmitEnabled == busy # "proposal"

\* handleTask, handleAction, handleApproveAction and handleRejectAction.
Submit ==
    /\ Left("proposals") /\ SubmitEnabled /\ Len(flight) < MaxFlight
    /\ flight' = Append(flight, Request("proposal", "none"))
    /\ busy' = "proposal"
    /\ Spend("proposals")
    /\ UNCHANGED <<server, stream, view, lastSummary>>

\* WorkspaceNotice: which of its four faces is shown.
WorkspaceNotice ==
    IF notice THEN "error"
    ELSE IF shown = None THEN (IF busy = "refresh" THEN "loading" ELSE "none")
    ELSE IF shown = 0 THEN "initialize" ELSE "none"

HandleInitialize ==
    /\ Left("initializes") /\ WorkspaceNotice = "initialize" /\ busy # "initialize"
    /\ Len(flight) < MaxFlight
    /\ flight' = Append(flight, Request("initialize", "none"))
    /\ busy' = "initialize"
    /\ Spend("initializes")
    /\ UNCHANGED <<server, stream, view, lastSummary>>

\* An upload, a hardware integration or a workspace reset: the panel keeps its own spinner.
PanelRequest ==
    /\ Left("panels") /\ Len(flight) < MaxFlight
    /\ flight' = Append(flight, Request("panel", "none"))
    /\ Spend("panels")
    /\ UNCHANGED <<server, stream, view, busy, lastSummary>>

\* The server reads, or commits, publishes and reads back (_publish_state).
Serve(i) ==
    /\ flight[i].ver = None
    /\ IF flight[i].kind = "snapshot"
       THEN UNCHANGED <<version, told, wire>>
       ELSE /\ version' = IF version < MaxVersion THEN version + 1 ELSE version
            /\ told' = version'
            /\ Offer(Event("state", version', FALSE))
    /\ flight' = [flight EXCEPT ![i].ver = version', ![i].running = executor]
    /\ UNCHANGED <<executor, sse, view, busy, lastSummary, left>>

LaterOf(a, b) == IF a = None \/ (b # None /\ b > a) THEN b ELSE a

\* MUTANT: a snapshot clears its own spinner only, also one that ends an initialization.
FinallyOfSnapshots(r) ==
    busy' = IF r.kind \in {"panel", "wipe", "snapshot"} /\ busy # "refresh" THEN busy ELSE "none"
\* What the finally of each handler does to the one busy slot.
Finally(r) ==
    busy' = IF \/ r.kind \in {"panel", "wipe"}
               \/ r.kind = "snapshot" /\ r.owner = "none" /\ busy # "refresh"
            THEN busy ELSE "none"

\* A snapshot sets everything; an answer to initialize is followed by a snapshot, and
\* only then by its finally; the others set the state.
Answer(i) ==
    LET r == flight[i] IN
    /\ r.ver # None /\ r.kind \notin {"reset", "wipe"}
    /\ shown' = r.ver
    /\ newest' = LaterOf(newest, r.ver)
    /\ badge' = IF r.kind \in {"snapshot", "initialize"} THEN r.running ELSE badge
    /\ notice' = IF r.kind = "snapshot" THEN FALSE ELSE notice
    /\ IF r.kind = "initialize"
       THEN /\ flight' = [flight EXCEPT ![i] = Request("snapshot", "initialize")]
            /\ busy' = IF busy = "none" THEN "refresh" ELSE busy
       ELSE /\ flight' = RemoveAt(flight, i)
            /\ Finally(r)
    /\ UNCHANGED <<server, stream, lastSummary, left>>

\* The request fails, before or after the server has served it.
Fail(i) ==
    LET r == flight[i] IN
    /\ Left("failures")
    /\ notice' = (notice \/ r.kind = "snapshot")
    /\ newest' = LaterOf(newest, IF r.ver = None THEN version ELSE r.ver)
    /\ flight' = RemoveAt(flight, i)
    /\ Finally(r)
    /\ Spend("failures")
    /\ UNCHANGED <<server, stream, shown, badge, lastSummary>>

ServerSteps ==
    \/ ChangeElsewhere
    \/ \E executed \in BOOLEAN : WatchTick(executed)
    \/ WatchFails \/ ExecutorTurns \/ Heartbeat
    \/ Connect \/ Disconnect

ClientSteps ==
    \/ HandleRefresh \/ Listener \/ Submit \/ HandleInitialize \/ PanelRequest
    \/ \E i \in DOMAIN flight : Serve(i) \/ Answer(i) \/ Fail(i)

DashNext == ServerSteps \/ ClientSteps

\* The server's loop ticks, its stream beats when it is idle, the browser connects and runs its
\* callbacks, and every request is served and comes back.
DashFairness ==
    /\ WF_dashVars(WatchTick(FALSE)) /\ WF_dashVars(Heartbeat) /\ WF_dashVars(Connect)
    /\ WF_dashVars(Listener)
    /\ WF_dashVars(\E i \in DOMAIN flight : Serve(i))
    /\ WF_dashVars(\E i \in DOMAIN flight : Answer(i))

DashSpec == DashInit /\ [][DashNext]_dashVars /\ DashFairness

----------------------------------------------------------------------------
(* Properties. *)

Quiet == flight = <<>> /\ wire = <<>> /\ sse = "open" /\ told = version
\* A request that knew better has completed: it was overtaken by an older one, or it failed.
Overtaken == shown = None \/ shown < newest

\* The summary is one that an earlier version had than the one shown: the Dashboard compares it
\* with the last it was told, not with what it shows.
CameBack == \E v \in 0 .. shown - 1 : SummaryOf[v] = SummaryOf[version]

\* Once nothing is under way, the view agrees with the server's state as far as a summary
\* tells, also when a full queue has dropped events: a change is missed only when a newer
\* answer was overtaken or failed, or the state returned to what an earlier event had told.
SettledViewIsCurrent ==
    Quiet /\ ~Overtaken /\ ~CameBack => SummaryOf[shown] = SummaryOf[version]

\* The one busy slot, which every handler overwrites and clears, never outlives its cause.
BusyHasACause ==
    busy \in {"refresh", "proposal", "initialize"} =>
        \E i \in DOMAIN flight :
            \/ flight[i].kind = (IF busy = "refresh" THEN "snapshot" ELSE busy)
            \/ busy = "initialize" /\ flight[i].owner = "initialize"

\* A Watch that has stopped is not shown as running for good, whatever answers overtake each
\* other: once it no longer ticks, the beats of the event stream put right what a late
\* snapshot has set.
BadgeSettles == <>[](sse = "open" /\ ~executor) => <>[](DescribeExecutor = "not running")
=============================================================================
