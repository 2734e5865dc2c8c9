# A TLA+ model of Physical Agent

Physical Agent lets a language model propose actions for physical robots. The model
never touches a robot: it appends *pending actions* to a board in SQLite, a human may
have to approve them, and a **Watch** process claims them one by one, checks each
against `SAFETY.md` and calls the driver. What makes the system correct is the life of
an action and of the one lease that entitles a Watch to the hardware, in the presence
of several processes, slow drivers, edits, crashes and restarts. That is modelled,
model-checked and proved here. What people see of it, and decide on, goes through two
clients, one in the browser and one in the terminal: they are modelled and model-checked
as well, against the API as they hear it, and every safety property that is checked of them
is proved.

All paths are relative to the repository; `runtime.py`, `sqlite.py`, `server.py` and
`watch_service.py` are under `src/physical_agent/{watch,state,api,api}/`. In the sections
on the web client, paths are under `src/frontend/src/`, in those on the terminal client
under `src/tui/src/`.

## 1. Inventory

### The parts and how they interact

```
 client (web, TUI, MCP) --HTTP--> API process --------------------+
      propose / approve / reject / chat / status                  |
                                  | embedded Watch (asyncio task) |
 human --edits--> SAFETY.md       v                               v
 shell --`physical-agent watch`-> WatchRuntime <--transactions--> SQLite store
                                  |                     board, lease, history, log
                                  v
                                drivers --> transports --> robots
```

Nothing is shared but the store, `SAFETY.md`, the config file and the devices. Every
method of the store that writes is one `BEGIN IMMEDIATE` transaction; `read_actions`, from
which the Watch decides what is impossible and what is a replay, is one `SELECT` per status
outside a transaction (`sqlite.py:307-338`). Between two transactions, between two of these
`SELECT`s, or at any `await`, everything else may happen.

| Component | State | Operations | What is hard, and what makes it correct |
|---|---|---|---|
| Action board (`sqlite.py`) | rows of `actions` with status, claim owner and age, approval metadata; feedback history | append, approve, reject, claim, recover stale claims, cancel a batch, complete, cancel | claims of dead sessions, late results, decisions that race a claim: one claim per robot, outcomes are final, decisions stand |
| Watch lease (`sqlite.py`) | one row: owner, `expires_at` | acquire, renew, read, release | taken over while its holder is in a driver call; the time to live must cover the calls made under it |
| Watch runtime (`runtime.py`) | loaded drivers, profiles, position in a step, policy baseline | setup, step, heartbeat, policy check, execute, halt, shutdown | crash between the record, the call and the result; policy drift; impossible dependencies: at most one execution per action, only after its dependencies, every action settles |
| API watch service (`watch_service.py`) | background task, phase, last error | start, stop, preflight, tick | stand-by, lost races, cancellation in the middle of a shutdown: one executor, honest status, waiting and shutdowns end |
| Event broker (`watch_service.py`) | replay buffer, bounded subscriber queues | publish, subscribe, offer | drop-oldest queues, ordering of concurrent publishers |
| Safety policy, safety gate (`safety_policy.py`, `safety.py`) | digest, rules | parse, evaluate | fail closed; approval and replay rules |
| Proposals, plan compiler (`application/`) | - | renumber, validate, compile a DAG | identifiers chosen outside the transaction that appends them |
| HTTP API, chat streams (`server.py`) | registered streams with a cancel event | register, abort, finish | exactly one terminal event, whatever is aborted when |
| Chat runtime, tool loop, code runtime (`agent/`) | conversation, tool budget | route, call tools, run code | bounds of the loops, cancellation |
| LLM client (`llm/`) | connection | request, retry, stream | retry after a partial stream |
| Transports (`drivers/transport/`) | connection, reconnecting thread | open, close, read, write, reconnect | a thread that outlives `close()` |
| Workspace reset, sidecars, check, audit (`state/`) | mirrors | reset, export, check | a reset must not erase a live owner; it forgets executed ids |
| Web client (`src/frontend/`) | a copy of the server's state, one busy slot, the turn that streams, pages and panels, the draft being edited | follow events, refresh, submit, initialize, reset, chat, stop, navigate, register, approve, reject | answers overtake each other and are of another page, turn or form; a stream that breaks after the server heard it: the view settles on the server's state, nothing is sent twice that was seen, what was reviewed is what is sent |
| Terminal client (`src/tui/`) | a copy of the state, a transcript that only grows, a tracker of active actions, the view chosen | poll, listen, run commands, announce outcomes, merge the chat | snapshots missed, repeated or late, identifiers that come back after a reset: each outcome once, each message once |
| Readers of streams and replies (both clients) | buffer, growing text | cut into frames, into blocks | chunks that end anywhere: every frame whole, once, in order; blocks that stand |
| Expectations, protocol, ingestion, output projection | - | pure functions, text, presentation | - |

The complete list with sources and status is in `PROJECT.json` (`components`), the
hazards, each at its line, under `hazards`.

### What the documents promise

`docs/REFACTORING.zh-CN.md` (items 43-55) makes the lease the only truth about who
executes (48), demands that impossible dependencies terminate (49), that claims are
fenced by their owner (52), that a stale owner does not halt robots (53) and that a
reset does not erase an active owner (54); it notes that the lease does not fence the
device itself (55), and `docs/PLAYBOOK.zh-CN.md:172-178` that a call in flight cannot
be revoked. `docs/specs/003-safety-policy-channel-hardening/spec.md:78-84` tells what a
change of `SAFETY.md` does to a plan under way.

## 2. Plan

Order of importance; each line is a module with its runs and theorems.

1. **`WatchBoard`** (done): board, lease as a fence, sessions, policy. Abstract
   specification **`ActionPromise`**. Runs `core`, `awake`, `progress`, `drift`,
   `decision`. Theorems: typing, at most one execution, final outcomes, one claim per
   robot, dependencies first, sole use of the hardware, and the refinement.
2. **`LeaseTime`** (done): the same sessions against the clock. It justifies the
   environment that the other two modules assume. Runs `lease`, `halts`. Theorems: no
   call outlives its lease; a session keeps its lease.
3. **`WatchService`** (done): the processes that host a runtime, their cancellation and
   status. Runs `service`, `cleanup`, `takeover`. Theorems: typing, one executor, mode, phase.
4. **`WebDashboard`**, **`WebChat`**, **`WebPanels`**, **`WebProposals`** (done): the web
   client, with the part of the API that answers it (event queue, chat streams).
   Theorems: every safety property of these modules.
5. **`TerminalClient`**, **`TerminalViews`** (done): the terminal client. Theorems:
   `AnnouncedOnce`, `ActiveIsFollowed`, `TranscriptIsTheChat`, `ViewsAgree`.
6. **`EventStream`**, **`ReplyBlocks`** (done): what both clients do with the bytes of a
   stream and the text of a reply. Runs `clients` (items 4 to 6) and `remote_reset`.
   Theorems: `FramesAreWhole`, `NothingIsLost`, `BlocksStand`.
7. **More proofs** (done): every invariant and action property of a passing run has its
   theorem, but for the union of the types in `clients` (section 5).
8. **Proposals**: renumbering as read-then-append of several submitters, the compiled
   graph, the reset of the workspace; refines the `Submit` of `WatchBoard`.
9. **Transports and watchdog**: open/close against the reconnecting thread (one opener,
   no reopening after a close); failure counters, halted-once flag and recovery, which
   `LeaseTime` has as a free choice.
10. **Pure algorithms**: `Expectations`, the verdict of the safety gate, the plan
    compiler against reference definitions over small inputs.

## 3. The modules and the code

### WatchBoard

One process of the model is one **session** of a `WatchRuntime`: `setup` draws a fresh
owner id, so a restart is another session, and a fixed set of sessions bounds the
restarts. `status`, `owner`, `aged`, `approval` are the columns of the board that the
Watch reads; `history` is the set of action ids in the feedback history (the replay
check reads no more of it); `lease`, `live` the lease row and whether it has expired;
`policy` the version of `SAFETY.md`, given by what it decides: which actions need a
human, which hardware actions lack guidance, whether an id may be replayed.

A step of `_step_once` is cut wherever other processes can get in: at every store
transaction and every driver call. `pc` names the point:

| pc | code in `runtime.py` | actions |
|---|---|---|
| `new`, `connect`, `idle` | 85-166, 203-211 | `Setup`, `RequireLease`, `BeginStep`, `StopRequested` |
| `recover`, `scan`, `claims`, `completions`, `cancellations`, `baseline`, `reap`, `unhook` | 246-258, 545-614 | `RecoverStale`, `ReadPending`, `ReadFound`, `ReadCancelled`, `ReadBaseline`, `RecordImpossible`, `CancelImpossible`, `EndReap` |
| `loop`, `claim` | 259-274 | `RequireLease`, `Claim`, `EndLoop` |
| `policy`, `drift`, `batch` | 275-322 | `CheckPolicy`, `CancelBatch` |
| `gate`, `executed`, `events`, `admit`, `record` | 323-356 | `Gate`, `GateCancelled`, `GateHistory`, `RecordDecision` |
| `arm`, `fire`, `run` | 357-366 | `RequireLease`, `StartExecute`, `FinishExecute` |
| `halt`, `stopping` | 895-909 | `HaltAfterTimeout` |
| `settle`, `mark` | 965-984 | `Finalize` |
| `sweep` | 443-447 | `ReadPending`, for a second look at what is impossible |
| `closing`, `closehalt`, `release` | 168-201 | `BeginShutdown`, `HaltDrivers`, `ReleaseLease` |

`RequireLease` is every `_require_watch_lease`; a session that has lost the lease ends
(`Leave`). `StepFails` is the exception that the API service survives
(`watch_service.py:207-218`): the claim stays behind and the session starts over.
`Crash` (not in the code) stops a session anywhere. The other actors are the proposer
(`Submit`), the human (`Approve`, `Reject`, `EditPolicy`) and time (`LeaseExpires`,
`ClaimAges`).

**Environment.** With `MaySuspend = TRUE` the lease of a live session may run out at any
point, as when the machine sleeps: `AtMostOnce`, `DependenciesFirst` and `OutcomeIsFinal`
are checked and proved even then. With `MaySuspend = FALSE` only the leases of the dead and of
those that have begun to disconnect run out; `LeaseTime` shows from the code's timeouts when
that is so. `SoleHardwareUser`, `RunsOnStandingClaim` and `KeepsPromise` need it: the code
itself says that a call in flight cannot be revoked.

**One hole.** The cancellation of an impossible action (`runtime.py:608`) is not fenced,
and the lists it rests on are read one after the other. A session that stalls between its
`SELECT`s can miss an action that another session puts back from *in progress* to *pending*
meanwhile; what depends on that action then counts as impossible, and the late update turns
it into *cancelled*, although it may be *completed* by now. `OutcomeIsFinal` therefore allows
this one step, from *completed* to *cancelled* by a session that has lost the lease, and no
other; and `DependenciesFirst` says that a dependency ran and is *completed*, or is
`Overwritten` in this way. Without stalls the hole is closed: only the holder of the
lease recovers claims, so that nothing is missed (`ImpossibleStays`).

### ActionPromise

What the proposer may rely on: an action is opened with its proposal, called at most
once and after all it depends on, completed only if called, cancelled otherwise, and
never changes afterwards. `WatchBoard` implements it (`KeepsPromise`) under the mapping
*pending or in progress* = `open` and `calls` = `ran`; claims, leases, recoveries and
sessions stutter. It does so as long as no runtime stalls beyond its lease.

### LeaseTime

The same session with durations: `left` is what remains of the lease, `due` the longest
a session may still spend where it is, and `Tick` lets a unit of time pass for both. A
driver call takes up to its timeout and `Lag` for the session's own work. `Ttl` is
`_watch_lease_seconds` with its floor of 60 s and its slack of 15 s as constants, and it
counts only the profiles published so far (`longest`), as the code does. Heartbeats,
watchdog halts, execution, timeout halts, observation, the idle pause and the halts and
disconnects of a shutdown are separate calls.

### WatchService

One process is an API process with the embedded Watch (a *service*) or a
`physical-agent watch` (a *shell*); the constants say how many there are. `main` is the
position of the main task, `down` the up to two calls of `shutdown()` that may be
running at the same time: the one shielded inside `setup` (`runtime.py:113-120`) and the
one in the `finally` of the caller (`watch_service.py:234-242`, `runtime.py:210-211`).
They share `runtime`, exactly as the two coroutines share the object: the first that
finishes clears `loaded_drivers` under the other, whose loop then raises
(`CallReturnsToNone`). `phase` and `failed` are what `/api` shows; `Mode` is
`executor_status`. `Stop...` is `ApiWatchService.stop()` or Ctrl-C at each place where
the main task can be cancelled, `Kill` the death of the process.

The lease of a runtime that still drives, or has not begun to disconnect, does not run
out (`Keeps`): that is `LeaseOutlastsRuntime` of `LeaseTime`. It is an assumption here, and
so are its conditions: the pause between steps and the halts fit in the lease.

### The clients: what they share

The modules of the clients take what the user, the network and the server's other
processes still do from one record of budgets, `left` (`EventBudget`). A request is an
element of a sequence (`flight`, `calls`, `requests`, `reads`, `looks`): it is sent, *served*
with what the server then has, and *answered*; requests are served and answered in any
order, or fail. A handler is cut at each `await`; between two of them everything else may
happen. What React does between is not seen, except where a component is mounted or
unmounted, or an effect runs for one render and not for the next.

### WebDashboard

`App.tsx` and the event stream of the API. The server is a counter of committed
changes (`version`) with a summary of each (`SummaryOf`, the `summarize_state` that a
`watch_step` event carries). `wire` is the subscriber's queue, of `QueueSize` events, from
which the oldest is dropped (`Offer`, `watch_service.py:51`). `Listener` is the handler of an
event: `hello` and `executor` set the badge, and a `connect`, `state` or `watch_step` that
tells of something new fetches a snapshot (`IdleWatchTick` is the test that spares idle
ticks). `busy` is the one slot behind all spinners; every handler writes it and every
`finally` clears it, whoever set it. `newest` is history.

### WebChat

The chat turn of `App.tsx`, `api.ts` and `streamingFrameBatcher.ts`, on top of
`WebDashboard`, with the chat streams of `server.py:219-250, 463-517`. A turn goes *off*,
*streaming*, *fallback*, *over*; the server's stream is *none*, *refused*, *running*,
*answered*, *ended*. Tokens
become *dirty* text that an animation frame paints (`AnimationFrame`); a frame belongs to a
generation, and one that was cancelled is dropped (`DropFrame`). Two turns may overlap,
since the guard of the first is the busy slot that any other handler clears; `ref` is the
shared reference to the current stream. `StreamFails` and `OnRefusal` lead to the fallback, the
`POST /api/chat`; `HandleStopChat` with `Stopped` is the Stop button, and `stopped` remembers
that it was used while the stream was awaited. A refusal (`Refuse`) has a body that is
read for its message, and an abort of that read is swallowed (`api.ts:150-155`).

### WebPanels and WebProposals

`WebPanels` is the router of pages (`showPage`, `popstate`, bad addresses) and the panels
that ask the server by themselves: LLM settings, check, audit, export, hardware integration
and registration, memory search, upload. A page that is left unmounts its panels, so each
call carries the `mount` it is of. Each button is guarded by its own spinner only; `doubt`
records where answers may be exchanged. What the user typed is a serial number, so that what
is sent can be told from what was typed before or after.

`WebProposals` is the way of a draft: card in the chat, form, board, review. The form's
fields and the metadata of the draft (`prefill`) are separate states of two components, of
which one is mounted only while it is shown; the media query and a pending approval move and
unmount it. `ReviewEnabled` is the guard of the Approve and Reject buttons. Reject asks first:
its button opens a popup (`Popup`), and the popup's own button (`ConfirmReject`) has no guard,
so that a popup opened earlier can be confirmed while a review is under way. `crossed` are the
mountings of the board where that has happened.

### TerminalClient and TerminalViews

`TerminalClient` is `App.tsx`, `activity.ts` and the merge of the transcript: the state on
`screen` is replaced by what events, polling (`mode`) or commands bring, and the two effects
that add to the transcript are an action each. `diary` holds the tracker, what was announced,
the messages seen, and what was said here and not yet met in the server's list (`pending`).
An identifier can be used again after a reset (`gen`); `since` is the workspace that the tracker
was started for. `missed` records what the properties exempt: a reply that a refresh brought
before its `done`, a state from before the reset that the tracker was started by (`older`), an
outcome from after a reset that was announced before its answer (`ahead`), a refresh that failed
while the stream is there, a turn the server never stored.

`TerminalViews` is the view that a command chooses and the three requests that fill it;
commands overlap because the command line takes the next at any time. `RegisterReads` and
`RegisterWrites` are the two halves of a registration in the API, which takes no lock.

### EventStream and ReplyBlocks

`EventStream` cuts a body into frames as `sendChatStream` (web) and `readSseStream`
(terminal) do, for every way in which a body can be cut into chunks, with both line ends,
and with bodies that end or break off in the middle of a frame. `ReplyBlocks` has the two
splitters of text: `splitMarkdownBlocks` for a text that grows, symbol by symbol, and
`parseFinalizedBlocks` for a final one, as functions from sequences to sequences of blocks.
All splitters are recursive functions, one step per line or symbol, so that they can be
reasoned about. `ReaderStops` is the abort that the terminal client notices between two
reads, after which it parses what it has as though the body had ended there.

## 4. The runs

| Run | Instance | Shows |
|---|---|---|
| `core` | 2 actions (the second depends on the first and needs approval), 2 sessions, 2 policies, 1 edit, 1 storage error, sessions may stall, also between two `SELECT`s | `TypeOK`; `AtMostOnce`; `DependenciesFirst`; `OutcomeIsFinal` |
| `awake` | 3 actions on 2 robots, one of which can become unhealthy, 2 sessions, 2 edits, 1 storage error | `OneClaimPerRobot`; `SoleHardwareUser`; `RunsOnStandingClaim`; `KeepsPromise` |
| `progress` | as `core`, one policy allowing replay, sessions do not stall | `EveryActionSettles`; `ClaimsAreReturned` |
| `lease` | 3 sessions, 3 robots, one capability slower than all else | `TypeOK`; `CallsUnderLease`; `LeaseOutlastsRuntime` |
| `service` | 1 API process, 1 shell, 2 robots | `TypeOK`; `OneExecutor`; `ModeTellsTruth`; `PhaseTellsTruth`; `WaitingEnds`; `ShutdownEnds` |
| `clients` | one module of the clients per behaviour, each with every budget listed for it in `MCClients` | the twenty properties below and `ClientsTypeOK` |
| `drift`, `decision`, `halts`, `cleanup`, `takeover`, `remote_reset` | small | what a comment or a document says and the code does not do (section 6) |

What `clients` checks of each module:

| Module | Properties |
|---|---|
| `WebDashboard` | `SettledViewIsCurrent`: when all is quiet the view agrees with the server, also when the queue has dropped events, but for the cases it names; `BusyHasACause`: no spinner outlives its request; `BadgeSettles` (liveness): a Watch that stopped is not shown as running for good |
| `WebChat` | `LastTokensPainted`; `OneEndPerTurn`; `SentTwiceOnlyUnseen`; `StreamsAreReleased` (liveness) |
| `WebPanels` | `HistoryIsHonest`: the address, the page and Back agree; `PanelsShowTheLatest`; `RegisteredAsShown`: what is registered is what was shown |
| `WebProposals` | `MetadataIsItsDrafts`: the source a reviewer sees is that of the action; `ReviewedOnce` |
| `TerminalClient` | `AnnouncedOnce`; `ActiveIsFollowed`; `FollowedIsAnnounced` (liveness); `TranscriptIsTheChat` |
| `TerminalViews` | `ViewsAgree`: what is shown is of what was asked for last, and is the server's |
| `EventStream` | `FramesAreWhole` |
| `ReplyBlocks` | `BlocksStand` (a step never changes a block that was complete); `NothingIsLost` |

Several of them name exemptions (`~Overtaken`, `~CameBack`, `missed`, `slipped`, `doubt`, `crossed`). They are
what the code really does in these cases (section 6 lists them); the property says that
nothing else goes wrong.

Every property is shown to be about the code: for each there is a variant of one action
(marked `MUTANT`, beside the definition it alters) that a plausible slip would produce
and under which TLC finds the property violated.

**Bounds.** `NumActions`, `Watches`, `MaxEdits` and `MaxFaults` bound `WatchBoard`. Two
sessions are a lease that changes hands once, a claim left behind and one recovered
claim; a late result needs no third. Three actions on two robots are a dependency and a
competitor for the first robot. Two edits change the policy and change it back between
a baseline and a check. `core` has two actions because a stalled session multiplies the
states (6.2 million); the theorem about `AtMostOnce` covers all sizes. Sessions are
interchangeable, so they are a symmetry set in the runs without liveness. In `lease` the numbers are
small but keep the code's relations: the slow capability exceeds all other timeouts, and
the shutdown's halts just fit. In `service`, `NumRobots = 2` is the least with a loop
over drivers that another shutdown can interrupt between two calls; one service and one
shell suffice for a lost race, since a second service differs from the first only in
what it shows. No run needs a state constraint.

In `clients` the modules are alternatives (`client`), not a product: they share the server
and nothing else, and a client's view of the server contains whatever another client may do
to it. A behaviour has one of the budgets of `MCClients`, chosen so that each property meets
what endangers it: three changes with a summary that comes back, and a queue of one event;
two overlapping chat turns with two tokens; two drafts and two reviews; one action
identifier used twice, and two chat turns with the same text, which is what the recognition
by text can confuse; two robots registered at once with at most four requests under way; four
more symbols after each of three beginnings and four lines of thirteen kinds, enough for a
fence, a list of three levels or a table with its ruler and what ends them; at most two frames (`MaxFrames`)
of three shapes, which is one whole frame before the one that a chunk or the body ends in.
620,000 states.

`CHECK_DEADLOCK FALSE` everywhere: a finite number of sessions that have all gone, or
processes that nobody starts again, may really stop.

**Fairness.** `progress`: a live session goes on (`run_forever` loops, every driver call
has a timeout), a session that can be set up is set up, leases run out and claims age
(wall clock). Nothing is owed by humans, proposers, crashes or storage errors;
`EveryActionSettles` therefore excuses states where the Watch waits for a human, a valid
policy or a session. `service`: the tasks of a live process run and leases run out;
`Preflight` has strong fairness, since storage errors (`PreflightFails`) may interrupt it
but not each time. Nobody has to start or stop a process or to initialize the project.
`clients`: the server ticks, beats and answers, what is on the wire arrives, streams end, the
browser connects again, effects, animation frames and timers run. Nothing is owed by the
user or by other clients, and any request that the budget lets fail may fail.

**What the properties leave open.** `WaitingEnds` says that a service does not wait for
ever in a project that is ready and free; it does not say that it becomes active, since
drivers may fail (`StandbyTakesOver` and section 6). `ShutdownEnds` does not say that
the robots were halted: a second cancellation, or a storage error during the renewal
(`BeginFails`), really skips the halts.

## 5. What is proved

`tlapm` checks the proof modules to the last leaf, for every number of actions,
sessions, robots, processes and policies, and of turns, tokens, drafts, pages, requests
and versions, from the assumptions named in each module. Each strengthening was an
invariant of a TLC run before it was proved.

**The board** (`WatchBoardProofs`)

| Theorem | Says | Argument |
|---|---|---|
| `TypesAreKept`, `Typing` | `TypeOK` | `TypeInv` adds what the locals of a session are worth at each `pc`; without it a step cannot be shown to read an action of the right kind |
| `AtMostOnceHolds`, `CallsAreFirst` | `AtMostOnce` | `Once`: what ran is in the history; whoever is about to call is alone in that for its action; and a session that passed the gate *and still owns the lease* has an action that has not run and that nobody is about to run. Two sessions may both have passed the gate for one action; a lost lease is not regained, so one of them is stopped by the next `_require_watch_lease` |
| `OutcomeIsFinalHolds` | `OutcomeIsFinal` | The cancellation of impossible actions is not fenced and may come arbitrarily late. `Held`: what a session has read as pending is not completed by anyone, nor about to be, as long as the session has the lease, since nobody else passes the lease checks between a claim and its terminal update. So only a session that has lost the lease can overwrite an outcome |
| `ImpossibleStays` | - | Unless a runtime stalls, `Fates`: between the `SELECT`s, an id that was in no list so far is in one that is still to be read; so what is taken for impossible at the end belongs to a set of actions each of which is cancelled, or pending behind a cancelled one or another of the set (`Doomed`). No step leaves such a set, since a claim needs completed dependencies |
| `OneClaimPerRobotHolds` | `OneClaimPerRobot` | only `Claim` raises a claim, and it looks at all robots in the same transaction |
| `CallsAreInOrder`, `DependenciesFirstHolds` | `DependenciesFirst` | `Runs`: whatever is claimed, past the gate, or settled has its dependencies completed, or completed and then `Overwritten`, and what is completed ran; an overwritten action has no owner and gets none (`NoOwnerReturns`), and without stalls there is none |
| `CalmHolds` | - | without stalls, who is alive has the lease, so a claim that a live session acts on is still its own and approved where its baseline asks |
| `SoleHardwareUserHolds`, `RunsOnStandingClaimHolds`, `RejectedIsClosedHolds` | `SoleHardwareUser`, `RunsOnStandingClaim` | from `Calm`; a rejected action is terminal, however late a step writes the approval it has read |
| `KeepsPromiseHolds` | `KeepsPromise` | step by step: `Submit`, `StartExecute` and the fenced `Finalize` are `Propose`, `Call` and `Complete`, each other change of a status on the board is a `Cancel` or a stutter. Assumes that no policy allows replay, as the runs do (a replay is a second call, which the promise excludes), and that no runtime stalls (a stalled one can overwrite an outcome) |

**Lease and services** (`LeaseTimeProofs`, `WatchServiceProofs`)

| Theorem | Says | Argument |
|---|---|---|
| `CallsUnderLeaseHolds` | `CallsUnderLease` | `Cover`: in a call the lease lasts longer than the call can, including the observation that follows the last renewal of setup; needs `longest` to cover all published profiles (`TypeInv`) and `2 * Lag <= Slack` |
| `LeaseOutlastsRuntimeHolds` | `LeaseOutlastsRuntime` | `Keep`: the lease covers the present duty *and* all that may come before the next renewal (`Rest`); during a shutdown it covers the halts still to come |
| `LeaseTimeProofs!TypesAreKept`, `Typing` | `TypeOK` of `LeaseTime` | `Local` ties the robot at hand and the deadline to the place |
| `Sessions`, `WatchServiceProofs!TypesAreKept` | the inductive invariant and `TypeOK` of `WatchService` | `Session`: a main task that drives owns the lease; a shutdown is under way only where the main task waits for it or has left; a call never deals with a robot beyond those loaded |
| `OneExecutorHolds` | `OneExecutor` | two drivers would own one lease |
| `ModeTellsTruthHolds` | `ModeTellsTruth` | the lease names the process that drives; a process that lost it does not own it |
| `PhaseTellsTruthHolds` | `PhaseTellsTruth` | a process shows its own phase only (`OthersDoNotShow`), and each of its steps shows what it becomes (`OwnStepsShow`) |

**The web client** (`ListLemmas`, `WebPagesProofs`, `WebChatProofs`)

Each behaviour of `clients` is of one module, so the theorems are about that module as a
specification of its own: `ChatSpec` (the Dashboard with its chat turns), `PanelSpec`,
`ProposalSpec`. `ListLemmas` has what removing an entry leaves of a list of requests.

| Theorem | Says | Argument |
|---|---|---|
| `ReviewedOnceHolds` | `ReviewedOnce` | `BoardWaits`: a board that has not forgotten its request is busy as long as that is under way, unless a Reject was confirmed across another review there (`crossed`) |
| `MetadataIsItsDraftsHolds` | `MetadataIsItsDrafts` | `FormAccounted`, `Accounted`: what the form would send agrees with its metadata, or a slip is recorded for it; a request is what the form was when it was sent |
| `HistoryIsHonestHolds` | `HistoryIsHonest` | `HistoryInv`, which is the property and its types |
| `RegisteredAsShownHolds` | `RegisteredAsShown` | `FieldIsShown`: the form is of the driver shown; `OfOneDriver`: so its directory and its default are that driver's |
| `PanelsShowTheLatestHolds` | `PanelsShowTheLatest` | `PairsCross`: of two requests of one place both know that they crossed; so at most one request of a place is unmarked, and what it brings is the latest. For each place there is an invariant of its own (`LlmPlace`, `SearchPlace` ...): it shows the latest, or waits for an answer of this page, or is in doubt |
| `TurnsHoldInductive`, `TurnsHoldAlways` | the types of the Dashboard and the chat, and `TurnsInv` | `EndsOnce`: a turn that was not stopped has at most one terminal frame before it, the last of its stream, and has handled none; `SentOnceEach`: each of the two endpoints takes a message once, and the second is asked only for a turn that saw nothing of its stream, and that was not stopped before its stream failed; `PaintedBefore`, `ListInv`: the text on the page is what came unless some of it is dirty, and only a turn that streams has dirty text |
| `OneEndPerTurnHolds`, `SentTwiceOnlyUnseenHolds`, `LastTokensPaintedHolds` | the properties of those names | from `TurnsHold` |
| `BusyHasACauseHolds` | `BusyHasACause` | `BusyInv`: each kind of busy has a request under way that will clear it, and of the requests only snapshots have an owner |
| `SettledViewIsCurrentHolds` | `SettledViewIsCurrent` | `News`: nothing travels that is newer than the server, and what was published is on the screen, asked for, or was told by the last event on the wire; dropping the oldest event of a full queue never drops that one |

**The terminal client** (`ListLemmas`, `TerminalProofs`), as `TermSpec` and `ViewSpec`

| Theorem | Says | Argument |
|---|---|---|
| `AnnouncedOnceHolds` | `AnnouncedOnce` | `OwnKeys`: what the present tracker has announced it has closed, and `Activity` announces nothing that is closed. `OwnWorkspaces`: what an earlier tracker announced is of an earlier workspace than the present tracker was started for; it needs `ScreenInTime`, that what the effects will next run for is not older than that workspace |
| `ActiveIsFollowedHolds` | `ActiveIsFollowed`, as long as nobody else resets the workspace (`NoRemote`) | `FollowInv`: the tracker is of the server's workspace, or the answer of the reset that made it is under way; what it has closed has then ended on the server, since every state that was read is `Past`; what is shown as active is followed or closed (`Noticed`). Without the hypothesis it does not hold: `remote_reset` is the counterexample |
| `TranscriptIsTheChatHolds` | `TranscriptIsTheChat` | The merge is a recursive function of the list, followed message by message. `Balanced`: what is shown of a text is what was met in a list and what is still waited for. `Covered`: no more is waited for than may still be stored or met, so that a message is not taken for one that was said here unless it is. `HeldBack`: a reply whose `done` has not come is not on the screen, unless a refresh brought it (`missed`) |
| `ViewsAgreeHolds` | `ViewsAgree` | `ViewInv`. `LooksMeet`: of two requests under way, one of which writes what the other brings, the reader is marked; so (`ConfigPlace`, `FilesPlace`) an answer without a mark brings what the server has, and what is shown is that, or is asked for, or is in doubt. `Registrations`: unless two met, what a registration has read, with its robot, is all the file has, so that its write loses nobody's. `Goings`: what is said to go on has its request |

**Streams and replies** (`ListLemmas`, `ReplyProofs`), as `FrameSpec` and `ReplySpec`

The splitters are recursive functions, and the induction theorems of the library take an
operator as a parameter, which the provers cannot instantiate. `ListLemmas` therefore proves
induction for sets of numbers, from the finiteness of intervals (`Induction`, `Least`), and
from it what a recursive function is worth at each step (`Recursion`); each proof below
instantiates these with a set of its own.

| Theorem | Says | Argument |
|---|---|---|
| `FramesAreWholeHolds`, `FrameTypeOKHolds` | `FramesAreWhole`, `FrameTypeOK` | `FrameInv`: what is in the buffer is the part of the body from the end of the last whole frame to the end of what was read, and what was handed on is due for the frames before. `BeginsOfPiece`, `BeginsWithin`: in such a part, empty lines end exactly where frames do, wherever it is cut, also within a line end; so `SplitFrames`: the split of buffer and chunk is one block for each frame that it completes, and a rest. `FrameParsed`, `TornParsed`: what a whole block, or one the body ended in, is parsed to |
| `NothingIsLostHolds` | `NothingIsLost` | For both splitters: what was cut off, joined to the rest, is the whole, at each step. `TakeBlockKeeps`: a block takes at least one line and says what its lines say; `AddItemKeeps`: so does an item, at whatever level of the list it goes |
| `BlocksStandHolds` | `BlocksStand` | A longer text has the same lines but the last, which is continued or followed (`RawLinesAppend`), and a line changes no block but the last (`AddRawStands`). `BeginsStands`: a line that begins a block still does so when it is continued, unless it becomes an ordered item, and it was then in the last block |

**What the proofs have shown about the model.** `AnnouncedOnce` was false with three requests
under way, which the bound of `clients` (two) hid: a reset has been served, a read that comes
back before its answer announces an outcome of the new workspace, the answer starts the tracker
anew, and a third, slower state shows the same action active, so that its end is announced a
second time. The exemption now names the case (`ahead`); that the keys of the entries are
distinct holds without any exemption, which the property did not claim before. Three requests
were checked by TLC as well before the proof (12 million states). `TermTypeOK` said less of
the server's state than the proofs need, and `None` was not said to be no such state, nor, in `TerminalViews`, to be no set of robots; both are
now assumed, with the names of the views that the properties tell apart.

`SettledViewIsCurrent` used to exempt views
after the queue had dropped an event. The proof did not need it: only the oldest event is
dropped, and the last one suffices to fetch what was missed; the exemption and its history
variable are gone, and the property is stronger. Two arms of `PanelServed` overlapped, for a
request about settings that has no argument; now each request has one answer. `None` was nowhere
said to differ from versions, drafts and texts; the assumptions of `WebDashboard` and
`WebPanels` now do.

In `ReplyBlocks` two arms of the extent of a block overlapped, for a line that may be an item
and is also the ruler of a table: `finalizedMarkdown.ts` takes such a line as text of its own,
and a table only from a line that is no candidate for an item; the arm now says so. In
`EventStream` the frames were any lists of lines. Of a frame with two lines of data
`FramesAreWhole` is false: the terminal client hands it on as malformed and the web client drops
it although a line of it parses. The server writes all data on one line (`format_sse_event`,
`watch_service.py:307-309`), which is now an assumption on the shapes.

**Only model-checked.**
- Liveness (`EveryActionSettles`, `ClaimsAreReturned`, `WaitingEnds`, `ShutdownEnds`,
  `BadgeSettles`, `StreamsAreReleased`, `FollowedIsAnnounced`) needs fairness and `ENABLED`,
  which are beyond the prover.
- `ClientsTypeOK` is the conjunction of the types of the clients' modules, in the product
  that `MCClients` makes of them. `FrameTypeOK` is proved. Of the others, the fields that the
  properties are about have their types in the invariants proved of each module (`DashTyped`,
  `ChatTyped`, `PanelsTyped`, `PagesTyped`, `TermTyped`, `ViewTyped`); the fields that no theorem
  needs, and the lengths and counts that follow from the budgets of a behaviour, are checked by
  TLC only.
- The runs that show a disagreement (section 6) need no proof.

## 6. Where the code and its documents differ

- **`drift`** - after a change of `SAFETY.md` the Watch refuses "the remainder of the
  affected proposal" (`runtime.py:297-298`), but the batch cancellation sees pending rows
  only. An action of the plan that a dead session had claimed comes back later and is
  executed under the new policy.
- **`decision`** - "Approval decisions can only be written by the atomic
  approve_action/reject_action" (`sqlite.py:373-375`), but the unfenced cancellation of an
  impossible action writes back the metadata it read earlier, over a rejection.
- **`halts`** - "A stale owner must not send halt commands after a newer Watch has
  acquired the workspace" (`runtime.py:177-179`). One renewal precedes the halts of all
  robots, and the time to live counts one halt: with enough robots, or a long
  `halt_timeout_s`, the last halts come under a newer owner. The run uses a halt timeout
  large against the slack.
- **`cleanup`** - "Stop and disconnect it before allowing another runtime to take the
  workspace lease" (`runtime.py:116-118`). A stop while the shielded shutdown of a failed
  setup is awaited starts a second shutdown of the same runtime; the one that ends first
  releases the lease while the other is still in a `halt()`.
- **`takeover`** - "external lease 存在时 embedded service 安静 standby，释放后接管"
  (`docs/REFACTORING.zh-CN.md:329`). If another process acquires the released lease between the
  preflight and `setup`, the service ends as `degraded` and never takes over.
- **`remote_reset`** - "workspace_reset SSE resets the tracker"
  (`src/tui/tests/scenario-runner.test.tsx:610`; the plan of 2026-07-19, line 895, asks for
  it). The client waits for an event of that type (`src/tui/src/App.tsx:276`); the API sends
  one of type `state` whose payload has the reason (`server.py:1417`, `1677-1691`). After a
  reset by another client, an identifier that is used again is not followed.

What follows was met while modelling and no document denies it; the properties exempt it or
the model contains it.

- *Board.* The hole of section 3: an unfenced cancellation, decided on lists that were read around a
  recovery, can overwrite a completed action. The comment on it (`runtime.py:596-598`) expects
  the action to stay impossible, which holds unless the runtime stalls between two `SELECT`s.
- *Dashboard.* An older snapshot that comes late overwrites a newer one, and a snapshot that
  failed is not asked for again by idle ticks (`App.tsx:213-227`). The summary of an event is
  compared with that of the last event, so a state that changes and returns leaves the stale
  view. The executor's beats come when the queue was idle for five seconds, so they starve
  while the embedded Watch ticks; nothing is published of an external one.
- *Chat.* The server may send `aborted` after `done`. An error frame without state
  (`server.py:497-505`) drops tokens that were not painted yet. The `finally` of one turn
  clears the references and the busy slot of another. A proposal submitted while a turn
  streams thus enables a second turn. A Stop while the body of a refusal is read is taken for
  a failure of that read, and the message goes to the other endpoint.
- *Panels and proposals.* A late answer to the first `GET` overwrites the LLM form; a search by
  Enter ignores the spinner; registering keeps fields of the driver before; `configLoading`
  is cleared by the first of two loads. A form is reset although its submission failed, while
  the draft's metadata stays for the next proposal, and adding another draft clears the
  metadata of the one in the form. The board counts approved actions as waiting. A popup of Reject
  that was opened earlier can be confirmed while an approval is under way.
- *Replies.* A line `1` that becomes `1.` undoes the completion of the block before it, which
  the comment in `markdownBlocks` does not expect.
- *Terminal.* A refresh that brings a reply before its `done` shows it twice and swallows the
  same text later. An outcome that is shown before the answer of the reset it follows is announced
  again if a slower state still has its action active. A disabled command line takes commands. "Snapshot refreshed." is said of
  one that failed; a registration leaves an earlier `configError`; two registrations at once
  lose one. A `done` frame that the body cuts short is handed on as malformed, and so is the rest of a
  frame when the reader is aborted between two reads.

## 7. Not modelled

World observations, params and results of actions, log lines and expectation events
(no step of the modelled code branches on them, except the verification events of the
proposals, which are not modelled yet); the contents of policies beyond what they decide; the watchdog's
counters (a robot's heartbeat fails or not in each step); `write_actions`; the reset of
the workspace; and the components listed
as `not_modelled` in `PROJECT.json`, each with its reason.

Of the clients: wording, layout, language, the guided tour and the pages that only format a
snapshot; frames of the model's reasoning, which go the way of the text beside it; calls
that return without a request because a parameter does not parse; the difference of
cancelled and failed where both end a row alike; events of type `state` in `TerminalViews`,
which `TerminalClient` has. React and the browser are taken to do what they document:
effects run after their render, callbacks one at a time, timers and frames not at all after
they were cancelled.

Storage is assumed to be what
SQLite promises: transactions are atomic, and the clock of the machine does not jump.
