----------------------------- MODULE WatchService -----------------------------
(***************************************************************************)
(* The processes that want to run the Watch: the background task of the    *)
(* API process, which stands by while another process holds the lease, and *)
(* `physical-agent watch`, which does not.                                 *)
(*                                                                         *)
(* Each process is an asyncio loop.  Its main task sets a WatchRuntime up, *)
(* ticks, and shuts it down; a setup that fails shuts down in a task of    *)
(* its own (asyncio.shield), which a cancellation of the main task leaves  *)
(* running.  The state of a runtime is shared by the two.  What a tick     *)
(* does to the actions is in WatchBoard, how long the lease lasts in       *)
(* LeaseTime: a runtime that has not started to disconnect keeps it.       *)
(***************************************************************************)
EXTENDS Naturals

CONSTANTS
    Services,     \* API processes with the embedded Watch
    Shells,       \* processes that run `physical-agent watch`
    NoProcess,
    NumRobots,
    HaltOnShutdown  \* watch.halt_on_shutdown

Processes == Services \union Shells

ASSUME WatchServiceAssumption ==
    /\ Services \intersect Shells = {}
    /\ NoProcess \notin Processes
    /\ NumRobots \in Nat
    /\ HaltOnShutdown \in BOOLEAN

VARIABLES
    project,  \* is there a config and a workspace?  "absent", "invalid" or "ready"
    holder,   \* owner of the active watch-executor lease, or NoProcess
    main,     \* where the main task is
    why,      \* why it left the loop
    runtime,  \* its WatchRuntime: _watch_lease_acquired, the number of loaded_drivers, started
    down,     \* the two calls of shutdown() that may be under way
    phase,    \* ApiWatchService._phase
    failed    \* is there a _last_error?

vars == <<project, holder, main, why, runtime, down, phase, failed>>
world == <<project, holder>>
shown == <<phase, failed>>

Places == {"off", "check", "nap", "build", "connect", "connecting", "survey", "cleanup",
           "tick", "pause", "leave", "done"}
Waiting == {"check", "nap"}
\* The main task is using the drivers.
Driving == {"connect", "connecting", "survey", "tick", "pause"}
Reasons == {"none", "beaten", "driver", "error", "fatal", "cancelled"}
Phases == {"stopped", "starting", "waiting_for_init", "invalid_config", "standby", "active",
           "degraded", "fatal"}
Calls == {"shielded", "final"}
Stages == {"none", "begin", "halt", "disconnect"}

NoRuntime == [acquired |-> FALSE, loaded |-> 0, started |-> FALSE]
NotCalled == [stage |-> "none", robot |-> 0]

TypeOK ==
    /\ project \in {"absent", "invalid", "ready"}
    /\ holder \in Processes \union {NoProcess}
    /\ main \in [Processes -> Places]
    /\ why \in [Processes -> Reasons]
    /\ runtime \in [Processes -> [acquired : BOOLEAN, loaded : 0 .. NumRobots, started : BOOLEAN]]
    /\ down \in [Processes -> [Calls -> [stage : Stages, robot : 0 .. NumRobots]]]
    /\ phase \in [Services -> Phases]
    /\ failed \in [Services -> BOOLEAN]

Init ==
    /\ project = "absent"
    /\ holder = NoProcess
    /\ main = [p \in Processes |-> "off"]
    /\ why = [p \in Processes |-> "none"]
    /\ runtime = [p \in Processes |-> NoRuntime]
    /\ down = [p \in Processes |-> [k \in Calls |-> NotCalled]]
    /\ phase = [s \in Services |-> "stopped"]
    /\ failed = [s \in Services |-> FALSE]

----------------------------------------------------------------------------
\* _set_phase; `physical-agent watch` shows none.
Show(p, name, error) ==
    /\ phase' = [s \in Services |-> IF s = p THEN name ELSE phase[s]]
    /\ failed' = [s \in Services |-> IF s = p THEN error ELSE failed[s]]

Goto(p, place) == main' = [main EXCEPT ![p] = place]
Because(p, reason) == why' = [why EXCEPT ![p] = reason]
Call(p, k, stage, robot) ==
    down' = [down EXCEPT ![p][k] = [stage |-> stage, robot |-> robot]]

\* What the client sees when the loop ends with a reason: an error, and a phase.
Report(p, reason) ==
    Show(p, IF reason = "fatal" THEN "fatal" ELSE "degraded", TRUE)

Owns(p) == runtime[p].acquired /\ holder = p

\* The runtime leaves the loop: `finally: await runtime.shutdown()`.
Leave(p, reason) ==
    /\ Goto(p, "leave")
    /\ Because(p, reason)
    /\ Call(p, "final", "begin", 0)
\* Setup failed after the lease was acquired: `await asyncio.shield(self.shutdown())`.
Undo(p, reason) ==
    /\ Goto(p, "cleanup")
    /\ Because(p, reason)
    /\ Call(p, "shielded", "begin", 0)

----------------------------------------------------------------------------
(* The main task *)

\* The process starts, or starts again.
Start(p) ==
    /\ main[p] = "off"
    /\ \A k \in Calls : down[p][k] = NotCalled
    /\ Goto(p, IF p \in Services THEN "check" ELSE "build")
    /\ Because(p, "none")
    /\ runtime' = [runtime EXCEPT ![p] = NoRuntime]
    /\ Show(p, "starting", FALSE)
    /\ UNCHANGED <<down, world>>

\* MUTANT: the task ends when another process has the lease.
PreflightGivesUp(s) ==
    /\ main[s] = "check"
    /\ \/ project = "absent" /\ Goto(s, "nap") /\ Show(s, "waiting_for_init", FALSE)
       \/ project = "invalid" /\ Goto(s, "nap") /\ Show(s, "invalid_config", TRUE)
       \/ project = "ready" /\ holder # NoProcess /\ Goto(s, "done") /\ Show(s, "standby", FALSE)
       \/ project = "ready" /\ holder = NoProcess /\ Goto(s, "build") /\ Show(s, "starting", FALSE)
    /\ UNCHANGED <<why, runtime, down, world>>
\* _preflight: wait for the project, then for the lease.
Preflight(s) ==
    /\ main[s] = "check"
    /\ \/ project = "absent" /\ Goto(s, "nap") /\ Show(s, "waiting_for_init", FALSE)
       \/ project = "invalid" /\ Goto(s, "nap") /\ Show(s, "invalid_config", TRUE)
       \/ project = "ready" /\ holder # NoProcess /\ Goto(s, "nap") /\ Show(s, "standby", FALSE)
       \/ project = "ready" /\ holder = NoProcess /\ Goto(s, "build") /\ Show(s, "starting", FALSE)
    /\ UNCHANGED <<why, runtime, down, world>>

\* The config or the workspace cannot be read: try again.
PreflightFails(s) ==
    /\ main[s] = "check"
    /\ Goto(s, "nap")
    /\ Show(s, "degraded", TRUE)
    /\ UNCHANGED <<why, runtime, down, world>>

Retry(s) ==
    /\ main[s] = "nap"
    /\ Goto(s, "check")
    /\ UNCHANGED <<why, runtime, down, world, shown>>

\* setup() up to the lease.  Nothing is to be shut down if there is no project, or
\* another process was faster.
Acquire(p) ==
    /\ main[p] = "build"
    /\ IF project = "ready" /\ holder = NoProcess
       THEN /\ Goto(p, "connect")
            /\ holder' = p
            /\ runtime' = [runtime EXCEPT ![p].acquired = TRUE]
            /\ UNCHANGED <<why, down, shown>>
       ELSE /\ LET reason == IF project = "ready" THEN "beaten" ELSE "error"
               IN  Leave(p, reason) /\ Report(p, reason)
            /\ UNCHANGED <<holder, runtime>>
    /\ UNCHANGED project

\* MUTANT: one driver too many.
ConnectOneMore(p) ==
    /\ main[p] = "connect"
    /\ Owns(p)
    /\ IF runtime[p].loaded <= NumRobots
       THEN /\ Goto(p, "connecting")
            /\ runtime' = [runtime EXCEPT ![p].loaded = @ + 1]
       ELSE /\ Goto(p, "survey")
            /\ UNCHANGED runtime
    /\ UNCHANGED <<why, down, world, shown>>
\* A driver is registered before it is connected.
Connect(p) ==
    /\ main[p] = "connect"
    /\ Owns(p)
    /\ IF runtime[p].loaded < NumRobots
       THEN /\ Goto(p, "connecting")
            /\ runtime' = [runtime EXCEPT ![p].loaded = @ + 1]
       ELSE /\ Goto(p, "survey")
            /\ UNCHANGED runtime
    /\ UNCHANGED <<why, down, world, shown>>

Connected(p) ==
    /\ main[p] = "connecting"
    /\ Owns(p)
    /\ Goto(p, "connect")
    /\ UNCHANGED <<why, runtime, down, world, shown>>

Started(p) ==
    /\ main[p] = "survey"
    /\ Owns(p)
    /\ Goto(p, "tick")
    /\ runtime' = [runtime EXCEPT ![p].started = TRUE]
    /\ Show(p, "active", FALSE)
    /\ UNCHANGED <<why, down, world>>

\* A driver does not load or connect, or the lease is gone.
SetupFails(p) ==
    /\ main[p] \in {"connect", "connecting", "survey"}
    /\ Undo(p, IF Owns(p) THEN "driver" ELSE "fatal")
    /\ UNCHANGED <<runtime, world, shown>>

\* The shielded shutdown has come to its end, and setup() raises.
SetupRaises(p) ==
    /\ main[p] = "cleanup"
    /\ down[p]["shielded"] = NotCalled
    /\ Leave(p, why[p])
    /\ IF why[p] = "cancelled" THEN UNCHANGED shown ELSE Report(p, why[p])
    /\ UNCHANGED <<runtime, world>>

\* MUTANT: an error that is over stays on display.
TickKeepsError(p) ==
    /\ main[p] = "tick"
    /\ Owns(p)
    /\ Goto(p, "pause")
    /\ \/ Show(p, "active", p \in Services /\ failed[p])
       \/ p \in Services /\ Show(p, "degraded", TRUE)
    /\ UNCHANGED <<why, runtime, down, world>>

\* A step ends well; or it fails, which the API survives.
Tick(p) ==
    /\ main[p] = "tick"
    /\ Owns(p)
    /\ Goto(p, "pause")
    /\ \/ Show(p, "active", FALSE)
       \/ p \in Services /\ Show(p, "degraded", TRUE)
    /\ UNCHANGED <<why, runtime, down, world>>

Pause(p) ==
    /\ main[p] = "pause"
    /\ Goto(p, "tick")
    /\ UNCHANGED <<why, runtime, down, world, shown>>

\* The lease or a claim is lost; `physical-agent watch` ends with any error.
TickFatal(p) ==
    /\ main[p] = "tick"
    /\ \E reason \in {"fatal"} \union (IF p \in Shells THEN {"error"} ELSE {}) :
         Leave(p, reason) /\ Report(p, reason)
    /\ UNCHANGED <<runtime, world>>

\* The runtime is shut down.  ApiWatchService.stop() was waiting for it, or nobody.
Ended(p) ==
    /\ main[p] = "leave"
    /\ down[p]["final"] = NotCalled
    /\ IF p \in Services /\ why[p] # "cancelled"
       THEN Goto(p, "done") /\ UNCHANGED shown
       ELSE Goto(p, "off") /\ Show(p, "stopped", p \in Services /\ failed[p])
    /\ UNCHANGED <<why, runtime, down, world>>

----------------------------------------------------------------------------
(* Cancellation: stop(), or Ctrl-C *)

\* Before there is a runtime, or after its task has ended.
StopIdle(p) ==
    /\ main[p] \in {"check", "nap", "build", "done"}
    /\ Goto(p, "off")
    /\ Because(p, "cancelled")
    /\ Show(p, "stopped", p \in Services /\ failed[p])
    /\ UNCHANGED <<runtime, down, world>>

StopSetup(p) ==
    /\ main[p] \in {"connect", "connecting", "survey"}
    /\ Undo(p, "cancelled")
    /\ UNCHANGED <<runtime, world, shown>>

\* The main task leaves; the shielded shutdown goes on.
StopCleanup(p) ==
    /\ main[p] = "cleanup"
    /\ why[p] # "cancelled"
    /\ Leave(p, "cancelled")
    /\ UNCHANGED <<runtime, world, shown>>

StopTicking(p) ==
    /\ main[p] \in {"tick", "pause"}
    /\ Leave(p, "cancelled")
    /\ UNCHANGED <<runtime, world, shown>>

----------------------------------------------------------------------------
(* shutdown() *)

\* MUTANT: the row is deleted, whoever owns it.
FinishAnyOwner(p, k) ==
    /\ Call(p, k, "none", 0)
    /\ runtime' = [runtime EXCEPT ![p] = NoRuntime]
    /\ holder' = NoProcess
\* `finally:` release the lease if it was acquired, forget the drivers.
Finish(p, k) ==
    /\ Call(p, k, "none", 0)
    /\ runtime' = [runtime EXCEPT ![p] = NoRuntime]
    /\ holder' = IF Owns(p) THEN NoProcess ELSE holder

\* shutdown() up to its first await: nothing to do, or renew the lease; halt if it
\* is owned; disconnect.
Begin(p, k) ==
    /\ down[p][k].stage = "begin"
    /\ \/ /\ runtime[p] = NoRuntime
          /\ Call(p, k, "none", 0)
          /\ UNCHANGED <<runtime, holder>>
       \/ /\ runtime[p] # NoRuntime
          /\ runtime[p].loaded = 0
          /\ Finish(p, k)
       \/ /\ runtime[p].loaded > 0
          /\ Call(p, k, IF Owns(p) /\ HaltOnShutdown THEN "halt" ELSE "disconnect", 1)
          /\ UNCHANGED <<runtime, holder>>
    /\ UNCHANGED <<project, main, why, shown>>

\* shutdown() raises: an error is published when the main task was waiting for it.
Raises(p, k) ==
    IF k = "final" /\ p \in Services /\ phase[p] # "fatal"
    THEN Show(p, "degraded", TRUE)
    ELSE UNCHANGED shown

\* MUTANT: shutdown() insists on the renewal.
BeginRetried(p, k) ==
    /\ down[p][k].stage = "begin"
    /\ runtime[p].acquired
    /\ Call(p, k, "begin", NumRobots - down[p][k].robot)
    /\ UNCHANGED <<project, holder, main, why, runtime, shown>>
\* Storage fails while the lease is renewed: nothing is halted or released.
BeginFails(p, k) ==
    /\ down[p][k].stage = "begin"
    /\ runtime[p].acquired
    /\ Call(p, k, "none", 0)
    /\ Raises(p, k)
    /\ UNCHANGED <<project, holder, main, why, runtime>>

\* A halt or a disconnect returns, and the loop over loaded_drivers goes on.
CallReturns(p, k) ==
    LET now == down[p][k]
        last == now.robot = runtime[p].loaded
    IN
    /\ now.stage \in {"halt", "disconnect"}
    /\ runtime[p].loaded > 0
    /\ \/ ~last /\ Call(p, k, now.stage, now.robot + 1) /\ UNCHANGED <<runtime, holder>>
       \/ last /\ now.stage = "halt" /\ Call(p, k, "disconnect", 1)
               /\ UNCHANGED <<runtime, holder>>
       \/ last /\ now.stage = "disconnect" /\ Finish(p, k)
    /\ UNCHANGED <<project, main, why, shown>>

\* The other shutdown has cleared loaded_drivers meanwhile, and the loop raises.
CallReturnsToNone(p, k) ==
    /\ down[p][k].stage \in {"halt", "disconnect"}
    /\ runtime[p].loaded = 0
    /\ Finish(p, k)
    /\ Raises(p, k)
    /\ UNCHANGED <<project, main, why>>

\* The main task is cancelled while it shuts down after an error, or the loop closes
\* over a shielded shutdown: the call is abandoned.
Abandon(p, k) ==
    /\ down[p][k].stage \in {"halt", "disconnect"}
    /\ \/ k = "final" /\ why[p] # "cancelled" /\ Because(p, "cancelled")
       \/ k = "shielded" /\ main[p] = "off" /\ UNCHANGED why
    /\ Finish(p, k)
    /\ UNCHANGED <<project, main, shown>>

----------------------------------------------------------------------------
(* Environment *)

\* LeaseTime shows that the lease of a runtime lasts until its robots are halted.
Keeps(p) ==
    /\ Owns(p)
    /\ main[p] \in Driving \/ \E k \in Calls : down[p][k].stage \in {"begin", "halt"}
\* Nobody renews the lease any more.
LeaseExpires ==
    /\ holder # NoProcess
    /\ ~Keeps(holder)
    /\ holder' = NoProcess
    /\ UNCHANGED <<project, main, why, runtime, down, shown>>

\* The project is initialized; its config is edited while it may still be read.
Edit ==
    /\ \/ project = "absent" /\ project' = "ready"
       \/ project = "ready" /\ project' = "invalid"
       \/ project = "invalid" /\ project' = "ready"
    /\ UNCHANGED <<holder, main, why, runtime, down, shown>>

\* The process dies.
Kill(p) ==
    /\ main[p] # "off" \/ \E k \in Calls : down[p][k] # NotCalled
    /\ Goto(p, "off")
    /\ Because(p, "cancelled")
    /\ runtime' = [runtime EXCEPT ![p] = NoRuntime]
    /\ down' = [down EXCEPT ![p] = [k \in Calls |-> NotCalled]]
    /\ Show(p, "stopped", FALSE)
    /\ UNCHANGED world

----------------------------------------------------------------------------
MainOf(p) ==
    \/ p \in Services /\ (Preflight(p) \/ Retry(p))
    \/ Acquire(p) \/ Connect(p) \/ Connected(p) \/ Started(p) \/ SetupFails(p) \/ SetupRaises(p)
    \/ Tick(p) \/ Pause(p) \/ TickFatal(p) \/ Ended(p)

StopOf(p) == StopIdle(p) \/ StopSetup(p) \/ StopCleanup(p) \/ StopTicking(p)
ShutdownOf(p, k) ==
    Begin(p, k) \/ BeginFails(p, k) \/ CallReturns(p, k) \/ CallReturnsToNone(p, k)

Next ==
    \/ \E p \in Processes :
         \/ Start(p) \/ MainOf(p) \/ StopOf(p) \/ Kill(p)
         \/ \E k \in Calls : ShutdownOf(p, k) \/ Abandon(p, k)
    \/ \E s \in Services : PreflightFails(s)
    \/ LeaseExpires \/ Edit

Spec == Init /\ [][Next]_vars

\* The tasks of a live process run, leases run out, and storage does not fail each
\* time it is asked.  Nobody has to start or stop a process or to edit the project.
Fairness ==
    /\ \A p \in Processes : WF_vars(MainOf(p)) /\ \A k \in Calls : WF_vars(ShutdownOf(p, k))
    /\ \A s \in Services : SF_vars(Preflight(s))
    /\ WF_vars(LeaseExpires)
FairSpec == Spec /\ Fairness

----------------------------------------------------------------------------
(* What the API says about the executor *)

\* MUTANT: the name of the runtime is not compared.
ModeByPresence(s) ==
    IF project # "ready" \/ holder = NoProcess
    THEN IF project = "ready" THEN "embedded" ELSE "waiting_for_init"
    ELSE IF main[s] \notin {"off", "done", "check", "nap"} THEN "embedded" ELSE "external"
\* executor_status, for a process with the embedded Watch.
Mode(s) ==
    IF project # "ready" \/ holder = NoProcess
    THEN IF project = "ready" THEN "embedded" ELSE "waiting_for_init"
    ELSE IF main[s] \notin {"off", "done", "check", "nap"} /\ Owns(s) THEN "embedded" ELSE "external"

----------------------------------------------------------------------------
(* Properties *)

\* At most one process uses the drivers, whatever was cancelled or failed before.
OneExecutor ==
    \A p, q \in Processes : main[p] \in Driving /\ main[q] \in Driving => p = q

\* Every API process tells where the robots are driven from: a process whose Watch
\* shuts down after another took over does not call that one's lease its own.
ModeTellsTruth ==
    \A s \in Services, q \in Processes :
        project = "ready" /\ main[q] \in Driving =>
            Mode(s) = IF q = s THEN "embedded" ELSE "external"

\* A service that says it is active has a runtime that ticks, or is leaving, and shows
\* no error; one that says it is degraded, fatal or misconfigured can say why.
PhaseTellsTruth ==
    \A s \in Services :
        /\ phase[s] = "active" => main[s] \in {"tick", "pause", "leave"} /\ ~failed[s]
        /\ phase[s] \in {"degraded", "fatal", "invalid_config"} => failed[s]
        /\ phase[s] = "standby" => main[s] \in Waiting /\ ~failed[s]

\* "Stop and disconnect it before allowing another runtime to take the workspace
\* lease", says setup() of a driver that did not connect: while a runtime is halting
\* its robots, no other process drives.
CleanedUpBeforeHandover ==
    \A p, q \in Processes, k \in Calls :
        down[p][k].stage = "halt" /\ main[q] \in Driving => p = q

Waits(s) == phase[s] \in {"standby", "waiting_for_init", "invalid_config"}

\* A service does not go on waiting in a project that is there to be driven.
WaitingEnds ==
    \A s \in Services :
        <>[](project = "ready" /\ holder = NoProcess) => []<>~Waits(s)

\* A cancelled process gets through its shutdown, and the lease comes back from every
\* process that no longer drives.
ShutdownEnds ==
    \A p \in Processes :
        /\ why[p] = "cancelled" ~> main[p] = "off" \/ why[p] # "cancelled"
        /\ holder = p /\ main[p] \notin Driving ~> holder # p

\* "When an external lease exists the embedded service quietly stands by, and takes
\* over after its release": once the other processes have left for good, a service
\* that stood by is active, unless it was stopped or failed by itself.
StandbyTakesOver ==
    \A s \in Services :
        (<>[](/\ project = "ready"
              /\ \A q \in Processes \ {s} : main[q] = "off" /\ q # holder)) =>
            (phase[s] = "standby" ~> phase[s] = "active" \/ why[s] \notin {"none", "beaten"})
=============================================================================
