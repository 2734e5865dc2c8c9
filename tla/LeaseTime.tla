------------------------------- MODULE LeaseTime -------------------------------
(***************************************************************************)
(* The watch-executor lease against the clock.                             *)
(*                                                                         *)
(* A runtime renews the lease before each driver call and gives it a time  *)
(* to live computed from the configured timeouts.  Time is discrete and    *)
(* relative: `left` is what remains of the lease, due[w] what remains of   *)
(* the longest time session w may still spend where it is.  A session that *)
(* is scheduled in time spends at most Lag on its own work (storage,       *)
(* imports, the cancellation of a call that timed out) around a call.      *)
(* WatchBoard has the same steps without the clock; here the actions,      *)
(* decisions and policies are left out.                                    *)
(***************************************************************************)
EXTENDS Integers

CONSTANTS
    Watches, NoWatch,
    NumRobots,          \* robots are connected, polled and halted in config order
    ActionTimeout,      \* watch.action_timeout_s, for capabilities that declare none
    SlowestCapability,  \* per robot, the largest declared timeout_s (0: none)
    ConnectTimeout, ObserveTimeout, HeartbeatTimeout, HaltTimeout,
    Slack, Floor,       \* the 15 s and the 60 s of _watch_lease_seconds
    TickPeriod,         \* watch.tick_ms
    Lag                 \* what a session spends on its own work

Robots == 1 .. NumRobots

ASSUME LeaseTimeAssumption ==
    /\ NoWatch \notin Watches
    /\ NumRobots \in Nat
    /\ SlowestCapability \in [Robots -> Nat]
    /\ {ActionTimeout, ConnectTimeout, ObserveTimeout, HeartbeatTimeout, HaltTimeout}
           \subseteq Nat \ {0}
    /\ {Slack, Floor, TickPeriod, Lag} \subseteq Nat
    /\ 2 * Lag <= Slack

VARIABLES
    holder,   \* owner column of the lease row; NoWatch when there is no row
    left,     \* expires_at - now, or 0 when that is not positive
    pc, at,   \* where a session is, and the robot it is dealing with
    fleet,    \* how many drivers it has registered
    longest,  \* the longest action timeout among the profiles it has published
    due       \* by when it must have moved on

vars == <<holder, left, pc, at, fleet, longest, due>>

\* Driver calls, and the session's own work between them.
StepCalls == {"connecting", "surveying", "beating", "alarming", "running", "stopping",
              "observing", "watching"}
Calls == StepCalls \union {"parking"}
Working == {"connect", "beat", "alarm", "loop", "arm", "stop", "mark", "watch"}
Active == Calls \union Working \union {"idle", "closing", "parting"}
PCs == Active \union {"new", "gone"}

TypeOK ==
    /\ holder \in Watches \union {NoWatch}
    /\ left \in Nat
    /\ pc \in [Watches -> PCs]
    /\ at \in [Watches -> 0 .. NumRobots]
    /\ fleet \in [Watches -> 0 .. NumRobots]
    /\ longest \in [Watches -> Nat]
    /\ due \in [Watches -> Nat]

Init ==
    /\ holder = NoWatch
    /\ left = 0
    /\ pc = [w \in Watches |-> "new"]
    /\ at = [w \in Watches |-> 0]
    /\ fleet = [w \in Watches |-> 0]
    /\ longest = [w \in Watches |-> ActionTimeout]
    /\ due = [w \in Watches |-> 0]

----------------------------------------------------------------------------
(* The lease *)

Larger(m, n) == IF m >= n THEN m ELSE n

\* MUTANT: the capabilities' own timeouts are not counted.
DefaultOnly(action) ==
    Larger(Floor, ActionTimeout + ConnectTimeout + ObserveTimeout + HeartbeatTimeout
                  + HaltTimeout + Slack)
\* _watch_lease_seconds
Ttl(action) ==
    Larger(Floor, action + ConnectTimeout + ObserveTimeout + HeartbeatTimeout
                  + HaltTimeout + Slack)

Owns(w) == holder = w /\ left > 0

Goto(w, where, budget) ==
    /\ pc' = [pc EXCEPT ![w] = where]
    /\ due' = [due EXCEPT ![w] = budget]

\* _require_watch_lease: renew and go on, or stop the session.
Renewing(w, where, budget, action) ==
    /\ IF Owns(w)
       THEN Goto(w, where, budget) /\ left' = Ttl(action)
       ELSE Goto(w, "closing", Lag) /\ UNCHANGED left
    /\ UNCHANGED holder
Proceed(w, where, budget) ==
    /\ Renewing(w, where, budget, longest[w])
    /\ UNCHANGED <<fleet, longest>>

----------------------------------------------------------------------------
(* Setup *)

\* No profile is known yet.  Without a free lease the session fails.
Acquire(w) ==
    /\ pc[w] = "new"
    /\ IF left = 0
       THEN /\ Goto(w, "connect", Lag)
            /\ holder' = w
            /\ left' = Ttl(ActionTimeout)
       ELSE /\ Goto(w, "gone", 0)
            /\ UNCHANGED <<holder, left>>
    /\ UNCHANGED <<at, fleet, longest>>

\* Connect the next driver; it is registered before the call.
Connect(w) ==
    /\ pc[w] = "connect"
    /\ at[w] < NumRobots
    /\ Renewing(w, "connecting", ConnectTimeout + Lag, longest[w])
    /\ at' = [at EXCEPT ![w] = @ + 1]
    /\ fleet' = [fleet EXCEPT ![w] = IF Owns(w) THEN at[w] + 1 ELSE @]
    /\ UNCHANGED longest

\* Its profile counts from the next renewal on.
Connected(w) ==
    LET action == Larger(longest[w], SlowestCapability[at[w]]) IN
    /\ pc[w] = "connecting"
    /\ Renewing(w, "connect", Lag, action)
    /\ longest' = [longest EXCEPT ![w] = action]
    /\ UNCHANGED <<at, fleet>>

\* All drivers are connected: observe the world, then start ticking.
Survey(w) ==
    /\ pc[w] = "connect"
    /\ at[w] = NumRobots
    /\ Goto(w, "surveying", ObserveTimeout + Lag)
    /\ UNCHANGED <<holder, left, at, fleet, longest>>

Started(w) ==
    /\ pc[w] = "surveying"
    /\ Proceed(w, "idle", TickPeriod + Lag)
    /\ UNCHANGED at

----------------------------------------------------------------------------
(* One step *)

\* MUTANT: one robot too many.
PollOneMore(w, r) ==
    /\ Goto(w, IF r > NumRobots + 1 THEN "loop" ELSE "beat", Lag)
    /\ at' = [at EXCEPT ![w] = IF r > NumRobots + 1 THEN 0 ELSE r]
\* The next robot whose heartbeat is due, or the actions.
Poll(w, r) ==
    /\ Goto(w, IF r > NumRobots THEN "loop" ELSE "beat", Lag)
    /\ at' = [at EXCEPT ![w] = IF r > NumRobots THEN 0 ELSE r]

BeginStep(w) ==
    /\ pc[w] = "idle"
    /\ Proceed(w, IF NumRobots = 0 THEN "loop" ELSE "beat", Lag)
    /\ at' = [at EXCEPT ![w] = IF NumRobots = 0 THEN 0 ELSE 1]

Heartbeat(w) ==
    /\ pc[w] = "beat"
    /\ Proceed(w, "beating", HeartbeatTimeout + Lag)
    /\ UNCHANGED at

\* A robot that failed too often is halted.
HeartbeatDone(w) ==
    /\ pc[w] = "beating"
    /\ \/ Poll(w, at[w] + 1)
       \/ Goto(w, "alarm", Lag) /\ UNCHANGED at
    /\ UNCHANGED <<holder, left, fleet, longest>>

WatchdogHalt(w) ==
    /\ pc[w] = "alarm"
    /\ Proceed(w, "alarming", HaltTimeout + Lag)
    /\ UNCHANGED at

WatchdogHalted(w) ==
    /\ pc[w] = "alarming"
    /\ Poll(w, at[w] + 1)
    /\ UNCHANGED <<holder, left, fleet, longest>>

\* Before each claim, and again before the gate's decision is recorded.
ClaimNext(w) ==
    /\ pc[w] = "loop"
    /\ Proceed(w, "arm", Lag)
    /\ \E r \in Robots : at' = [at EXCEPT ![w] = r]

Deny(w) ==
    /\ pc[w] = "arm"
    /\ Proceed(w, "mark", Lag)
    /\ UNCHANGED at

Execute(w) ==
    /\ pc[w] = "arm"
    /\ \E t \in {ActionTimeout, SlowestCapability[at[w]]} :
         t > 0 /\ Proceed(w, "running", t + Lag)
    /\ UNCHANGED at

Executed(w) ==
    /\ pc[w] = "running"
    /\ \E where \in {"mark", "stop"} : Goto(w, where, Lag)
    /\ UNCHANGED <<holder, left, at, fleet, longest>>

TimeoutHalt(w) ==
    /\ pc[w] = "stop"
    /\ Proceed(w, "stopping", HaltTimeout + Lag)
    /\ UNCHANGED at

TimeoutHalted(w) ==
    /\ pc[w] = "stopping"
    /\ Goto(w, "mark", Lag)
    /\ UNCHANGED <<holder, left, at, fleet, longest>>

\* The terminal update; after a result the world is observed.
Finalize(w) ==
    /\ pc[w] = "mark"
    /\ \E observe \in BOOLEAN :
         Proceed(w, IF observe THEN "observing" ELSE "loop",
                    IF observe THEN ObserveTimeout + Lag ELSE Lag)
    /\ at' = [at EXCEPT ![w] = 0]

Observed(w) ==
    /\ pc[w] = "observing"
    /\ Goto(w, "loop", Lag)
    /\ UNCHANGED <<holder, left, at, fleet, longest>>

\* Nothing is left to claim.
EndLoop(w) ==
    /\ pc[w] = "loop"
    /\ \/ Goto(w, "watch", Lag)
       \/ Goto(w, "idle", TickPeriod + Lag)
    /\ UNCHANGED <<holder, left, at, fleet, longest>>

IdleObserve(w) ==
    /\ pc[w] = "watch"
    /\ Proceed(w, "watching", ObserveTimeout + Lag)
    /\ UNCHANGED at

\* A step ends well, or with an error that the API's watch loop survives.
EndStep(w) ==
    /\ pc[w] \in {"beat", "beating", "alarm", "alarming", "loop", "arm", "running", "stop",
                  "stopping", "mark", "observing", "watch", "watching"}
    /\ Goto(w, "idle", TickPeriod + Lag)
    /\ at' = [at EXCEPT ![w] = 0]
    /\ UNCHANGED <<holder, left, fleet, longest>>

----------------------------------------------------------------------------
(* Ends of a session *)

Stop(w) ==
    /\ pc[w] \in StepCalls \union Working \union {"idle"}
    /\ Goto(w, "closing", Lag)
    /\ UNCHANGED <<holder, left, at, fleet, longest>>

\* MUTANT: the lease is read, not renewed.
ShutdownUnrenewed(w) ==
    /\ pc[w] = "closing"
    /\ Goto(w, IF Owns(w) /\ fleet[w] > 0 THEN "parking" ELSE "parting", HaltTimeout + Lag)
    /\ at' = [at EXCEPT ![w] = IF fleet[w] > 0 THEN 1 ELSE 0]
    /\ UNCHANGED <<holder, left, fleet, longest>>

\* shutdown(): renew once; an owner halts its robots one after the other, if
\* halt_on_shutdown is set, and then disconnects them.
Shutdown(w) ==
    /\ pc[w] = "closing"
    /\ \E halt \in BOOLEAN :
         Goto(w, IF Owns(w) /\ halt /\ fleet[w] > 0 THEN "parking" ELSE "parting",
                 HaltTimeout + Lag)
    /\ at' = [at EXCEPT ![w] = IF fleet[w] > 0 THEN 1 ELSE 0]
    /\ left' = IF Owns(w) THEN Ttl(longest[w]) ELSE left
    /\ UNCHANGED <<holder, fleet, longest>>

\* The next robot is halted, without another look at the lease.
Parked(w) ==
    /\ pc[w] = "parking"
    /\ IF at[w] < fleet[w]
       THEN /\ Goto(w, "parking", HaltTimeout + Lag)
            /\ at' = [at EXCEPT ![w] = @ + 1]
       ELSE /\ Goto(w, "parting", HaltTimeout + Lag)
            /\ at' = [at EXCEPT ![w] = 1]
    /\ UNCHANGED <<holder, left, fleet, longest>>

Parted(w) ==
    /\ pc[w] = "parting"
    /\ IF at[w] < fleet[w]
       THEN /\ Goto(w, "parting", HaltTimeout + Lag)
            /\ at' = [at EXCEPT ![w] = @ + 1]
            /\ UNCHANGED <<holder, left>>
       ELSE /\ Goto(w, "gone", 0)
            /\ at' = [at EXCEPT ![w] = 0]
            /\ holder' = IF holder = w THEN NoWatch ELSE holder
            /\ left' = IF holder = w THEN 0 ELSE left
    /\ UNCHANGED <<fleet, longest>>

Crash(w) ==
    /\ pc[w] \in Active
    /\ Goto(w, "gone", 0)
    /\ at' = [at EXCEPT ![w] = 0]
    /\ UNCHANGED <<holder, left, fleet, longest>>

\* Time passes as long as nobody overstays.
Tick ==
    /\ \A w \in Watches : pc[w] \in Active => due[w] > 0
    /\ left' = IF left > 0 THEN left - 1 ELSE 0
    /\ due' = [w \in Watches |-> IF pc[w] \in Active THEN due[w] - 1 ELSE due[w]]
    /\ UNCHANGED <<holder, pc, at, fleet, longest>>

----------------------------------------------------------------------------
SetupOf(w) == Acquire(w) \/ Connect(w) \/ Connected(w) \/ Survey(w) \/ Started(w)

StepOf(w) ==
    \/ BeginStep(w) \/ Heartbeat(w) \/ HeartbeatDone(w) \/ WatchdogHalt(w) \/ WatchdogHalted(w)
    \/ ClaimNext(w) \/ Deny(w) \/ Execute(w) \/ Executed(w) \/ TimeoutHalt(w) \/ TimeoutHalted(w)
    \/ Finalize(w) \/ Observed(w) \/ EndLoop(w) \/ IdleObserve(w) \/ EndStep(w)

Next ==
    \/ Tick
    \/ \E w \in Watches : \/ SetupOf(w) \/ StepOf(w) \/ Stop(w)
                          \/ Shutdown(w) \/ Parked(w) \/ Parted(w) \/ Crash(w)

Spec == Init /\ [][Next]_vars

----------------------------------------------------------------------------
(* Properties *)

\* No call of a step outlives the lease it was made under: while a driver is
\* connecting, polled, executing, halted for a timeout or for a lost heartbeat,
\* or observed, no other runtime can take over, whatever the timeouts are.
CallsUnderLease == \A w \in Watches : pc[w] \in StepCalls => Owns(w)

\* The halts of a shutdown fit in one lease.
ShutdownFits == NumRobots * (HaltTimeout + Lag) < Ttl(ActionTimeout)
\* The pause between two steps fits in the slack.
PauseFits == TickPeriod + 5 * Lag <= Slack

\* Where the pause and the halts fit, a runtime that is scheduled in time keeps
\* its lease from setup until its robots are halted: it never has to give up, and
\* WatchBoard may let the leases of the dead and the departing alone run out.
LeaseOutlastsRuntime ==
    ShutdownFits /\ PauseFits =>
        \A w \in Watches : pc[w] \in Active \ {"parting"} => Owns(w)

\* "A stale owner must not send halt commands after a newer Watch has acquired the
\* workspace", says shutdown().
StaleOwnerNeverHalts == \A w \in Watches : pc[w] = "parking" => holder = w
=============================================================================
