---------------------------- MODULE LeaseTimeProofs ----------------------------
(***************************************************************************)
(* Theorems about LeaseTime, for every number of robots and sessions and   *)
(* for all timeouts.                                                       *)
(***************************************************************************)
EXTENDS LeaseTime, TLAPS

Ticking == (StepCalls \union Working \union {"idle"}) \ {"connect", "connecting"}

\* The longest action timeout covers every profile published so far, and the robot
\* a session deals with exists.
Local(w) ==
    /\ longest[w] >= ActionTimeout
    /\ pc[w] = "new" => at[w] = 0
    /\ pc[w] = "connect" => \A r \in Robots : r <= at[w] => SlowestCapability[r] <= longest[w]
    /\ pc[w] = "connecting" =>
         /\ at[w] \in Robots
         /\ \A r \in Robots : r < at[w] => SlowestCapability[r] <= longest[w]
    /\ pc[w] \in Ticking => \A r \in Robots : SlowestCapability[r] <= longest[w]
    /\ pc[w] \in {"beat", "beating", "alarm", "alarming", "arm"} => at[w] \in Robots
    /\ pc[w] = "parking" => at[w] \in 1 .. fleet[w]

TypeInv == TypeOK /\ \A w \in Watches : Local(w)

-----------------------------------------------------------------------------
(* Lemmas *)

\* The constants are numbers.
LEMMA Durations ==
  /\ NumRobots \in Nat /\ Slack \in Nat /\ Floor \in Nat /\ TickPeriod \in Nat /\ Lag \in Nat
  /\ ActionTimeout \in Nat /\ ActionTimeout > 0
  /\ ConnectTimeout \in Nat /\ ConnectTimeout > 0
  /\ ObserveTimeout \in Nat /\ ObserveTimeout > 0
  /\ HeartbeatTimeout \in Nat /\ HeartbeatTimeout > 0
  /\ HaltTimeout \in Nat /\ HaltTimeout > 0
  /\ 2 * Lag <= Slack
  /\ \A r \in Robots : SlowestCapability[r] \in Nat
  BY LeaseTimeAssumption

\* The time to live covers each of the calls it is computed from, plus the slack.
LEMMA TtlCovers ==
  ASSUME NEW action \in Nat
  PROVE  /\ Ttl(action) \in Nat
         /\ Ttl(action) >= action + ConnectTimeout + ObserveTimeout + HeartbeatTimeout
                           + HaltTimeout + Slack
  BY Durations DEF Ttl, Larger

\* The larger of two numbers is a number, and no smaller than either.
LEMMA LargerBounds ==
  ASSUME NEW m \in Nat, NEW n \in Nat
  PROVE  Larger(m, n) \in Nat /\ Larger(m, n) >= m /\ Larger(m, n) >= n
  BY DEF Larger

\* Renewing either moves on under a full lease or stops the session.
LEMMA RenewStep ==
  ASSUME TypeOK, NEW w \in Watches, NEW where \in PCs, NEW budget \in Nat,
         NEW action \in Nat, Renewing(w, where, budget, action)
  PROVE  /\ pc' \in [Watches -> PCs]
         /\ due' \in [Watches -> Nat]
         /\ holder' = holder
         /\ left' \in Nat
         /\ \A v \in Watches \ {w} : pc'[v] = pc[v] /\ due'[v] = due[v]
         /\ \/ /\ Owns(w)
               /\ pc'[w] = where
               /\ due'[w] = budget
               /\ left' = Ttl(action)
            \/ /\ pc'[w] = "closing"
               /\ due'[w] = Lag
               /\ left' = left
<1>1. Ttl(action) \in Nat /\ Lag \in Nat
  BY TtlCovers, Durations
<1>2. CASE Owns(w)
  <2>1. Goto(w, where, budget) /\ left' = Ttl(action) /\ holder' = holder
    BY <1>2 DEF Renewing
  <2>. QED
    BY <1>1, <1>2, <2>1 DEF Goto, TypeOK
<1>3. CASE ~Owns(w)
  <2>1. Goto(w, "closing", Lag) /\ left' = left /\ holder' = holder
    BY <1>3 DEF Renewing
  <2>2. "closing" \in PCs
    BY DEF PCs, Active
  <2>. QED
    BY <1>1, <1>3, <2>1, <2>2 DEF Goto, TypeOK
<1>. QED
  BY <1>2, <1>3

\* Moving on without a renewal changes nothing but where the session is.
LEMMA GotoStep ==
  ASSUME TypeOK, NEW w \in Watches, NEW where \in PCs, NEW budget \in Nat,
         Goto(w, where, budget)
  PROVE  /\ pc' \in [Watches -> PCs]
         /\ due' \in [Watches -> Nat]
         /\ \A v \in Watches \ {w} : pc'[v] = pc[v] /\ due'[v] = due[v]
         /\ pc'[w] = where
         /\ due'[w] = budget
  BY DEF Goto, TypeOK

\* What one session does to itself leaves the others' variables as they are worth.
LEMMA LocalStep ==
  ASSUME TypeInv, NEW w \in Watches,
         holder' \in Watches \union {NoWatch}, left' \in Nat,
         pc' \in [Watches -> PCs], at' \in [Watches -> 0 .. NumRobots],
         fleet' \in [Watches -> 0 .. NumRobots], longest' \in [Watches -> Nat],
         due' \in [Watches -> Nat],
         \A v \in Watches \ {w} : /\ pc'[v] = pc[v]
                                 /\ at'[v] = at[v]
                                 /\ fleet'[v] = fleet[v]
                                 /\ longest'[v] = longest[v],
         Local(w)'
  PROVE  TypeInv'
<1>1. TypeOK'
  BY DEF TypeOK
<1>2. ASSUME NEW v \in Watches \ {w}
      PROVE  Local(v)'
  BY <1>2 DEF TypeInv, Local
<1>. QED
  BY <1>1, <1>2 DEF TypeInv

\* Types are kept, a published profile is covered, and a robot index is in range.
THEOREM Typing == Spec => []TypeInv
<1>. USE DEF Robots
<1>1. Init => TypeInv
  <2>. SUFFICES ASSUME Init
                PROVE  TypeInv
    OBVIOUS
  <2>1. TypeOK
    BY Durations DEF Init, TypeOK, PCs
  <2>2. ASSUME NEW w \in Watches
        PROVE  Local(w)
    <3>1. pc[w] = "new" /\ at[w] = 0 /\ longest[w] = ActionTimeout
      BY DEF Init
    <3>2. ActionTimeout >= ActionTimeout
      BY Durations
    <3>. QED
      BY <3>1, <3>2 DEF Local, Ticking, StepCalls, Working
  <2>. QED
    BY <2>1, <2>2 DEF TypeInv
<1>2. TypeInv /\ [Next]_vars => TypeInv'
  <2>. SUFFICES ASSUME TypeInv, [Next]_vars
                PROVE  TypeInv'
    OBVIOUS
  <2>. TypeOK /\ \A w \in Watches : Local(w)
    BY DEF TypeInv
  <2>1. CASE UNCHANGED vars
    BY <2>1 DEF vars, TypeInv, TypeOK, Local
  <2>2. CASE Tick
    <3>1. pc' = pc /\ at' = at /\ fleet' = fleet /\ longest' = longest /\ holder' = holder
      BY <2>2 DEF Tick
    <3>2. left' \in Nat /\ due' \in [Watches -> Nat]
      BY <2>2 DEF Tick, TypeOK
    <3>3. TypeOK'
      BY <3>1, <3>2 DEF TypeOK
    <3>4. \A w \in Watches : Local(w)'
      BY <3>1 DEF Local
    <3>. QED
      BY <3>3, <3>4 DEF TypeInv
  <2>3. ASSUME NEW w \in Watches, Acquire(w)
        PROVE  TypeInv'
    <3>1. /\ pc' \in [Watches -> PCs] /\ pc'[w] \in {"connect", "gone"}
          /\ due' \in [Watches -> Nat]
          /\ \A v \in Watches \ {w} : pc'[v] = pc[v]
      BY <2>3, Durations DEF Acquire, Goto, TypeOK, PCs, Active, Working
    <3>2. left' \in Nat /\ holder' \in Watches \union {NoWatch}
      BY <2>3, Durations, TtlCovers DEF Acquire, TypeOK
    <3>3. at' = at /\ fleet' = fleet /\ longest' = longest /\ at[w] = 0
      BY <2>3 DEF Acquire, Local
    <3>4. Local(w)'
      BY <3>1, <3>3 DEF Local, Ticking, StepCalls, Working
    <3>. QED
      BY <3>1, <3>2, <3>3, <3>4, LocalStep DEF TypeOK
  <2>4. ASSUME NEW w \in Watches, Connect(w)
        PROVE  TypeInv'
    <3>1. /\ pc[w] = "connect" /\ at[w] < NumRobots /\ longest' = longest
          /\ at' = [at EXCEPT ![w] = @ + 1]
          /\ fleet' = [fleet EXCEPT ![w] = IF Owns(w) THEN at[w] + 1 ELSE @]
          /\ Renewing(w, "connecting", ConnectTimeout + Lag, longest[w])
      BY <2>4 DEF Connect
    <3>2. "connecting" \in PCs /\ ConnectTimeout + Lag \in Nat
      BY Durations DEF PCs, Active, Calls, StepCalls
    <3>3. /\ pc' \in [Watches -> PCs] /\ pc'[w] \in {"connecting", "closing"}
          /\ due' \in [Watches -> Nat] /\ left' \in Nat /\ holder' = holder
          /\ \A v \in Watches \ {w} : pc'[v] = pc[v]
      BY <3>1, <3>2, RenewStep, TtlCovers DEF TypeOK
    <3>4. /\ at' \in [Watches -> 0 .. NumRobots] /\ at'[w] = at[w] + 1 /\ at'[w] \in Robots
          /\ fleet' \in [Watches -> 0 .. NumRobots]
      BY <3>1, Durations DEF TypeOK
    <3>5. Local(w)'
      BY <3>1, <3>3, <3>4 DEF Local, Ticking, StepCalls, Working, TypeOK
    <3>. QED
      BY <3>1, <3>3, <3>4, <3>5, LocalStep DEF TypeOK
  <2>5. ASSUME NEW w \in Watches, Connected(w)
        PROVE  TypeInv'
    <3>. DEFINE action == Larger(longest[w], SlowestCapability[at[w]])
    <3>1. /\ pc[w] = "connecting" /\ at' = at /\ fleet' = fleet
          /\ longest' = [longest EXCEPT ![w] = action]
          /\ Renewing(w, "connect", Lag, action)
      BY <2>5 DEF Connected
    <3>2. /\ at[w] \in Robots /\ action \in Nat
          /\ action >= longest[w] /\ action >= SlowestCapability[at[w]]
      BY <3>1, Durations, LargerBounds DEF Local, TypeOK
    <3>3. "connect" \in PCs /\ Lag \in Nat
      BY Durations DEF PCs, Active, Working
    <3>. HIDE DEF action
    <3>4. /\ pc' \in [Watches -> PCs] /\ pc'[w] \in {"connect", "closing"}
          /\ due' \in [Watches -> Nat] /\ left' \in Nat /\ holder' = holder
          /\ \A v \in Watches \ {w} : pc'[v] = pc[v]
      BY <3>1, <3>2, <3>3, RenewStep DEF TypeOK
    <3>5. /\ longest' \in [Watches -> Nat] /\ longest'[w] = action
          /\ \A v \in Watches \ {w} : longest'[v] = longest[v]
      BY <3>1, <3>2 DEF TypeOK
    <3>6. \A r \in Robots : r <= at[w] => SlowestCapability[r] <= action
      BY <3>1, <3>2, Durations DEF Local, TypeOK
    <3>7. action >= ActionTimeout
      BY <3>2, Durations DEF Local, TypeOK
    <3>8. Local(w)'
      BY <3>1, <3>4, <3>5, <3>6, <3>7 DEF Local, Ticking, StepCalls, Working
    <3>. QED
      BY <3>1, <3>4, <3>5, <3>8, LocalStep DEF TypeOK
  <2>6. ASSUME NEW w \in Watches, Survey(w)
        PROVE  TypeInv'
    <3>1. "surveying" \in PCs /\ ObserveTimeout + Lag \in Nat
      BY Durations DEF PCs, Active, Calls, StepCalls
    <3>2. /\ pc[w] = "connect" /\ at[w] = NumRobots /\ Goto(w, "surveying", ObserveTimeout + Lag)
          /\ holder' = holder /\ left' = left /\ at' = at /\ fleet' = fleet /\ longest' = longest
      BY <2>6 DEF Survey
    <3>3. /\ pc' \in [Watches -> PCs] /\ pc'[w] = "surveying" /\ due' \in [Watches -> Nat]
          /\ \A v \in Watches \ {w} : pc'[v] = pc[v]
      BY <3>1, <3>2, GotoStep
    <3>4. Local(w)'
      BY <3>2, <3>3, Durations DEF Local
    <3>. QED
      BY <3>2, <3>3, <3>4, LocalStep DEF TypeOK
  <2>7. ASSUME NEW w \in Watches, NEW where \in Ticking, NEW budget \in Nat,
               pc[w] \in Ticking, Proceed(w, where, budget),
               at' \in [Watches -> 0 .. NumRobots],
               \A v \in Watches \ {w} : at'[v] = at[v],
               where \in {"beat", "beating", "alarm", "alarming", "arm"} => at'[w] \in Robots
        PROVE  TypeInv'
    <3>1. where \in PCs
      BY <2>7 DEF Ticking, PCs, Active, Calls
    <3>2. fleet' = fleet /\ longest' = longest /\ Renewing(w, where, budget, longest[w])
      BY <2>7 DEF Proceed
    <3>3. /\ pc' \in [Watches -> PCs] /\ pc'[w] \in {where, "closing"}
          /\ due' \in [Watches -> Nat] /\ left' \in Nat /\ holder' = holder
          /\ \A v \in Watches \ {w} : pc'[v] = pc[v]
      BY <2>7, <3>1, <3>2, RenewStep DEF TypeOK
    <3>4. Local(w)'
      BY <2>7, <3>2, <3>3 DEF Local, Ticking, StepCalls, Working
    <3>. QED
      BY <2>7, <3>2, <3>3, <3>4, LocalStep DEF TypeOK
  <2>8. ASSUME NEW w \in Watches, NEW where \in Ticking, NEW budget \in Nat,
               pc[w] \in Ticking, Goto(w, where, budget),
               at' \in [Watches -> 0 .. NumRobots],
               \A v \in Watches \ {w} : at'[v] = at[v],
               where \in {"beat", "beating", "alarm", "alarming", "arm"} => at'[w] \in Robots,
               holder' = holder, left' = left, fleet' = fleet, longest' = longest
        PROVE  TypeInv'
    <3>1. where \in PCs
      BY <2>8 DEF Ticking, PCs, Active, Calls
    <3>2. /\ pc' \in [Watches -> PCs] /\ pc'[w] = where /\ due' \in [Watches -> Nat]
          /\ \A v \in Watches \ {w} : pc'[v] = pc[v]
      BY <2>8, <3>1, GotoStep
    <3>3. Local(w)'
      BY <2>8, <3>2 DEF Local, Ticking, StepCalls, Working
    <3>. QED
      BY <2>8, <3>2, <3>3, LocalStep DEF TypeOK
  <2>9. ASSUME NEW w \in Watches, StepOf(w) \/ Started(w)
        PROVE  TypeInv'
    <3>. USE DEF Ticking, StepCalls, Working
    <3>1. /\ TickPeriod + Lag \in Nat /\ ConnectTimeout + Lag \in Nat /\ ObserveTimeout + Lag \in Nat
          /\ HeartbeatTimeout + Lag \in Nat /\ HaltTimeout + Lag \in Nat /\ Lag \in Nat
      BY Durations
    <3>2. at[w] \in 0 .. NumRobots
      BY DEF TypeOK
    <3>3. CASE Started(w)
      <4>1. pc[w] = "surveying" /\ Proceed(w, "idle", TickPeriod + Lag) /\ at' = at
        BY <3>3 DEF Started
      <4>2. "idle" \in {"beat", "beating", "alarm", "alarming", "arm"} => at'[w] \in Robots
        BY <4>1 DEF Local
      <4>. QED
        BY <3>1, <4>1, <4>2, <2>7 DEF TypeOK
    <3>4. CASE BeginStep(w)
      <4>. DEFINE where == IF NumRobots = 0 THEN "loop" ELSE "beat"
      <4>1. /\ pc[w] = "idle" /\ Proceed(w, where, Lag)
            /\ at' = [at EXCEPT ![w] = IF NumRobots = 0 THEN 0 ELSE 1]
        BY <3>4 DEF BeginStep
      <4>2. at' \in [Watches -> 0 .. NumRobots] /\ \A v \in Watches \ {w} : at'[v] = at[v]
        BY <4>1, Durations DEF TypeOK
      <4>3. where \in Ticking /\ (where = "beat" => at'[w] \in Robots)
        BY <4>1, Durations DEF TypeOK
      <4>4. where \in {"loop", "beat"}
        OBVIOUS
      <4>. HIDE DEF where
      <4>. QED
        BY <3>1, <4>1, <4>2, <4>3, <4>4, <2>7
    <3>5. CASE Heartbeat(w)
      <4>1. pc[w] = "beat" /\ Proceed(w, "beating", HeartbeatTimeout + Lag) /\ at' = at
        BY <3>5 DEF Heartbeat
      <4>2. "beating" \in {"beat", "beating", "alarm", "alarming", "arm"} => at'[w] \in Robots
        BY <4>1 DEF Local
      <4>. QED
        BY <3>1, <4>1, <4>2, <2>7 DEF TypeOK
    <3>6. CASE HeartbeatDone(w)
      <4>1. pc[w] = "beating" /\ at[w] \in Robots
        BY <3>6 DEF HeartbeatDone, Local
      <4>2. holder' = holder /\ left' = left /\ fleet' = fleet /\ longest' = longest
        BY <3>6 DEF HeartbeatDone
      <4>3. CASE Poll(w, at[w] + 1)
        <5>. DEFINE where == IF at[w] + 1 > NumRobots THEN "loop" ELSE "beat"
        <5>1. /\ Goto(w, where, Lag)
              /\ at' = [at EXCEPT ![w] = IF at[w] + 1 > NumRobots THEN 0 ELSE at[w] + 1]
          BY <4>3 DEF Poll
        <5>2. /\ at' \in [Watches -> 0 .. NumRobots] /\ \A v \in Watches \ {w} : at'[v] = at[v]
              /\ where = "beat" => at'[w] \in Robots
          BY <4>1, <5>1, Durations DEF TypeOK
        <5>3. where \in {"loop", "beat"}
          OBVIOUS
        <5>. HIDE DEF where
        <5>. QED
          BY <3>1, <4>1, <4>2, <5>1, <5>2, <5>3, <2>8
      <4>4. CASE Goto(w, "alarm", Lag) /\ at' = at
        BY <3>1, <4>1, <4>2, <4>4, <2>8 DEF TypeOK
      <4>. QED
        BY <3>6, <4>3, <4>4 DEF HeartbeatDone
    <3>7. CASE WatchdogHalt(w)
      <4>1. pc[w] = "alarm" /\ Proceed(w, "alarming", HaltTimeout + Lag) /\ at' = at
        BY <3>7 DEF WatchdogHalt
      <4>2. "alarming" \in {"beat", "beating", "alarm", "alarming", "arm"} => at'[w] \in Robots
        BY <4>1 DEF Local
      <4>. QED
        BY <3>1, <4>1, <4>2, <2>7 DEF TypeOK
    <3>8. CASE WatchdogHalted(w)
      <4>1. pc[w] = "alarming" /\ at[w] \in Robots
        BY <3>8 DEF WatchdogHalted, Local
      <4>2. holder' = holder /\ left' = left /\ fleet' = fleet /\ longest' = longest
        BY <3>8 DEF WatchdogHalted
      <4>3. CASE Poll(w, at[w] + 1)
        <5>. DEFINE where == IF at[w] + 1 > NumRobots THEN "loop" ELSE "beat"
        <5>1. /\ Goto(w, where, Lag)
              /\ at' = [at EXCEPT ![w] = IF at[w] + 1 > NumRobots THEN 0 ELSE at[w] + 1]
          BY <4>3 DEF Poll
        <5>2. /\ at' \in [Watches -> 0 .. NumRobots] /\ \A v \in Watches \ {w} : at'[v] = at[v]
              /\ where = "beat" => at'[w] \in Robots
          BY <4>1, <5>1, Durations DEF TypeOK
        <5>3. where \in {"loop", "beat"}
          OBVIOUS
        <5>. HIDE DEF where
        <5>. QED
          BY <3>1, <4>1, <4>2, <5>1, <5>2, <5>3, <2>8
      <4>. QED
        BY <3>8, <4>3 DEF WatchdogHalted
    <3>9. CASE ClaimNext(w)
      <4>1. pc[w] = "loop" /\ Proceed(w, "arm", Lag)
        BY <3>9 DEF ClaimNext
      <4>2. PICK r \in Robots : at' = [at EXCEPT ![w] = r]
        BY <3>9 DEF ClaimNext
      <4>3. /\ at' \in [Watches -> 0 .. NumRobots] /\ at'[w] \in Robots
            /\ \A v \in Watches \ {w} : at'[v] = at[v]
        BY <4>2, Durations DEF TypeOK
      <4>. QED
        BY <3>1, <4>1, <4>3, <2>7
    <3>10. CASE Deny(w)
      <4>1. pc[w] = "arm" /\ Proceed(w, "mark", Lag) /\ at' = at
        BY <3>10 DEF Deny
      <4>2. "mark" \in {"beat", "beating", "alarm", "alarming", "arm"} => at'[w] \in Robots
        BY <4>1 DEF Local
      <4>. QED
        BY <3>1, <4>1, <4>2, <2>7 DEF TypeOK
    <3>11. CASE Execute(w)
      <4>1. pc[w] = "arm" /\ at' = at /\ at[w] \in Robots
        BY <3>11 DEF Execute, Local
      <4>2. PICK t \in {ActionTimeout, SlowestCapability[at[w]]} : Proceed(w, "running", t + Lag)
        BY <3>11 DEF Execute
      <4>3. t + Lag \in Nat
        BY <4>1, Durations
      <4>. QED
        BY <4>1, <4>2, <4>3, <2>7 DEF TypeOK
    <3>12. CASE Executed(w)
      <4>1. /\ pc[w] = "running" /\ at' = at /\ (Goto(w, "mark", Lag) \/ Goto(w, "stop", Lag))
            /\ holder' = holder /\ left' = left /\ fleet' = fleet /\ longest' = longest
        BY <3>12 DEF Executed
      <4>. QED
        BY <3>1, <4>1, <2>8 DEF TypeOK
    <3>13. CASE TimeoutHalt(w)
      <4>1. pc[w] = "stop" /\ Proceed(w, "stopping", HaltTimeout + Lag) /\ at' = at
        BY <3>13 DEF TimeoutHalt
      <4>2. "stopping" \in {"beat", "beating", "alarm", "alarming", "arm"} => at'[w] \in Robots
        BY <4>1 DEF Local
      <4>. QED
        BY <3>1, <4>1, <4>2, <2>7 DEF TypeOK
    <3>14. CASE TimeoutHalted(w)
      <4>1. /\ pc[w] = "stopping" /\ at' = at /\ (Goto(w, "mark", Lag))
            /\ holder' = holder /\ left' = left /\ fleet' = fleet /\ longest' = longest
        BY <3>14 DEF TimeoutHalted
      <4>. QED
        BY <3>1, <4>1, <2>8 DEF TypeOK
    <3>15. CASE Finalize(w)
      <4>1. /\ pc[w] = "mark" /\ at' = [at EXCEPT ![w] = 0]
            /\ Proceed(w, "observing", ObserveTimeout + Lag) \/ Proceed(w, "loop", Lag)
        BY <3>15 DEF Finalize
      <4>2. at' \in [Watches -> 0 .. NumRobots] /\ \A v \in Watches \ {w} : at'[v] = at[v]
        BY <4>1, Durations DEF TypeOK
      <4>. QED
        BY <3>1, <4>1, <4>2, <2>7
    <3>16. CASE Observed(w)
      <4>1. /\ pc[w] = "observing" /\ at' = at /\ (Goto(w, "loop", Lag))
            /\ holder' = holder /\ left' = left /\ fleet' = fleet /\ longest' = longest
        BY <3>16 DEF Observed
      <4>. QED
        BY <3>1, <4>1, <2>8 DEF TypeOK
    <3>17. CASE EndLoop(w)
      <4>1. /\ pc[w] = "loop" /\ at' = at /\ (Goto(w, "watch", Lag) \/ Goto(w, "idle", TickPeriod + Lag))
            /\ holder' = holder /\ left' = left /\ fleet' = fleet /\ longest' = longest
        BY <3>17 DEF EndLoop
      <4>. QED
        BY <3>1, <4>1, <2>8 DEF TypeOK
    <3>18. CASE IdleObserve(w)
      <4>1. pc[w] = "watch" /\ Proceed(w, "watching", ObserveTimeout + Lag) /\ at' = at
        BY <3>18 DEF IdleObserve
      <4>2. "watching" \in {"beat", "beating", "alarm", "alarming", "arm"} => at'[w] \in Robots
        BY <4>1 DEF Local
      <4>. QED
        BY <3>1, <4>1, <4>2, <2>7 DEF TypeOK
    <3>19. CASE EndStep(w)
      <4>1. /\ pc[w] \in Ticking /\ at' = [at EXCEPT ![w] = 0] /\ Goto(w, "idle", TickPeriod + Lag)
            /\ holder' = holder /\ left' = left /\ fleet' = fleet /\ longest' = longest
        BY <3>19 DEF EndStep
      <4>2. at' \in [Watches -> 0 .. NumRobots] /\ \A v \in Watches \ {w} : at'[v] = at[v]
        BY <4>1, Durations DEF TypeOK
      <4>. QED
        BY <3>1, <4>1, <4>2, <2>8
    <3>. QED
      BY <2>9, <3>3, <3>4, <3>5, <3>6, <3>7, <3>8, <3>9, <3>10, <3>11, <3>12, <3>13, <3>14, <3>15, <3>16, <3>17, <3>18, <3>19 DEF StepOf
  <2>10. ASSUME NEW w \in Watches,
                Stop(w) \/ Shutdown(w) \/ Parked(w) \/ Parted(w) \/ Crash(w)
         PROVE  TypeInv'
    <3>1. HaltTimeout + Lag \in Nat /\ Lag \in Nat /\ 0 \in Nat
      BY Durations
    <3>2. {"closing", "parking", "parting", "gone"} \subseteq PCs
      BY DEF PCs, Active, Calls
    <3>3. fleet' = fleet /\ longest' = longest
      BY <2>10 DEF Stop, Shutdown, Parked, Parted, Crash
    <3>4. PICK where \in {"closing", "parking", "parting", "gone"}, budget \in {Lag, HaltTimeout + Lag, 0} :
             Goto(w, where, budget) /\ (where = "parking" => pc[w] \in {"closing", "parking"})
      BY <2>10 DEF Stop, Shutdown, Parked, Parted, Crash
    <3>5. where \in PCs /\ budget \in Nat
      BY <3>1, <3>2
    <3>6. /\ pc' \in [Watches -> PCs] /\ pc'[w] = where /\ due' \in [Watches -> Nat]
          /\ \A v \in Watches \ {w} : pc'[v] = pc[v]
      BY <3>4, <3>5, GotoStep
    <3>7. left' \in Nat /\ holder' \in Watches \union {NoWatch}
      BY <2>10, TtlCovers DEF Stop, Shutdown, Parked, Parted, Crash, TypeOK
    <3>8. /\ at' \in [Watches -> 0 .. NumRobots]
          /\ \A v \in Watches \ {w} : at'[v] = at[v]
      <4>1. at[w] \in 0 .. NumRobots /\ fleet[w] \in 0 .. NumRobots /\ NumRobots \in Nat
        BY Durations DEF TypeOK
      <4>2. PICK r \in 0 .. NumRobots : at' = [at EXCEPT ![w] = r] \/ at' = at
        <5>1. CASE Stop(w)
          BY <4>1, <5>1 DEF Stop
        <5>2. CASE Shutdown(w)
          <6>1. (IF fleet[w] > 0 THEN 1 ELSE 0) \in 0 .. NumRobots
            BY <4>1
          <6>2. at' = [at EXCEPT ![w] = IF fleet[w] > 0 THEN 1 ELSE 0]
            BY <5>2 DEF Shutdown
          <6>. QED
            BY <6>1, <6>2, Zenon
        <5>3. CASE Parked(w)
          BY <4>1, <5>3 DEF Parked, Local
        <5>4. CASE Parted(w)
          BY <4>1, <5>4 DEF Parted
        <5>5. CASE Crash(w)
          <6>1. 0 \in 0 .. NumRobots
            BY <4>1
          <6>2. at' = [at EXCEPT ![w] = 0]
            BY <5>5 DEF Crash
          <6>. QED
            BY <6>1, <6>2, Zenon
        <5>. QED
          BY <2>10, <5>1, <5>2, <5>3, <5>4, <5>5
      <4>. QED
        BY <4>1, <4>2 DEF TypeOK
    <3>9. ASSUME pc'[w] = "parking"
          PROVE  at'[w] \in 1 .. fleet[w]
      <4>1. CASE Shutdown(w)
        <5>1. fleet[w] > 0
          BY <3>9, <4>1 DEF Shutdown, Goto, TypeOK
        <5>. QED
          BY <4>1, <5>1 DEF Shutdown, TypeOK
      <4>2. CASE Parked(w)
        <5>1. at[w] \in 1 .. fleet[w]
          BY <4>2 DEF Parked, Local
        <5>2. at[w] < fleet[w]
          BY <3>9, <4>2 DEF Parked, Goto, TypeOK
        <5>. QED
          BY <4>2, <5>1, <5>2 DEF Parked, TypeOK
      <4>3. CASE Stop(w) \/ Parted(w) \/ Crash(w)
        BY <3>9, <4>3 DEF Stop, Parted, Crash, Goto, TypeOK
      <4>. QED
        BY <2>10, <4>1, <4>2, <4>3
    <3>10. Local(w)'
      BY <3>3, <3>4, <3>6, <3>9 DEF Local, Ticking, StepCalls, Working
    <3>. QED
      BY <3>3, <3>6, <3>7, <3>8, <3>10, LocalStep DEF TypeOK
  <2>. QED
    BY <2>1, <2>2, <2>3, <2>4, <2>5, <2>6, <2>9, <2>10 DEF Next, SetupOf
<1>. QED
  BY <1>1, <1>2, PTL DEF Spec

-----------------------------------------------------------------------------
(* No call outlives its lease *)

\* A call in a step ends before the lease does; the calls that follow the last
\* renewal of setup are the one observation.
Cover(w) ==
    /\ pc[w] \in StepCalls => holder = w /\ left > due[w]
    /\ pc[w] = "connect" => holder = w /\ left > due[w] + ObserveTimeout + Lag

CoverInv == \A w \in Watches : Cover(w)

\* The lease of a session in a call can neither be taken nor renewed by another.
LEMMA CoverStep ==
  ASSUME TypeInv, CoverInv, NEW w \in Watches,
         \A v \in Watches \ {w} : pc'[v] = pc[v] /\ due'[v] = due[v],
         (holder' = holder /\ left' = left) \/ holder = w \/ left = 0,
         Cover(w)'
  PROVE  CoverInv'
<1>1. ASSUME NEW v \in Watches \ {w}
      PROVE  Cover(v)'
  <2>1. due[v] \in Nat /\ left \in Nat /\ ObserveTimeout \in Nat /\ Lag \in Nat
    BY Durations DEF TypeInv, TypeOK
  <2>2. Cover(v) /\ pc'[v] = pc[v] /\ due'[v] = due[v]
    BY DEF CoverInv
  <2>3. ASSUME pc[v] \in StepCalls \union {"connect"}
        PROVE  holder' = holder /\ left' = left
    BY <2>1, <2>2, <2>3 DEF Cover
  <2>. QED
    BY <2>2, <2>3 DEF Cover
<1>. QED
  BY <1>1 DEF CoverInv

\* A renewal covers the call it is made for.
LEMMA CoverRenewed ==
  ASSUME TypeInv, CoverInv, NEW w \in Watches, NEW where \in PCs, NEW budget \in Nat,
         NEW action \in Nat, Renewing(w, where, budget, action),
         where \in StepCalls => Ttl(action) > budget,
         where = "connect" => Ttl(action) > budget + ObserveTimeout + Lag
  PROVE  CoverInv'
<1>. TypeOK
  BY DEF TypeInv
<1>1. /\ holder' = holder
      /\ \A v \in Watches \ {w} : pc'[v] = pc[v] /\ due'[v] = due[v]
      /\ \/ Owns(w) /\ pc'[w] = where /\ due'[w] = budget /\ left' = Ttl(action)
         \/ pc'[w] = "closing" /\ left' = left
  BY RenewStep
<1>2. Cover(w)'
  BY <1>1 DEF Cover, Owns, StepCalls
<1>. QED
  BY <1>1, <1>2, CoverStep DEF Owns

\* For all timeouts and any number of robots and sessions: while a driver is
\* connecting, polled, executing, halted in a step or observed, the session that
\* called it holds the lease, so no other runtime has taken over.
THEOREM CallsUnderLeaseHolds == Spec => []CallsUnderLease
<1>1. Init => CoverInv
  BY DEF Init, CoverInv, Cover, StepCalls
<1>2. TypeInv /\ CoverInv /\ [Next]_vars => CoverInv'
  <2>. SUFFICES ASSUME TypeInv, CoverInv, [Next]_vars
                PROVE  CoverInv'
    OBVIOUS
  <2>. TypeOK /\ \A w \in Watches : Local(w)
    BY DEF TypeInv
  <2>1. CASE UNCHANGED vars
    BY <2>1 DEF vars, CoverInv, Cover
  <2>2. CASE Tick
    <3>1. ASSUME NEW w \in Watches
          PROVE  Cover(w)'
      <4>1. pc' = pc /\ holder' = holder
        BY <2>2 DEF Tick
      <4>2. left \in Nat /\ due[w] \in Nat /\ left' = IF left > 0 THEN left - 1 ELSE 0
        BY <2>2 DEF Tick, TypeOK
      <4>3. pc[w] \in StepCalls \union {"connect"} => due[w] > 0 /\ due'[w] = due[w] - 1
        BY <2>2 DEF Tick, Active, Calls, Working
      <4>. QED
        BY <4>1, <4>2, <4>3, Durations DEF CoverInv, Cover
    <3>. QED
      BY <3>1 DEF CoverInv
  <2>3. ASSUME NEW w \in Watches, Acquire(w)
        PROVE  CoverInv'
    <3>1. \A v \in Watches \ {w} : pc'[v] = pc[v] /\ due'[v] = due[v]
      BY <2>3 DEF Acquire, Goto, TypeOK
    <3>2. Ttl(ActionTimeout) > Lag + ObserveTimeout + Lag
      BY TtlCovers, Durations
    <3>3. Cover(w)'
      BY <2>3, <3>2 DEF Acquire, Goto, TypeOK, Cover, StepCalls
    <3>. QED
      BY <2>3, <3>1, <3>3, CoverStep DEF Acquire
  <2>4. ASSUME NEW w \in Watches, Connect(w)
        PROVE  CoverInv'
    <3>1. Renewing(w, "connecting", ConnectTimeout + Lag, longest[w]) /\ longest[w] \in Nat
      BY <2>4 DEF Connect, TypeOK
    <3>2. /\ "connecting" \in PCs /\ ConnectTimeout + Lag \in Nat
          /\ Ttl(longest[w]) > ConnectTimeout + Lag
      BY <3>1, Durations, TtlCovers DEF PCs, Active, Calls, StepCalls
    <3>. QED
      BY <3>1, <3>2, CoverRenewed
  <2>5. ASSUME NEW w \in Watches, Connected(w)
        PROVE  CoverInv'
    <3>. DEFINE action == Larger(longest[w], SlowestCapability[at[w]])
    <3>1. pc[w] = "connecting" /\ Renewing(w, "connect", Lag, action)
      BY <2>5 DEF Connected
    <3>2. action \in Nat /\ action >= ActionTimeout
      <4>1. at[w] \in Robots /\ longest[w] >= ActionTimeout
        BY <3>1 DEF Local
      <4>2. longest[w] \in Nat /\ SlowestCapability[at[w]] \in Nat
        BY <4>1, Durations DEF TypeOK
      <4>3. action \in Nat /\ action >= longest[w]
        BY <4>2, LargerBounds
      <4>. QED
        BY <4>1, <4>2, <4>3, Durations
    <3>. HIDE DEF action
    <3>3. "connect" \in PCs /\ Lag \in Nat /\ Ttl(action) > Lag + ObserveTimeout + Lag
      BY <3>2, Durations, TtlCovers DEF PCs, Active, Working
    <3>4. "connect" \notin StepCalls
      BY DEF StepCalls
    <3>. QED
      BY <3>1, <3>2, <3>3, <3>4, CoverRenewed
  <2>6. ASSUME NEW w \in Watches, Survey(w)
        PROVE  CoverInv'
    <3>1. /\ pc[w] = "connect" /\ pc'[w] = "surveying" /\ due'[w] = ObserveTimeout + Lag
          /\ holder' = holder /\ left' = left
          /\ \A v \in Watches \ {w} : pc'[v] = pc[v] /\ due'[v] = due[v]
      BY <2>6 DEF Survey, Goto, TypeOK
    <3>2. Cover(w)'
      BY <3>1, Durations DEF CoverInv, Cover, TypeOK
    <3>. QED
      BY <3>1, <3>2, CoverStep
  <2>7. ASSUME NEW w \in Watches,
               \/ HeartbeatDone(w) \/ WatchdogHalted(w) \/ Executed(w) \/ TimeoutHalted(w)
               \/ Observed(w) \/ EndLoop(w) \/ EndStep(w)
               \/ Stop(w) \/ Shutdown(w) \/ Parked(w) \/ Parted(w) \/ Crash(w)
        PROVE  CoverInv'
    <3>1. PICK where \in {"loop", "beat", "alarm", "mark", "stop", "watch", "idle",
                          "closing", "parking", "parting", "gone"},
               budget \in {Lag, TickPeriod + Lag, HaltTimeout + Lag, 0} : Goto(w, where, budget)
      BY <2>7 DEF HeartbeatDone, WatchdogHalted, Poll, Executed, TimeoutHalted, Observed, EndLoop,
         EndStep, Stop, Shutdown, Parked, Parted, Crash
    <3>2. /\ pc'[w] = where
          /\ \A v \in Watches \ {w} : pc'[v] = pc[v] /\ due'[v] = due[v]
      BY <3>1 DEF Goto, TypeOK
    <3>3. Cover(w)'
      BY <3>2 DEF Cover, StepCalls
    <3>4. (holder' = holder /\ left' = left) \/ holder = w
      BY <2>7 DEF HeartbeatDone, WatchdogHalted, Executed, TimeoutHalted, Observed, EndLoop,
         EndStep, Stop, Shutdown, Parked, Parted, Crash, Owns
    <3>. QED
      BY <3>2, <3>3, <3>4, CoverStep
  <2>8. ASSUME NEW w \in Watches, NEW where \in Ticking, NEW budget \in Nat,
               Proceed(w, where, budget), where \in StepCalls => Ttl(longest[w]) > budget
        PROVE  CoverInv'
    <3>1. where \in PCs /\ where # "connect" /\ longest[w] \in Nat
      BY DEF Ticking, PCs, Active, Calls, TypeOK
    <3>2. Renewing(w, where, budget, longest[w])
      BY <2>8 DEF Proceed
    <3>. QED
      BY <2>8, <3>1, <3>2, CoverRenewed
  <2>9. ASSUME NEW w \in Watches, StepOf(w) \/ Started(w)
        PROVE  CoverInv'
    <3>. USE DEF Ticking, StepCalls, Working
    <3>1. /\ TickPeriod + Lag \in Nat /\ ObserveTimeout + Lag \in Nat
          /\ HeartbeatTimeout + Lag \in Nat /\ HaltTimeout + Lag \in Nat /\ Lag \in Nat
      BY Durations
    <3>2. /\ longest[w] \in Nat
          /\ Ttl(longest[w]) > ObserveTimeout + Lag
          /\ Ttl(longest[w]) > HeartbeatTimeout + Lag
          /\ Ttl(longest[w]) > HaltTimeout + Lag
          /\ Ttl(longest[w]) > longest[w] + Lag
      BY Durations, TtlCovers DEF TypeOK
    <3>3. CASE Started(w)
      <4>1. Proceed(w, "idle", TickPeriod + Lag)
        BY <3>3 DEF Started
      <4>. QED
        BY <3>1, <3>2, <4>1, <2>8
    <3>4. CASE BeginStep(w)
      <4>1. Proceed(w, "loop", Lag) \/ Proceed(w, "beat", Lag)
        BY <3>4 DEF BeginStep
      <4>. QED
        BY <3>1, <3>2, <4>1, <2>8
    <3>5. CASE Heartbeat(w)
      <4>1. Proceed(w, "beating", HeartbeatTimeout + Lag)
        BY <3>5 DEF Heartbeat
      <4>. QED
        BY <3>1, <3>2, <4>1, <2>8
    <3>6. CASE WatchdogHalt(w)
      <4>1. Proceed(w, "alarming", HaltTimeout + Lag)
        BY <3>6 DEF WatchdogHalt
      <4>. QED
        BY <3>1, <3>2, <4>1, <2>8
    <3>7. CASE ClaimNext(w)
      <4>1. Proceed(w, "arm", Lag)
        BY <3>7 DEF ClaimNext
      <4>. QED
        BY <3>1, <3>2, <4>1, <2>8
    <3>8. CASE Deny(w)
      <4>1. Proceed(w, "mark", Lag)
        BY <3>8 DEF Deny
      <4>. QED
        BY <3>1, <3>2, <4>1, <2>8
    <3>9. CASE TimeoutHalt(w)
      <4>1. Proceed(w, "stopping", HaltTimeout + Lag)
        BY <3>9 DEF TimeoutHalt
      <4>. QED
        BY <3>1, <3>2, <4>1, <2>8
    <3>10. CASE Finalize(w)
      <4>1. Proceed(w, "observing", ObserveTimeout + Lag) \/ Proceed(w, "loop", Lag)
        BY <3>10 DEF Finalize
      <4>. QED
        BY <3>1, <3>2, <4>1, <2>8
    <3>11. CASE IdleObserve(w)
      <4>1. Proceed(w, "watching", ObserveTimeout + Lag)
        BY <3>11 DEF IdleObserve
      <4>. QED
        BY <3>1, <3>2, <4>1, <2>8
    <3>12. CASE Execute(w)
      <4>1. PICK t \in {ActionTimeout, SlowestCapability[at[w]]} : Proceed(w, "running", t + Lag)
        BY <3>12 DEF Execute
      <4>2. at[w] \in Robots /\ t \in Nat /\ t <= longest[w]
        BY <3>12, <4>1, Durations DEF Execute, Local
      <4>3. t + Lag \in Nat /\ Ttl(longest[w]) > t + Lag
        BY <3>2, <4>2, TtlCovers, Durations
      <4>. QED
        BY <4>1, <4>3, <2>8
    <3>. QED
      BY <2>9, <2>7, <3>3, <3>4, <3>5, <3>6, <3>7, <3>8, <3>9, <3>10, <3>11, <3>12 DEF StepOf
  <2>. QED
    BY <2>1, <2>2, <2>3, <2>4, <2>5, <2>6, <2>7, <2>9 DEF Next, SetupOf
<1>3. TypeInv /\ CoverInv => CallsUnderLease
  <2>. SUFFICES ASSUME TypeInv, CoverInv, NEW w \in Watches, pc[w] \in StepCalls
                PROVE  Owns(w)
    BY DEF CallsUnderLease
  <2>. QED
    BY DEF TypeInv, TypeOK, CoverInv, Cover, Owns
<1>. QED
  BY <1>1, <1>2, <1>3, Typing, PTL DEF Spec

-----------------------------------------------------------------------------
(* A scheduled runtime keeps its lease *)

\* The most a session may still spend before its next renewal, once it has left
\* the point where it is.
Rest(where) ==
    IF where \in {"closing", "parking"} THEN 0
    ELSE IF where \in {"idle", "connecting", "surveying"} THEN Lag
    ELSE IF where = "connect" THEN ObserveTimeout + 2 * Lag
    ELSE IF where = "watch" THEN TickPeriod + 2 * Lag
    ELSE IF where \in Working THEN TickPeriod + 3 * Lag
    ELSE TickPeriod + 4 * Lag

Keep(w) ==
    /\ pc[w] \in Active \ {"parting"} => holder = w /\ left > due[w] + Rest(pc[w])
    /\ pc[w] = "parking" => left > due[w] + (fleet[w] - at[w]) * (HaltTimeout + Lag)

Fits == ShutdownFits /\ PauseFits
KeepInv == Fits => \A w \in Watches : Keep(w)

\* The rest is a number, and where pauses fit a renewed lease covers it along with
\* any one call.
LEMMA RestBounds ==
  /\ \A where \in PCs : Rest(where) \in Nat /\ Rest(where) <= ObserveTimeout + TickPeriod + 4 * Lag
  /\ \A where \in PCs : where # "connect" => Rest(where) <= TickPeriod + 4 * Lag
  BY Durations DEF Rest

\* A step of one session that leaves the lease alone, or is the owner's, or finds it
\* free, keeps the others' leases as good as they were.
LEMMA KeepStep ==
  ASSUME TypeInv, Fits, \A v \in Watches : Keep(v), NEW w \in Watches,
         \A v \in Watches \ {w} : /\ pc'[v] = pc[v] /\ due'[v] = due[v]
                                 /\ at'[v] = at[v] /\ fleet'[v] = fleet[v],
         (holder' = holder /\ left' = left) \/ holder = w \/ left = 0,
         Keep(w)'
  PROVE  KeepInv'
<1>1. ASSUME NEW v \in Watches \ {w}
      PROVE  Keep(v)'
  <2>1. due[v] \in Nat /\ left \in Nat /\ pc[v] \in PCs
    BY DEF TypeInv, TypeOK
  <2>2. Rest(pc[v]) \in Nat
    BY <2>1, RestBounds
  <2>3. ASSUME pc[v] \in Active \ {"parting"}
        PROVE  holder' = holder /\ left' = left
    BY <2>1, <2>2, <2>3 DEF Keep
  <2>4. pc[v] = "parking" => pc[v] \in Active \ {"parting"}
    BY DEF Active, Calls
  <2>. QED
    BY <2>3, <2>4 DEF Keep
<1>. QED
  BY <1>1 DEF KeepInv

\* A session that renews moves on under a lease that lasts to its next renewal.
LEMMA KeepRenewed ==
  ASSUME TypeInv, Fits, \A v \in Watches : Keep(v),
         NEW w \in Watches, pc[w] \in Active \ {"parting"},
         NEW where \in PCs, where # "parking", NEW budget \in Nat, NEW action \in Nat,
         Renewing(w, where, budget, action), Ttl(action) > budget + Rest(where),
         \A v \in Watches \ {w} : at'[v] = at[v] /\ fleet'[v] = fleet[v]
  PROVE  KeepInv'
<1>. TypeOK
  BY DEF TypeInv
<1>1. Owns(w)
  <2>1. due[w] \in Nat /\ left \in Nat /\ Rest(pc[w]) \in Nat
    BY RestBounds DEF TypeOK
  <2>. QED
    BY <2>1 DEF Keep, Owns
<1>2. /\ holder' = holder
      /\ \A v \in Watches \ {w} : pc'[v] = pc[v] /\ due'[v] = due[v]
      /\ pc'[w] = where /\ due'[w] = budget /\ left' = Ttl(action)
  BY <1>1 DEF Renewing, Goto, TypeOK
<1>3. Keep(w)'
  BY <1>1, <1>2 DEF Keep, Owns
<1>. QED
  BY <1>1, <1>2, <1>3, KeepStep DEF Owns

\* A session that moves on without renewing spends what was set aside for it.
LEMMA KeepMoved ==
  ASSUME TypeInv, Fits, \A v \in Watches : Keep(v),
         NEW w \in Watches, pc[w] \in Active \ {"parting"},
         NEW where \in PCs, where # "parking", NEW budget \in Nat,
         Goto(w, where, budget), budget + Rest(where) <= Rest(pc[w]),
         holder' = holder, left' = left,
         \A v \in Watches \ {w} : at'[v] = at[v] /\ fleet'[v] = fleet[v]
  PROVE  KeepInv'
<1>. TypeOK
  BY DEF TypeInv
<1>1. /\ \A v \in Watches \ {w} : pc'[v] = pc[v] /\ due'[v] = due[v]
      /\ pc'[w] = where /\ due'[w] = budget
  BY GotoStep
<1>2. due[w] \in Nat /\ left \in Nat /\ Rest(pc[w]) \in Nat /\ Rest(where) \in Nat
  BY RestBounds DEF TypeOK
<1>3. Keep(w)'
  BY <1>1, <1>2 DEF Keep
<1>. QED
  BY <1>1, <1>3, KeepStep

\* The halts that remain are covered by the lease if those of all robots are.
LEMMA HaltsFit ==
  ASSUME NEW K \in Nat, NEW m \in Nat, NEW n \in Nat, m <= n
  PROVE  m * K \in Nat /\ m * K <= n * K
<1>1. (n - m) * K >= 0
  OBVIOUS
<1>2. n * K = m * K + (n - m) * K
  OBVIOUS
<1>. QED
  BY <1>1, <1>2

\* The halt of one robot is one of those that remain.
LEMMA OneHaltLess ==
  ASSUME NEW K \in Nat, NEW m \in Nat, NEW n \in Nat, m < n
  PROVE  (n - m) * K = K + (n - (m + 1)) * K /\ (n - (m + 1)) * K \in Nat
<1>1. n - (m + 1) \in Nat
  OBVIOUS
<1>2. (n - m) * K = ((n - (m + 1)) + 1) * K
  OBVIOUS
<1>3. ((n - (m + 1)) + 1) * K = K + (n - (m + 1)) * K
  BY <1>1
<1>. QED
  BY <1>1, <1>2, <1>3, HaltsFit

\* A session that keeps the longest timeout in mind renews for at least as long as
\* one that has only the default.
LEMMA TtlGrows ==
  ASSUME NEW m \in Nat, NEW n \in Nat, m <= n
  PROVE  Ttl(m) <= Ttl(n)
  BY Durations DEF Ttl, Larger

\* Where the pause and the halts of a shutdown fit in the lease, a session that is
\* scheduled in time owns it from setup until its robots are halted.
THEOREM LeaseOutlastsRuntimeHolds == Spec => []LeaseOutlastsRuntime
<1>1. Init => KeepInv
  BY DEF Init, KeepInv, Keep, Active, Calls, StepCalls, Working
<1>2. TypeInv /\ KeepInv /\ [Next]_vars => KeepInv'
  <2>. SUFFICES ASSUME TypeInv, KeepInv, Fits, [Next]_vars
                PROVE  KeepInv'
    BY DEF KeepInv
  <2>. TypeOK /\ \A w \in Watches : Local(w) /\ Keep(w)
    BY DEF TypeInv, KeepInv
  <2>11. TickPeriod + 5 * Lag <= Slack /\ NumRobots * (HaltTimeout + Lag) < Ttl(ActionTimeout)
    BY DEF Fits, ShutdownFits, PauseFits
  <2>1. CASE UNCHANGED vars
    BY <2>1 DEF vars, KeepInv, Keep
  <2>2. CASE Tick
    <3>1. ASSUME NEW w \in Watches
          PROVE  Keep(w)'
      <4>1. pc' = pc /\ holder' = holder /\ at' = at /\ fleet' = fleet
        BY <2>2 DEF Tick
      <4>2. left \in Nat /\ due[w] \in Nat /\ left' = IF left > 0 THEN left - 1 ELSE 0
        BY <2>2 DEF Tick, TypeOK
      <4>3. pc[w] \in Active => due[w] > 0 /\ due'[w] = due[w] - 1
        BY <2>2 DEF Tick
      <4>4. pc[w] \in PCs /\ Rest(pc[w]) \in Nat
        BY RestBounds DEF TypeOK
      <4>5. pc[w] \in Active \ {"parting"} => holder' = w /\ left' > due'[w] + Rest(pc'[w])
        BY <4>1, <4>2, <4>3, <4>4 DEF Keep
      <4>6. ASSUME pc[w] = "parking"
            PROVE  left' > due'[w] + (fleet'[w] - at'[w]) * (HaltTimeout + Lag)
        <5>. DEFINE k == (fleet[w] - at[w]) * (HaltTimeout + Lag)
        <5>1. k \in Nat
          <6>1. at[w] \in 1 .. fleet[w] /\ fleet[w] \in Nat
            BY <4>6, Durations DEF Local, TypeOK
          <6>. QED
            BY <6>1, Durations, HaltsFit
        <5>2. left > due[w] + k
          BY <4>6 DEF Keep
        <5>3. due[w] > 0 /\ due'[w] = due[w] - 1
          BY <4>3, <4>6 DEF Active, Calls
        <5>. HIDE DEF k
        <5>4. left' > due'[w] + k
          BY <5>1, <5>2, <5>3, <4>2
        <5>. QED
          BY <5>4, <4>1 DEF k
      <4>. QED
        BY <4>1, <4>5, <4>6 DEF Keep
    <3>. QED
      BY <3>1 DEF KeepInv
  <2>3. ASSUME NEW w \in Watches, Acquire(w)
        PROVE  KeepInv'
    <3>1. \A v \in Watches \ {w} : /\ pc'[v] = pc[v] /\ due'[v] = due[v]
                                   /\ at'[v] = at[v] /\ fleet'[v] = fleet[v]
      BY <2>3 DEF Acquire, Goto, TypeOK
    <3>2. Ttl(ActionTimeout) > Lag + Rest("connect")
      BY <2>11, TtlCovers, Durations DEF Rest
    <3>3. Keep(w)'
      BY <2>3, <3>2 DEF Acquire, Goto, TypeOK, Keep, Active, Calls, StepCalls, Working
    <3>4. (holder' = holder /\ left' = left) \/ left = 0
      BY <2>3 DEF Acquire
    <3>. QED
      BY <3>1, <3>3, <3>4, KeepStep
  <2>4. ASSUME NEW w \in Watches, Connect(w)
        PROVE  KeepInv'
    <3>1. /\ pc[w] = "connect" /\ longest[w] \in Nat
          /\ Renewing(w, "connecting", ConnectTimeout + Lag, longest[w])
      BY <2>4 DEF Connect, TypeOK
    <3>2. Rest("connecting") = Lag
      BY DEF Rest
    <3>3. /\ "connecting" \in PCs /\ ConnectTimeout + Lag \in Nat
          /\ Ttl(longest[w]) > ConnectTimeout + Lag + Rest("connecting")
      BY <3>1, <3>2, Durations, TtlCovers DEF PCs, Active, Calls, StepCalls
    <3>4. \A v \in Watches \ {w} : at'[v] = at[v] /\ fleet'[v] = fleet[v]
      BY <2>4 DEF Connect, TypeOK
    <3>5. pc[w] \in Active \ {"parting"}
      BY <3>1 DEF Active, Working
    <3>. QED
      BY <3>1, <3>3, <3>4, <3>5, KeepRenewed
  <2>5. ASSUME NEW w \in Watches, Connected(w)
        PROVE  KeepInv'
    <3>. DEFINE action == Larger(longest[w], SlowestCapability[at[w]])
    <3>1. pc[w] = "connecting" /\ Renewing(w, "connect", Lag, action)
      BY <2>5 DEF Connected
    <3>2. action \in Nat
      <4>1. at[w] \in Robots
        BY <3>1 DEF Local
      <4>. QED
        BY <4>1, Durations, LargerBounds DEF TypeOK
    <3>. HIDE DEF action
    <3>3. Rest("connect") = ObserveTimeout + 2 * Lag
      BY DEF Rest
    <3>4. "connect" \in PCs /\ Lag \in Nat /\ Ttl(action) > Lag + Rest("connect")
      BY <2>11, <3>2, <3>3, Durations, TtlCovers DEF PCs, Active, Working
    <3>5. \A v \in Watches \ {w} : at'[v] = at[v] /\ fleet'[v] = fleet[v]
      BY <2>5 DEF Connected
    <3>6. pc[w] \in Active \ {"parting"}
      BY <3>1 DEF Active, Calls, StepCalls
    <3>. QED
      BY <3>1, <3>2, <3>4, <3>5, <3>6, KeepRenewed
  <2>6. ASSUME NEW w \in Watches, NEW where \in Ticking \ {"surveying"}, NEW budget \in Nat,
               pc[w] \in Active \ {"parting"}, Proceed(w, where, budget),
               Ttl(longest[w]) > budget + Rest(where),
               \A v \in Watches \ {w} : at'[v] = at[v]
        PROVE  KeepInv'
    <3>1. where \in PCs /\ where # "parking" /\ longest[w] \in Nat
      BY DEF Ticking, PCs, Active, Calls, StepCalls, Working, TypeOK
    <3>2. Renewing(w, where, budget, longest[w]) /\ fleet' = fleet
      BY <2>6 DEF Proceed
    <3>. QED
      BY <2>6, <3>1, <3>2, KeepRenewed
  <2>7. ASSUME NEW w \in Watches, StepOf(w) \/ Started(w) \/ Survey(w) \/ Stop(w)
        PROVE  KeepInv'
    <3>. DEFINE Moving == {"loop", "beat", "alarm", "mark", "stop", "watch", "idle",
                           "surveying", "closing"}
    <3>1. /\ TickPeriod + Lag \in Nat /\ ObserveTimeout + Lag \in Nat
          /\ HeartbeatTimeout + Lag \in Nat /\ HaltTimeout + Lag \in Nat /\ Lag \in Nat
      BY Durations
    <3>2. /\ longest[w] \in Nat
          /\ Ttl(longest[w]) > longest[w] + ObserveTimeout + HeartbeatTimeout + HaltTimeout
                               + TickPeriod + 5 * Lag
      <4>1. longest[w] \in Nat
        BY DEF TypeOK
      <4>. QED
        BY <2>11, <4>1, Durations, TtlCovers
    <3>3. /\ \A where \in {"loop", "beat", "alarm", "arm", "mark", "stop"} :
               Rest(where) = TickPeriod + 3 * Lag
          /\ \A where \in {"beating", "alarming", "running", "stopping", "observing", "watching"} :
               Rest(where) = TickPeriod + 4 * Lag
          /\ Rest("watch") = TickPeriod + 2 * Lag /\ Rest("closing") = 0
          /\ Rest("idle") = Lag /\ Rest("surveying") = Lag /\ Rest("connecting") = Lag
          /\ Rest("connect") = ObserveTimeout + 2 * Lag
      BY DEF Rest, Working
    <3>4. \A v \in Watches \ {w} : at'[v] = at[v] /\ fleet'[v] = fleet[v]
      BY <2>7 DEF StepOf, Started, Survey, Stop, BeginStep, Heartbeat, HeartbeatDone,
         WatchdogHalt, WatchdogHalted, Poll, ClaimNext, Deny, Execute, Executed, TimeoutHalt,
         TimeoutHalted, Finalize, Observed, EndLoop, IdleObserve, EndStep, Proceed, TypeOK
    <3>5. pc[w] \in Active \ {"parting"}
      BY <2>7 DEF StepOf, Started, Survey, Stop, BeginStep, Heartbeat, HeartbeatDone,
         WatchdogHalt, WatchdogHalted, ClaimNext, Deny, Execute, Executed, TimeoutHalt,
         TimeoutHalted, Finalize, Observed, EndLoop, IdleObserve, EndStep,
         Active, Calls, StepCalls, Working
    <3>6. ASSUME NEW where \in Ticking \ {"surveying"}, NEW budget \in Nat,
                 Proceed(w, where, budget), Ttl(longest[w]) > budget + Rest(where)
          PROVE  KeepInv'
      BY <2>6, <3>4, <3>5, <3>6
    <3>24. ASSUME NEW where \in Ticking \ {"surveying"}, NEW budget \in Nat,
                 Proceed(w, where, budget),
                 budget <= longest[w] + ObserveTimeout + HeartbeatTimeout + HaltTimeout + Lag
          PROVE  KeepInv'
      <4>1. where \in PCs /\ where # "connect"
        BY DEF Ticking, PCs, Active, Calls, StepCalls, Working
      <4>2. Rest(where) \in Nat /\ Rest(where) <= TickPeriod + 4 * Lag
        BY <4>1, RestBounds
      <4>3. Ttl(longest[w]) > budget + Rest(where)
        BY <3>2, <3>24, <4>2, TtlCovers, Durations
      <4>. QED
        BY <3>24, <4>3, <3>6
    <3>25. /\ Lag <= longest[w] + ObserveTimeout + HeartbeatTimeout + HaltTimeout + Lag
          /\ HeartbeatTimeout + Lag
                 <= longest[w] + ObserveTimeout + HeartbeatTimeout + HaltTimeout + Lag
          /\ HaltTimeout + Lag
                 <= longest[w] + ObserveTimeout + HeartbeatTimeout + HaltTimeout + Lag
          /\ ObserveTimeout + Lag
                 <= longest[w] + ObserveTimeout + HeartbeatTimeout + HaltTimeout + Lag
      BY <3>2, Durations
    <3>7. ASSUME NEW where \in Moving, NEW budget \in Nat, Goto(w, where, budget),
                 budget + Rest(where) <= Rest(pc[w]), holder' = holder, left' = left
          PROVE  KeepInv'
      <4>1. where \in PCs /\ where # "parking"
        BY DEF PCs, Active, Calls, StepCalls, Working
      <4>. QED
        BY <3>4, <3>5, <3>7, <4>1, KeepMoved
    <3>. USE DEF Ticking, StepCalls, Working
    <3>8. CASE Started(w)
      <4>1. Proceed(w, "idle", TickPeriod + Lag)
        BY <3>8 DEF Started
      <4>2. Ttl(longest[w]) > TickPeriod + Lag + Rest("idle")
        <5>1. Ttl(longest[w]) \in Nat
          BY <3>2, TtlCovers
        <5>2. Rest("idle") = Lag
          BY <3>3
        <5>. QED
          BY <3>2, <5>1, <5>2, Durations
      <4>. QED
        BY <3>1, <4>1, <4>2, <3>6
    <3>9. CASE BeginStep(w)
      <4>1. PICK where \in {"loop", "beat"} : Proceed(w, where, Lag)
        BY <3>9 DEF BeginStep
      <4>. QED
        BY <3>1, <3>25, <4>1, <3>24
    <3>10. CASE Heartbeat(w)
      <4>1. Proceed(w, "beating", HeartbeatTimeout + Lag)
        BY <3>10 DEF Heartbeat
      <4>. QED
        BY <3>1, <3>25, <4>1, <3>24
    <3>11. CASE WatchdogHalt(w)
      <4>1. Proceed(w, "alarming", HaltTimeout + Lag)
        BY <3>11 DEF WatchdogHalt
      <4>. QED
        BY <3>1, <3>25, <4>1, <3>24
    <3>12. CASE ClaimNext(w)
      <4>1. Proceed(w, "arm", Lag)
        BY <3>12 DEF ClaimNext
      <4>. QED
        BY <3>1, <3>25, <4>1, <3>24
    <3>13. CASE Deny(w)
      <4>1. Proceed(w, "mark", Lag)
        BY <3>13 DEF Deny
      <4>. QED
        BY <3>1, <3>25, <4>1, <3>24
    <3>14. CASE TimeoutHalt(w)
      <4>1. Proceed(w, "stopping", HaltTimeout + Lag)
        BY <3>14 DEF TimeoutHalt
      <4>. QED
        BY <3>1, <3>25, <4>1, <3>24
    <3>15. CASE Finalize(w)
      <4>1. Proceed(w, "observing", ObserveTimeout + Lag) \/ Proceed(w, "loop", Lag)
        BY <3>15 DEF Finalize
      <4>2. CASE Proceed(w, "observing", ObserveTimeout + Lag)
        BY <3>1, <3>25, <4>2, <3>24
      <4>3. CASE Proceed(w, "loop", Lag)
        BY <3>1, <3>25, <4>3, <3>24
      <4>. QED
        BY <4>1, <4>2, <4>3
    <3>16. CASE IdleObserve(w)
      <4>1. Proceed(w, "watching", ObserveTimeout + Lag)
        BY <3>16 DEF IdleObserve
      <4>. QED
        BY <3>1, <3>25, <4>1, <3>24
    <3>17. CASE Execute(w)
      <4>1. PICK t \in {ActionTimeout, SlowestCapability[at[w]]} : Proceed(w, "running", t + Lag)
        BY <3>17 DEF Execute
      <4>2. at[w] \in Robots /\ t \in Nat /\ t <= longest[w]
        BY <3>17, <4>1, Durations DEF Execute, Local
      <4>3. /\ t + Lag \in Nat
            /\ t + Lag <= longest[w] + ObserveTimeout + HeartbeatTimeout + HaltTimeout + Lag
        BY <3>2, <4>2, Durations
      <4>. QED
        BY <4>1, <4>3, <3>24
    <3>18. CASE HeartbeatDone(w) \/ WatchdogHalted(w)
      <4>1. pc[w] \in {"beating", "alarming"} /\ holder' = holder /\ left' = left
        BY <3>18 DEF HeartbeatDone, WatchdogHalted
      <4>2. PICK where \in {"loop", "beat", "alarm"} : Goto(w, where, Lag)
        BY <3>18 DEF HeartbeatDone, WatchdogHalted, Poll
      <4>. QED
        BY <3>1, <3>3, <4>1, <4>2, <3>7, Durations
    <3>19. CASE Executed(w) \/ TimeoutHalted(w) \/ Observed(w)
      <4>1. pc[w] \in {"running", "stopping", "observing"} /\ holder' = holder /\ left' = left
        BY <3>19 DEF Executed, TimeoutHalted, Observed
      <4>2. PICK where \in {"loop", "mark", "stop"} : Goto(w, where, Lag)
        BY <3>19 DEF Executed, TimeoutHalted, Observed
      <4>. QED
        BY <3>1, <3>3, <4>1, <4>2, <3>7, Durations
    <3>20. CASE EndLoop(w)
      <4>1. pc[w] = "loop" /\ holder' = holder /\ left' = left
        BY <3>20 DEF EndLoop
      <4>2. Goto(w, "watch", Lag) \/ Goto(w, "idle", TickPeriod + Lag)
        BY <3>20 DEF EndLoop
      <4>. QED
        BY <3>1, <3>3, <4>1, <4>2, <3>7, Durations
    <3>21. CASE EndStep(w)
      <4>1. /\ Goto(w, "idle", TickPeriod + Lag) /\ holder' = holder /\ left' = left
            /\ pc[w] \in {"beat", "beating", "alarm", "alarming", "loop", "arm", "running", "stop",
                          "stopping", "mark", "observing", "watch", "watching"}
        BY <3>21 DEF EndStep
      <4>2. Rest(pc[w]) >= TickPeriod + 2 * Lag
        BY <3>3, <4>1, Durations
      <4>3. Rest("idle") = Lag /\ "idle" \in Moving
        BY <3>3
      <4>4. TickPeriod + Lag + Rest("idle") <= Rest(pc[w])
        <5>1. Rest(pc[w]) \in Nat
          BY RestBounds DEF TypeOK
        <5>. QED
          BY <4>2, <4>3, <5>1, Durations
      <4>. QED
        BY <3>1, <4>1, <4>3, <4>4, <3>7
    <3>22. CASE Survey(w)
      <4>1. pc[w] = "connect" /\ Goto(w, "surveying", ObserveTimeout + Lag)
            /\ holder' = holder /\ left' = left
        BY <3>22 DEF Survey
      <4>. QED
        BY <3>1, <3>3, <4>1, <3>7, Durations
    <3>23. CASE Stop(w)
      <4>1. /\ Goto(w, "closing", Lag) /\ holder' = holder /\ left' = left
            /\ pc[w] \in StepCalls \union Working \union {"idle"}
        BY <3>23 DEF Stop
      <4>2. Rest(pc[w]) >= Lag /\ Rest("closing") = 0
        BY <3>3, <4>1, Durations
      <4>3. Lag + Rest("closing") <= Rest(pc[w])
        BY <4>2, Durations
      <4>. QED
        BY <3>1, <4>1, <4>3, <3>7
    <3>. QED
      BY <2>7, <3>8, <3>9, <3>10, <3>11, <3>12, <3>13, <3>14, <3>15, <3>16, <3>17, <3>18, <3>19,
         <3>20, <3>21, <3>22, <3>23 DEF StepOf
  <2>8. ASSUME NEW w \in Watches, Shutdown(w)
        PROVE  KeepInv'
    <3>1. Owns(w) /\ pc[w] = "closing"
      <4>1. pc[w] \in Active \ {"parting"} /\ due[w] \in Nat /\ left \in Nat
        BY <2>8 DEF Shutdown, Active, TypeOK
      <4>2. Rest(pc[w]) \in Nat
        BY RestBounds DEF TypeOK
      <4>. QED
        BY <2>8, <4>1, <4>2 DEF Shutdown, Keep, Owns
    <3>2. /\ \A v \in Watches \ {w} : /\ pc'[v] = pc[v] /\ due'[v] = due[v]
                                      /\ at'[v] = at[v] /\ fleet'[v] = fleet[v]
          /\ pc'[w] = "parting" \/ (pc'[w] = "parking" /\ fleet[w] > 0)
          /\ due'[w] = HaltTimeout + Lag /\ fleet' = fleet /\ holder' = holder
          /\ left' = Ttl(longest[w])
          /\ fleet[w] > 0 => at'[w] = 1
      BY <2>8, <3>1 DEF Shutdown, Goto, TypeOK
    <3>3. Keep(w)'
      <4>1. CASE pc'[w] = "parting"
        BY <4>1 DEF Keep
      <4>2. CASE pc'[w] = "parking" /\ fleet[w] > 0
        <5>. DEFINE K == HaltTimeout + Lag
        <5>1. K \in Nat /\ fleet[w] \in Nat /\ fleet[w] <= NumRobots /\ NumRobots \in Nat
          BY Durations DEF TypeOK
        <5>2. NumRobots * K < Ttl(longest[w])
          <6>1. ActionTimeout <= longest[w] /\ longest[w] \in Nat
            BY DEF Local, TypeOK
          <6>2. Ttl(ActionTimeout) <= Ttl(longest[w])
            BY <6>1, TtlGrows, Durations
          <6>3. Ttl(ActionTimeout) \in Nat /\ Ttl(longest[w]) \in Nat
            BY <6>1, TtlCovers, Durations
          <6>4. NumRobots * K \in Nat /\ NumRobots * K < Ttl(ActionTimeout)
            BY <2>11, <5>1, HaltsFit
          <6>. QED
            BY <6>2, <6>3, <6>4
        <5>3. due'[w] = K /\ Rest("parking") = 0
          BY <3>2 DEF Rest
        <5>. HIDE DEF K
        <5>4. fleet[w] * K \in Nat /\ NumRobots * K \in Nat /\ fleet[w] * K <= NumRobots * K
          BY <5>1, HaltsFit
        <5>5. fleet[w] * K = K + (fleet[w] - 1) * K /\ (fleet[w] - 1) * K \in Nat
          <6>1. (fleet[w] - 0) * K = K + (fleet[w] - (0 + 1)) * K
                /\ (fleet[w] - (0 + 1)) * K \in Nat
            BY <4>2, <5>1, OneHaltLess
          <6>. QED
            BY <5>1, <6>1
        <5>6. Ttl(longest[w]) \in Nat
          BY TtlCovers DEF TypeOK
        <5>7. left' > due'[w] + Rest("parking") /\ left' > due'[w] + (fleet[w] - 1) * K
          <6>. DEFINE rest == (fleet[w] - 1) * K
                      all == NumRobots * K
                      some == fleet[w] * K
                      lease == Ttl(longest[w])
          <6>1. /\ rest \in Nat /\ some = K + rest /\ all \in Nat /\ some <= all
                /\ lease \in Nat /\ all < lease /\ left' = lease
            BY <3>2, <5>2, <5>4, <5>5, <5>6
          <6>. HIDE DEF rest, all, some, lease
          <6>2. left' > K + rest
            BY <5>1, <6>1
          <6>3. left' > due'[w] + Rest("parking") /\ left' > due'[w] + rest
            BY <5>1, <5>3, <6>1, <6>2
          <6>. QED
            BY <6>3 DEF rest
        <5>8. left' > due'[w] + (fleet'[w] - at'[w]) * (HaltTimeout + Lag)
          BY <3>2, <4>2, <5>7 DEF K
        <5>9. holder' = w
          BY <3>1, <3>2 DEF Owns
        <5>. QED
          BY <4>2, <5>7, <5>8, <5>9 DEF Keep
      <4>. QED
        BY <3>2, <4>1, <4>2
    <3>. QED
      BY <3>1, <3>2, <3>3, KeepStep DEF Owns
  <2>9. ASSUME NEW w \in Watches, Parked(w)
        PROVE  KeepInv'
    <3>1. /\ \A v \in Watches \ {w} : /\ pc'[v] = pc[v] /\ due'[v] = due[v]
                                      /\ at'[v] = at[v] /\ fleet'[v] = fleet[v]
          /\ pc[w] = "parking" /\ fleet' = fleet /\ holder' = holder /\ left' = left
          /\ \/ pc'[w] = "parting"
             \/ /\ pc'[w] = "parking" /\ at[w] < fleet[w] /\ at'[w] = at[w] + 1
                /\ due'[w] = HaltTimeout + Lag
      BY <2>9 DEF Parked, Goto, TypeOK
    <3>2. Keep(w)'
      <4>1. CASE pc'[w] = "parting"
        BY <4>1 DEF Keep
      <4>2. CASE /\ pc'[w] = "parking" /\ at[w] < fleet[w] /\ at'[w] = at[w] + 1
                 /\ due'[w] = HaltTimeout + Lag
        <5>. DEFINE K == HaltTimeout + Lag
                    rest == (fleet[w] - (at[w] + 1)) * K
        <5>1. K \in Nat /\ fleet[w] \in Nat /\ at[w] \in Nat /\ due[w] \in Nat /\ left \in Nat
          BY Durations DEF TypeOK
        <5>2. (fleet[w] - at[w]) * K = K + rest /\ rest \in Nat
          <6>. HIDE DEF K
          <6>. QED
            BY <4>2, <5>1, OneHaltLess
        <5>3. left > due[w] + (fleet[w] - at[w]) * K /\ holder = w
          BY <3>1 DEF Keep, Active, Calls
        <5>4. Rest("parking") = 0
          BY DEF Rest
        <5>. HIDE DEF K, rest
        <5>5. left > K + rest
          BY <5>1, <5>2, <5>3
        <5>6. left' > due'[w] + Rest(pc'[w])
          BY <3>1, <4>2, <5>1, <5>2, <5>4, <5>5 DEF K
        <5>7. left' > due'[w] + (fleet'[w] - at'[w]) * (HaltTimeout + Lag)
          BY <3>1, <4>2, <5>5 DEF K, rest
        <5>. QED
          BY <3>1, <5>3, <5>6, <5>7 DEF Keep
      <4>. QED
        BY <3>1, <4>1, <4>2
    <3>. QED
      BY <3>1, <3>2, KeepStep
  <2>10. ASSUME NEW w \in Watches, Parted(w) \/ Crash(w)
         PROVE  KeepInv'
    <3>1. /\ \A v \in Watches \ {w} : /\ pc'[v] = pc[v] /\ due'[v] = due[v]
                                      /\ at'[v] = at[v] /\ fleet'[v] = fleet[v]
          /\ pc'[w] \in {"parting", "gone"}
      BY <2>10 DEF Parted, Crash, Goto, TypeOK
    <3>2. Keep(w)'
      BY <3>1 DEF Keep, Active, Calls, StepCalls, Working
    <3>3. (holder' = holder /\ left' = left) \/ holder = w
      BY <2>10 DEF Parted, Crash
    <3>. QED
      BY <3>1, <3>2, <3>3, KeepStep
  <2>. QED
    BY <2>1, <2>2, <2>3, <2>4, <2>5, <2>7, <2>8, <2>9, <2>10 DEF Next, SetupOf
<1>3. TypeInv /\ KeepInv => LeaseOutlastsRuntime
  <2>. SUFFICES ASSUME TypeInv, KeepInv, Fits, NEW w \in Watches,
                       pc[w] \in Active \ {"parting"}
                PROVE  Owns(w)
    BY DEF LeaseOutlastsRuntime, Fits
  <2>1. due[w] \in Nat /\ left \in Nat /\ Rest(pc[w]) \in Nat
    BY RestBounds DEF TypeInv, TypeOK
  <2>. QED
    BY <2>1 DEF KeepInv, Keep, Owns
<1>. QED
  BY <1>1, <1>2, <1>3, Typing, PTL DEF Spec

\* Type correctness alone.
COROLLARY TypesAreKept == Spec => []TypeOK
<1>1. TypeInv => TypeOK
  BY DEF TypeInv
<1>. QED
  BY <1>1, Typing, PTL
=============================================================================
