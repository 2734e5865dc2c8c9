-------------------------- MODULE WatchServiceProofs --------------------------
(***************************************************************************)
(* Theorems about WatchService, for any number of processes and robots.    *)
(***************************************************************************)
EXTENDS WatchService, TLAPS

\* A main task that drives owns the lease; a shutdown is under way only where the main
\* task waits for it or has left.
Session(p) ==
    /\ main[p] \in Driving => Owns(p)
    /\ main[p] \notin {"cleanup", "leave", "off", "done"} =>
         \A k \in Calls : down[p][k].stage = "none"
    /\ down[p]["final"].stage # "none" => main[p] = "leave"
    /\ \A k \in Calls :
         down[p][k].stage \in {"halt", "disconnect"} /\ runtime[p].loaded > 0 =>
             down[p][k].robot <= runtime[p].loaded

Inv == TypeOK /\ \A p \in Processes : Session(p)

-----------------------------------------------------------------------------
(* Lemmas *)

\* The records of runtimes and of shutdowns.
LEMMA Records ==
  /\ NumRobots \in Nat
  /\ NoRuntime \in [acquired : BOOLEAN, loaded : 0 .. NumRobots, started : BOOLEAN]
  /\ NotCalled \in [stage : Stages, robot : 0 .. NumRobots]
  /\ NotCalled.stage = "none"
  /\ NoRuntime.acquired = FALSE /\ NoRuntime.loaded = 0
  BY WatchServiceAssumption DEF NoRuntime, NotCalled, Stages

\* Showing a phase changes what is shown to the right kinds.
LEMMA ShowType ==
  ASSUME TypeOK, NEW p, NEW name \in Phases, NEW error \in BOOLEAN, Show(p, name, error)
  PROVE  phase' \in [Services -> Phases] /\ failed' \in [Services -> BOOLEAN]
  BY DEF TypeOK, Show

\* So does a report of an error.
LEMMA ReportType ==
  ASSUME TypeOK, NEW p, NEW reason, Report(p, reason)
  PROVE  phase' \in [Services -> Phases] /\ failed' \in [Services -> BOOLEAN]
<1>1. (IF reason = "fatal" THEN "fatal" ELSE "degraded") \in Phases
  BY DEF Phases
<1>. QED
  BY <1>1, ShowType DEF Report

\* A call of shutdown() changes the state of that call alone.
LEMMA CallType ==
  ASSUME TypeOK, NEW p \in Processes, NEW k \in Calls, NEW stage \in Stages,
         NEW robot \in 0 .. NumRobots, Call(p, k, stage, robot)
  PROVE  /\ down' \in [Processes -> [Calls -> [stage : Stages, robot : 0 .. NumRobots]]]
         /\ \A q \in Processes \ {p} : down'[q] = down[q]
         /\ down'[p][k] = [stage |-> stage, robot |-> robot]
         /\ \A j \in Calls \ {k} : down'[p][j] = down[p][j]
<1>1. down[p] \in [Calls -> [stage : Stages, robot : 0 .. NumRobots]]
  BY DEF TypeOK
<1>. DEFINE now == [down[p] EXCEPT ![k] = [stage |-> stage, robot |-> robot]]
<1>2. now \in [Calls -> [stage : Stages, robot : 0 .. NumRobots]]
  BY <1>1
<1>3. down' = [down EXCEPT ![p] = now]
  BY DEF Call
<1>4. now[k] = [stage |-> stage, robot |-> robot] /\ \A j \in Calls \ {k} : now[j] = down[p][j]
  BY <1>1
<1>. HIDE DEF now
<1>. QED
  BY <1>2, <1>3, <1>4 DEF TypeOK

\* A step of one process that leaves the lease alone, or takes a free one, or is its
\* owner's, keeps what the others rely on.
LEMMA Step ==
  ASSUME Inv, NEW p \in Processes, TypeOK', Session(p)',
         \A q \in Processes \ {p} : /\ main'[q] = main[q]
                                   /\ runtime'[q] = runtime[q]
                                   /\ down'[q] = down[q],
         holder' = holder \/ holder = NoProcess \/ holder = p
  PROVE  Inv'
<1>1. ASSUME NEW q \in Processes \ {p}
      PROVE  Session(q)'
  <2>1. Session(q) /\ NoProcess # q
    BY WatchServiceAssumption DEF Inv
  <2>. QED
    BY <2>1 DEF Session, Owns
<1>. QED
  BY <1>1 DEF Inv

\* A step of the main task that leaves the lease and the calls of shutdown() alone.
LEMMA MainStep ==
  ASSUME Inv, NEW p \in Processes, NEW place \in Places, Goto(p, place),
         why' \in [Processes -> Reasons],
         phase' \in [Services -> Phases], failed' \in [Services -> BOOLEAN],
         UNCHANGED <<down, runtime, project, holder>>,
         place \in Driving => Owns(p),
         place \notin {"cleanup", "leave", "off", "done"} =>
             \A k \in Calls : down[p][k].stage = "none",
         down[p]["final"].stage # "none" => place = "leave"
  PROVE  Inv'
<1>. TypeOK /\ Session(p)
  BY DEF Inv
<1>1. /\ main' \in [Processes -> Places]
      /\ \A q \in Processes \ {p} : main'[q] = main[q]
      /\ main'[p] = place
  BY DEF Goto, TypeOK
<1>2. TypeOK'
  BY <1>1 DEF TypeOK
<1>3. Session(p)'
  BY <1>1 DEF Session, Owns
<1>. QED
  BY <1>1, <1>2, <1>3, Step

\* The main task leaves its loop, or undoes its setup.
LEMMA LeaveStep ==
  ASSUME Inv, NEW p \in Processes, NEW reason \in Reasons,
         Leave(p, reason) \/ (Undo(p, reason) /\ down[p]["final"].stage = "none"),
         phase' \in [Services -> Phases], failed' \in [Services -> BOOLEAN],
         UNCHANGED <<runtime, project, holder>>
  PROVE  Inv'
<1>. TypeOK /\ Session(p)
  BY DEF Inv
<1>1. PICK place \in {"leave", "cleanup"}, k \in Calls :
        /\ Goto(p, place) /\ Because(p, reason) /\ Call(p, k, "begin", 0)
        /\ k = "final" => place = "leave"
        /\ k # "final" => down[p]["final"].stage = "none"
  BY DEF Leave, Undo, Calls
<1>2. "begin" \in Stages /\ 0 \in 0 .. NumRobots
  BY Records DEF Stages
<1>3. /\ down' \in [Processes -> [Calls -> [stage : Stages, robot : 0 .. NumRobots]]]
      /\ \A q \in Processes \ {p} : down'[q] = down[q]
      /\ down'[p][k] = [stage |-> "begin", robot |-> 0]
      /\ \A j \in Calls \ {k} : down'[p][j] = down[p][j]
  BY <1>1, <1>2, CallType
<1>4. /\ main' \in [Processes -> Places]
      /\ \A q \in Processes \ {p} : main'[q] = main[q]
      /\ main'[p] = place
      /\ why' \in [Processes -> Reasons]
  BY <1>1 DEF Goto, Because, TypeOK, Places
<1>5. TypeOK'
  BY <1>3, <1>4 DEF TypeOK
<1>6. Session(p)'
  <2>1. place \notin Driving
    BY DEF Driving
  <2>2. down'[p][k].stage = "begin"
    BY <1>3
  <2>3. down'[p]["final"].stage # "none" => place = "leave"
    BY <1>1, <1>3 DEF Calls
  <2>4. ASSUME NEW j \in Calls, down'[p][j].stage \in {"halt", "disconnect"},
               runtime[p].loaded > 0
        PROVE  down'[p][j].robot <= runtime[p].loaded
    BY <1>3, <2>2, <2>4 DEF Session
  <2>. QED
    BY <1>4, <2>1, <2>3, <2>4 DEF Session
<1>. QED
  BY <1>3, <1>4, <1>5, <1>6, Step

\* A call of shutdown() that goes on to the next driver, or ends, without releasing.
LEMMA CallStep ==
  ASSUME Inv, NEW p \in Processes, NEW k \in Calls, NEW stage \in Stages,
         NEW robot \in 0 .. NumRobots, Call(p, k, stage, robot),
         down[p][k].stage # "none",
         stage # "none" => runtime[p].loaded = 0 \/ robot <= runtime[p].loaded,
         phase' \in [Services -> Phases], failed' \in [Services -> BOOLEAN],
         UNCHANGED <<main, why, runtime, project, holder>>
  PROVE  Inv'
<1>. TypeOK /\ Session(p)
  BY DEF Inv
<1>1. /\ down' \in [Processes -> [Calls -> [stage : Stages, robot : 0 .. NumRobots]]]
      /\ \A q \in Processes \ {p} : down'[q] = down[q]
      /\ down'[p][k] = [stage |-> stage, robot |-> robot]
      /\ \A j \in Calls \ {k} : down'[p][j] = down[p][j]
  BY CallType
<1>2. TypeOK'
  BY <1>1 DEF TypeOK
<1>3. Session(p)'
  <2>1. main[p] \in {"cleanup", "leave", "off", "done"}
    BY DEF Session
  <2>2. down'[p]["final"].stage # "none" => main[p] = "leave"
    BY <1>1 DEF Session, Calls
  <2>3. ASSUME NEW j \in Calls, down'[p][j].stage \in {"halt", "disconnect"},
               runtime[p].loaded > 0
        PROVE  down'[p][j].robot <= runtime[p].loaded
    <3>1. CASE j = k
      <4>1. down'[p][j].stage = stage /\ down'[p][j].robot = robot
        BY <1>1, <3>1
      <4>2. runtime[p].loaded # 0
        BY <2>3
      <4>. QED
        BY <2>3, <4>1, <4>2
    <3>2. CASE j # k
      BY <1>1, <2>3, <3>2 DEF Session
    <3>. QED
      BY <3>1, <3>2
  <2>. QED
    BY <2>1, <2>2, <2>3 DEF Session, Owns
<1>. QED
  BY <1>1, <1>2, <1>3, Step

\* A call of shutdown() that ends and releases.
LEMMA FinishStep ==
  ASSUME Inv, NEW p \in Processes, NEW k \in Calls, Finish(p, k),
         down[p][k].stage # "none",
         phase' \in [Services -> Phases], failed' \in [Services -> BOOLEAN],
         why' \in [Processes -> Reasons],
         UNCHANGED <<main, project>>
  PROVE  Inv'
<1>. TypeOK /\ Session(p)
  BY DEF Inv
<1>1. "none" \in Stages /\ 0 \in 0 .. NumRobots
  BY Records DEF Stages
<1>2. /\ down' \in [Processes -> [Calls -> [stage : Stages, robot : 0 .. NumRobots]]]
      /\ \A q \in Processes \ {p} : down'[q] = down[q]
      /\ down'[p][k] = [stage |-> "none", robot |-> 0]
      /\ \A j \in Calls \ {k} : down'[p][j] = down[p][j]
  BY <1>1, CallType DEF Finish
<1>3. /\ runtime' \in [Processes -> [acquired : BOOLEAN, loaded : 0 .. NumRobots,
                                     started : BOOLEAN]]
      /\ \A q \in Processes \ {p} : runtime'[q] = runtime[q]
      /\ runtime'[p].loaded = 0
  BY Records DEF Finish, TypeOK
<1>4. holder' \in {holder, NoProcess} /\ (holder' = holder \/ holder = p)
  BY DEF Finish, Owns
<1>5. TypeOK'
  BY <1>2, <1>3, <1>4 DEF TypeOK
<1>6. Session(p)'
  <2>1. main[p] \in {"cleanup", "leave", "off", "done"}
    BY DEF Session
  <2>2. main[p] \notin Driving
    BY <2>1 DEF Driving
  <2>3. down'[p]["final"].stage # "none" => main[p] = "leave"
    BY <1>2 DEF Session, Calls
  <2>. QED
    BY <1>3, <2>1, <2>2, <2>3 DEF Session
<1>. QED
  BY <1>2, <1>3, <1>4, <1>5, <1>6, Step

-----------------------------------------------------------------------------
(* The lease and the drivers *)

\* Whoever drives owns the lease, and no shutdown is under way beside him.
THEOREM Sessions == Spec => []Inv
<1>1. Init => Inv
  <2>. SUFFICES ASSUME Init
                PROVE  Inv
    OBVIOUS
  <2>1. TypeOK
    BY Records DEF Init, TypeOK, Places, Reasons, Phases
  <2>2. ASSUME NEW p \in Processes
        PROVE  Session(p)
    <3>1. main[p] = "off" /\ down[p] = [k \in Calls |-> NotCalled]
      BY DEF Init
    <3>2. "off" \notin Driving /\ \A k \in Calls : down[p][k].stage = "none"
      BY <3>1, Records DEF Driving
    <3>. QED
      BY <3>1, <3>2 DEF Session, Calls
  <2>. QED
    BY <2>1, <2>2 DEF Inv
<1>2. Inv /\ [Next]_vars => Inv'
  <2>. SUFFICES ASSUME Inv, [Next]_vars
                PROVE  Inv'
    OBVIOUS
  <2>. TypeOK /\ \A p \in Processes : Session(p)
    BY DEF Inv
  <2>1. CASE UNCHANGED vars
    BY <2>1 DEF vars, Inv, TypeOK, Session, Owns
  <2>2. ASSUME NEW p \in Processes, Start(p)
        PROVE  Inv'
    <3>1. PICK place \in {"check", "build"} : Goto(p, place)
      BY <2>2 DEF Start
    <3>2. /\ main' \in [Processes -> Places]
          /\ \A q \in Processes \ {p} : main'[q] = main[q]
          /\ main'[p] = place
      BY <3>1 DEF Goto, TypeOK, Places
    <3>3. /\ runtime' \in [Processes -> [acquired : BOOLEAN, loaded : 0 .. NumRobots,
                                         started : BOOLEAN]]
          /\ \A q \in Processes \ {p} : runtime'[q] = runtime[q]
          /\ why' \in [Processes -> Reasons]
          /\ UNCHANGED <<down, project, holder>>
      BY <2>2, Records DEF Start, Because, TypeOK, Reasons, world
    <3>4. phase' \in [Services -> Phases] /\ failed' \in [Services -> BOOLEAN]
      BY <2>2, ShowType DEF Start, Phases
    <3>5. \A k \in Calls : down[p][k].stage = "none"
      BY <2>2, Records DEF Start
    <3>6. Session(p)'
      BY <3>2, <3>3, <3>5 DEF Session, Driving, Calls
    <3>7. TypeOK'
      BY <3>2, <3>3, <3>4 DEF TypeOK
    <3>. QED
      BY <3>2, <3>3, <3>6, <3>7, Step
  <2>3. ASSUME NEW p \in Processes, Preflight(p) \/ PreflightFails(p)
        PROVE  Inv'
    <3>1. PICK place \in {"nap", "build"}, name \in Phases, error \in BOOLEAN :
             Goto(p, place) /\ Show(p, name, error)
      BY <2>3 DEF Preflight, PreflightFails, Phases
    <3>2. phase' \in [Services -> Phases] /\ failed' \in [Services -> BOOLEAN]
      BY <3>1, ShowType
    <3>3. /\ main[p] = "check" /\ why' \in [Processes -> Reasons]
          /\ UNCHANGED <<down, runtime, project, holder>>
      BY <2>3 DEF Preflight, PreflightFails, world, TypeOK
    <3>4. \A k \in Calls : down[p][k].stage = "none"
      BY <3>3 DEF Session
    <3>. QED
      BY <3>1, <3>2, <3>3, <3>4, MainStep DEF Places, Driving, Calls
  <2>4. ASSUME NEW p \in Processes, Retry(p) \/ Pause(p) \/ Connected(p)
        PROVE  Inv'
    <3>1. PICK place \in {"check", "tick", "connect"} :
             /\ Goto(p, place)
             /\ place \in {"tick", "connect"} => main[p] \in Driving
      BY <2>4 DEF Retry, Pause, Connected, Driving
    <3>2. /\ main[p] \in {"nap", "pause", "connecting"}
          /\ why' \in [Processes -> Reasons]
          /\ phase' \in [Services -> Phases] /\ failed' \in [Services -> BOOLEAN]
          /\ UNCHANGED <<down, runtime, project, holder>>
      BY <2>4 DEF Retry, Pause, Connected, world, shown, TypeOK
    <3>3. \A k \in Calls : down[p][k].stage = "none"
      BY <3>2 DEF Session
    <3>4. place \in Driving => Owns(p)
      BY <3>1 DEF Session, Driving
    <3>. QED
      BY <3>1, <3>2, <3>3, <3>4, MainStep DEF Places, Calls
  <2>5. ASSUME NEW p \in Processes, Acquire(p)
        PROVE  Inv'
    <3>1. CASE project = "ready" /\ holder = NoProcess
      <4>1. /\ main[p] = "build" /\ Goto(p, "connect") /\ holder' = p
            /\ runtime' = [runtime EXCEPT ![p].acquired = TRUE]
            /\ UNCHANGED <<why, down, project, phase, failed>>
        BY <2>5, <3>1 DEF Acquire, shown
      <4>2. /\ main' \in [Processes -> Places]
            /\ \A q \in Processes \ {p} : main'[q] = main[q]
            /\ main'[p] = "connect"
        BY <4>1 DEF Goto, TypeOK, Places
      <4>3. /\ runtime' \in [Processes -> [acquired : BOOLEAN, loaded : 0 .. NumRobots,
                                           started : BOOLEAN]]
            /\ \A q \in Processes \ {p} : runtime'[q] = runtime[q]
            /\ runtime'[p].acquired
        BY <4>1 DEF TypeOK
      <4>4. \A k \in Calls : down[p][k].stage = "none"
        BY <4>1 DEF Session
      <4>5. Session(p)'
        BY <4>1, <4>2, <4>3, <4>4 DEF Session, Owns, Calls
      <4>6. TypeOK'
        BY <4>1, <4>2, <4>3 DEF TypeOK
      <4>. QED
        BY <3>1, <4>1, <4>2, <4>3, <4>5, <4>6, Step
    <3>2. CASE ~(project = "ready" /\ holder = NoProcess)
      <4>1. PICK reason \in {"beaten", "error"} : Leave(p, reason) /\ Report(p, reason)
        BY <2>5, <3>2 DEF Acquire
      <4>2. UNCHANGED <<runtime, project, holder>>
        BY <2>5, <3>2 DEF Acquire
      <4>3. phase' \in [Services -> Phases] /\ failed' \in [Services -> BOOLEAN]
        BY <4>1, ReportType
      <4>4. reason \in Reasons
        BY DEF Reasons
      <4>5. Leave(p, reason)
        BY <4>1
      <4>. QED
        BY <4>2, <4>3, <4>4, <4>5, LeaveStep
    <3>. QED
      BY <3>1, <3>2
  <2>6. ASSUME NEW p \in Processes, Connect(p) \/ Started(p)
        PROVE  Inv'
    <3>1. PICK place \in {"connecting", "survey", "tick"} : Goto(p, place)
      BY <2>6 DEF Connect, Started
    <3>2. /\ main[p] \in {"connect", "survey"} /\ Owns(p)
          /\ UNCHANGED <<why, down, project, holder>>
      BY <2>6 DEF Connect, Started, world
    <3>3. phase' \in [Services -> Phases] /\ failed' \in [Services -> BOOLEAN]
      BY <2>6, ShowType DEF Connect, Started, shown, Phases, TypeOK
    <3>4. /\ runtime' \in [Processes -> [acquired : BOOLEAN, loaded : 0 .. NumRobots,
                                         started : BOOLEAN]]
          /\ \A q \in Processes \ {p} : runtime'[q] = runtime[q]
          /\ runtime'[p].acquired = runtime[p].acquired
      <4>1. CASE Connect(p)
        <5>1. runtime[p].loaded \in 0 .. NumRobots
          BY DEF TypeOK
        <5>2. \/ runtime' = runtime
              \/ /\ runtime' = [runtime EXCEPT ![p].loaded = @ + 1]
                 /\ runtime[p].loaded + 1 \in 0 .. NumRobots
          BY <4>1, <5>1, Records DEF Connect
        <5>. QED
          BY <5>2 DEF TypeOK
      <4>2. CASE Started(p)
        BY <4>2 DEF Started, TypeOK
      <4>. QED
        BY <2>6, <4>1, <4>2
    <3>5. /\ main' \in [Processes -> Places]
          /\ \A q \in Processes \ {p} : main'[q] = main[q]
          /\ main'[p] = place
      BY <3>1 DEF Goto, TypeOK, Places
    <3>6. \A k \in Calls : down[p][k].stage = "none"
      BY <3>2 DEF Session
    <3>7. Session(p)'
      BY <3>2, <3>4, <3>5, <3>6 DEF Session, Owns, Calls
    <3>8. TypeOK'
      BY <3>2, <3>3, <3>4, <3>5 DEF TypeOK
    <3>. QED
      BY <3>2, <3>4, <3>5, <3>7, <3>8, Step
  <2>7. ASSUME NEW p \in Processes,
               \/ SetupFails(p) \/ StopSetup(p) \/ StopCleanup(p) \/ StopTicking(p)
               \/ SetupRaises(p) \/ TickFatal(p)
        PROVE  Inv'
    <3>1. PICK reason \in Reasons :
             Leave(p, reason) \/ (Undo(p, reason) /\ main[p] \in {"connect", "connecting", "survey"})
      <4>. {"driver", "fatal", "error", "cancelled"} \subseteq Reasons
        BY DEF Reasons
      <4>1. CASE SetupFails(p) \/ StopSetup(p)
        <5>1. PICK reason \in {"driver", "fatal", "cancelled"} : Undo(p, reason)
          BY <4>1 DEF SetupFails, StopSetup
        <5>. QED
          BY <4>1, <5>1 DEF SetupFails, StopSetup
      <4>2. CASE StopCleanup(p) \/ StopTicking(p) \/ TickFatal(p)
        <5>1. PICK reason \in {"fatal", "error", "cancelled"} : Leave(p, reason)
          <6>1. CASE TickFatal(p)
            <7>1. \E reason \in {"fatal", "error"} : Leave(p, reason)
              BY <6>1 DEF TickFatal
            <7>. QED
              BY <7>1
          <6>. QED
            BY <4>2, <6>1 DEF StopCleanup, StopTicking
        <5>. QED
          BY <5>1
      <4>3. CASE SetupRaises(p)
        BY <4>3 DEF SetupRaises, TypeOK
      <4>. QED
        BY <2>7, <4>1, <4>2, <4>3
    <3>2. /\ UNCHANGED <<runtime, project, holder>>
          /\ UNCHANGED shown \/ \E reason_2 \in Reasons : Report(p, reason_2)
      BY <2>7 DEF SetupFails, StopSetup, StopCleanup, StopTicking, SetupRaises, TickFatal,
         Reasons, TypeOK, world
    <3>3. phase' \in [Services -> Phases] /\ failed' \in [Services -> BOOLEAN]
      BY <3>2, ReportType DEF shown, TypeOK
    <3>4. main[p] \in {"connect", "connecting", "survey"} => down[p]["final"].stage = "none"
      BY DEF Session, Calls
    <3>. QED
      BY <3>1, <3>2, <3>3, <3>4, LeaveStep
  <2>8. ASSUME NEW p \in Processes, Tick(p)
        PROVE  Inv'
    <3>1. PICK name \in {"active", "degraded"}, error \in BOOLEAN : Show(p, name, error)
      BY <2>8 DEF Tick
    <3>2. phase' \in [Services -> Phases] /\ failed' \in [Services -> BOOLEAN]
      BY <3>1, ShowType DEF Phases
    <3>3. /\ main[p] = "tick" /\ Goto(p, "pause") /\ Owns(p)
          /\ why' \in [Processes -> Reasons]
          /\ UNCHANGED <<down, runtime, project, holder>>
      BY <2>8 DEF Tick, world, TypeOK
    <3>4. \A k \in Calls : down[p][k].stage = "none"
      BY <3>3 DEF Session
    <3>. QED
      BY <3>2, <3>3, <3>4, MainStep DEF Places, Calls
  <2>9. ASSUME NEW p \in Processes, Ended(p) \/ StopIdle(p)
        PROVE  Inv'
    <3>1. PICK place \in {"off", "done"} : Goto(p, place)
      BY <2>9 DEF Ended, StopIdle
    <3>2. why' \in [Processes -> Reasons] /\ UNCHANGED <<down, runtime, project, holder>>
      BY <2>9 DEF Ended, StopIdle, Because, world, TypeOK, Reasons
    <3>3. phase' \in [Services -> Phases] /\ failed' \in [Services -> BOOLEAN]
      <4>1. UNCHANGED shown \/ Show(p, "stopped", p \in Services /\ failed[p])
        BY <2>9 DEF Ended, StopIdle
      <4>2. (p \in Services /\ failed[p]) \in BOOLEAN /\ "stopped" \in Phases
        BY DEF TypeOK, Phases
      <4>. QED
        BY <4>1, <4>2, ShowType DEF shown, TypeOK
    <3>4. down[p]["final"].stage = "none"
      BY <2>9, Records DEF Ended, StopIdle, Session
    <3>. QED
      BY <3>1, <3>2, <3>3, <3>4, MainStep DEF Places, Driving
  <2>10. ASSUME NEW p \in Processes, NEW k \in Calls,
                Begin(p, k) \/ CallReturns(p, k), ~Finish(p, k)
         PROVE  Inv'
    <3>1. runtime[p].loaded \in 0 .. NumRobots /\ down[p][k].robot \in 0 .. NumRobots
      BY DEF TypeOK
    <3>2. PICK stage \in Stages, robot \in 0 .. NumRobots :
            /\ Call(p, k, stage, robot)
            /\ stage # "none" => runtime[p].loaded = 0 \/ robot <= runtime[p].loaded
      <4>1. CASE Begin(p, k)
        <5>1. CASE Call(p, k, "none", 0)
          BY <5>1, Records DEF Stages
        <5>2. CASE /\ runtime[p].loaded > 0
                   /\ Call(p, k, IF Owns(p) /\ HaltOnShutdown THEN "halt" ELSE "disconnect", 1)
          <6>1. 1 \in 0 .. NumRobots /\ 1 <= runtime[p].loaded
            BY <3>1, <5>2, Records
          <6>. QED
            BY <5>2, <6>1 DEF Stages
        <5>. QED
          BY <2>10, <4>1, <5>1, <5>2 DEF Begin
      <4>2. CASE CallReturns(p, k)
        <5>1. /\ down[p][k].stage \in {"halt", "disconnect"} /\ runtime[p].loaded > 0
              /\ down[p][k].robot <= runtime[p].loaded
          BY <4>2 DEF CallReturns, Session
        <5>2. CASE /\ down[p][k].robot # runtime[p].loaded
                   /\ Call(p, k, down[p][k].stage, down[p][k].robot + 1)
          <6>1. /\ down[p][k].robot + 1 \in 0 .. NumRobots
                /\ down[p][k].robot + 1 <= runtime[p].loaded
            BY <3>1, <5>1, <5>2, Records
          <6>. QED
            BY <5>1, <5>2, <6>1 DEF Stages
        <5>3. CASE Call(p, k, "disconnect", 1)
          <6>1. 1 \in 0 .. NumRobots /\ 1 <= runtime[p].loaded
            BY <3>1, <5>1, Records
          <6>. QED
            BY <5>3, <6>1 DEF Stages
        <5>. QED
          BY <2>10, <4>2, <5>2, <5>3 DEF CallReturns
      <4>. QED
        BY <2>10, <4>1, <4>2
    <3>3. /\ down[p][k].stage # "none"
          /\ UNCHANGED <<main, why, runtime, project, holder>>
          /\ phase' \in [Services -> Phases] /\ failed' \in [Services -> BOOLEAN]
      BY <2>10 DEF Begin, CallReturns, shown, TypeOK
    <3>. QED
      BY <3>2, <3>3, CallStep
  <2>11. ASSUME NEW p \in Processes, NEW k \in Calls, BeginFails(p, k)
         PROVE  Inv'
    <3>1. phase' \in [Services -> Phases] /\ failed' \in [Services -> BOOLEAN]
      BY <2>11, ShowType DEF BeginFails, Raises, shown, TypeOK, Phases
    <3>2. "none" \in Stages /\ 0 \in 0 .. NumRobots
      BY Records DEF Stages
    <3>. QED
      BY <2>11, <3>1, <3>2, CallStep DEF BeginFails
  <2>12. ASSUME NEW p \in Processes, NEW k \in Calls, Finish(p, k),
                \/ Begin(p, k) \/ CallReturns(p, k) \/ CallReturnsToNone(p, k) \/ Abandon(p, k)
         PROVE  Inv'
    <3>1. phase' \in [Services -> Phases] /\ failed' \in [Services -> BOOLEAN]
      BY <2>12, ShowType DEF Begin, CallReturns, CallReturnsToNone, Abandon, Raises, shown,
         TypeOK, Phases
    <3>2. /\ down[p][k].stage # "none" /\ why' \in [Processes -> Reasons]
          /\ UNCHANGED <<main, project>>
      BY <2>12 DEF Begin, CallReturns, CallReturnsToNone, Abandon, Because, TypeOK, Reasons
    <3>. QED
      BY <2>12, <3>1, <3>2, FinishStep
  <2>13. ASSUME NEW p \in Processes, Kill(p)
         PROVE  Inv'
    <3>1. /\ main' \in [Processes -> Places]
          /\ \A q \in Processes \ {p} : main'[q] = main[q]
          /\ main'[p] = "off"
      BY <2>13 DEF Kill, Goto, TypeOK, Places
    <3>2. /\ runtime' \in [Processes -> [acquired : BOOLEAN, loaded : 0 .. NumRobots,
                                         started : BOOLEAN]]
          /\ \A q \in Processes \ {p} : runtime'[q] = runtime[q]
          /\ why' \in [Processes -> Reasons]
          /\ UNCHANGED <<project, holder>>
      BY <2>13, Records DEF Kill, Because, TypeOK, Reasons, world
    <3>3. /\ down' \in [Processes -> [Calls -> [stage : Stages, robot : 0 .. NumRobots]]]
          /\ \A q \in Processes \ {p} : down'[q] = down[q]
          /\ \A k \in Calls : down'[p][k] = NotCalled
      BY <2>13, Records DEF Kill, TypeOK
    <3>4. phase' \in [Services -> Phases] /\ failed' \in [Services -> BOOLEAN]
      BY <2>13, ShowType DEF Kill, Phases
    <3>5. Session(p)'
      BY <3>1, <3>3, Records DEF Session, Driving, Calls
    <3>6. TypeOK'
      BY <3>1, <3>2, <3>3, <3>4 DEF TypeOK
    <3>. QED
      BY <3>1, <3>2, <3>3, <3>5, <3>6, Step
  <2>14. CASE LeaseExpires
    <3>1. /\ holder \in Processes /\ ~Keeps(holder) /\ holder' = NoProcess
          /\ UNCHANGED <<project, main, why, runtime, down, phase, failed>>
      BY <2>14 DEF LeaseExpires, TypeOK, shown
    <3>2. TypeOK'
      BY <3>1 DEF TypeOK
    <3>3. Session(holder) /\ main[holder] \notin Driving
      BY <3>1 DEF Keeps, Session
    <3>4. ASSUME NEW q \in Processes
          PROVE  Session(q)'
      BY <3>1, <3>3 DEF Session, Owns
    <3>. QED
      BY <3>2, <3>4 DEF Inv
  <2>15. CASE Edit
    <3>1. /\ project' \in {"absent", "invalid", "ready"}
          /\ UNCHANGED <<holder, main, why, runtime, down, phase, failed>>
      BY <2>15 DEF Edit, shown
    <3>. QED
      BY <3>1 DEF Inv, TypeOK, Session, Owns
  <2>. QED
    BY <2>1, <2>2, <2>3, <2>4, <2>5, <2>6, <2>7, <2>8, <2>9, <2>10, <2>11, <2>12, <2>13, <2>14,
       <2>15 DEF Next, Processes, MainOf, StopOf, ShutdownOf, CallReturnsToNone, Abandon
<1>. QED
  BY <1>1, <1>2, PTL DEF Spec

\* Type correctness alone.
COROLLARY TypesAreKept == Spec => []TypeOK
<1>1. Inv => TypeOK
  BY DEF Inv
<1>. QED
  BY <1>1, Sessions, PTL

\* At most one process drives, whatever is stopped, fails, dies or is restarted.
COROLLARY OneExecutorHolds == Spec => []OneExecutor
<1>1. Inv => OneExecutor
  BY DEF Inv, Session, Owns, OneExecutor
<1>. QED
  BY <1>1, Sessions, PTL

\* While a process drives, every API process says whether it is itself.
COROLLARY ModeTellsTruthHolds == Spec => []ModeTellsTruth
<1>1. Inv => ModeTellsTruth
  <2>. SUFFICES ASSUME Inv, NEW s \in Services, NEW q \in Processes,
                       project = "ready", main[q] \in Driving
                PROVE  Mode(s) = IF q = s THEN "embedded" ELSE "external"
    BY DEF ModeTellsTruth
  <2>1. Owns(q) /\ holder = q /\ holder # NoProcess
    BY WatchServiceAssumption DEF Inv, Session, Owns
  <2>2. Owns(s) => q = s
    BY <2>1 DEF Owns
  <2>3. q = s => main[s] \notin {"off", "done", "check", "nap"}
    BY DEF Driving
  <2>. QED
    BY <2>1, <2>2, <2>3 DEF Mode
<1>. QED
  BY <1>1, Sessions, PTL

-----------------------------------------------------------------------------
(* What the client is shown *)

\* What is shown of a service fits where its main task is; a main task that leaves by
\* itself has reported why.
Honest(s) ==
    /\ phase[s] = "active" => main[s] \in {"tick", "pause", "leave"} /\ ~failed[s]
    /\ phase[s] \in {"degraded", "fatal", "invalid_config"} => failed[s]
    /\ phase[s] = "standby" => main[s] \in Waiting /\ ~failed[s]
    /\ main[s] = "leave" /\ why[s] # "cancelled" => phase[s] # "active"

\* The steps of another process do not show.
LEMMA OthersDoNotShow ==
  ASSUME TypeOK, NEW s \in Services, Honest(s), NEW p \in Processes \ {s},
         \/ Start(p) \/ MainOf(p) \/ StopOf(p) \/ Kill(p) \/ PreflightFails(p)
         \/ \E k \in Calls : ShutdownOf(p, k) \/ Abandon(p, k)
  PROVE  Honest(s)'
<1>. s \in Processes
  BY DEF Processes
<1>1. UNCHANGED <<main[s], why[s], phase[s], failed[s]>>
  <2>. USE DEF TypeOK, Goto, Because, Show, Report, Leave, Undo, shown
  <2>1. CASE Start(p) \/ Kill(p) \/ PreflightFails(p)
    BY <2>1 DEF Start, Kill, PreflightFails
  <2>2. CASE MainOf(p)
    BY <2>2 DEF MainOf, Preflight, Retry, Acquire, Connect, Connected, Started, SetupFails, SetupRaises, Tick,
       Pause, TickFatal, Ended
  <2>3. CASE StopOf(p)
    BY <2>3 DEF StopOf, StopIdle, StopSetup, StopCleanup, StopTicking
  <2>4. ASSUME NEW k \in Calls, ShutdownOf(p, k) \/ Abandon(p, k)
        PROVE  UNCHANGED <<main[s], why[s], phase[s], failed[s]>>
    BY <2>4 DEF ShutdownOf, Begin, BeginFails, CallReturns, CallReturnsToNone, Abandon, Raises
  <2>. QED
    BY <2>1, <2>2, <2>3, <2>4
<1>. QED
  BY <1>1 DEF Honest

\* A service's own steps show what they do.
LEMMA OwnStepsShow ==
  ASSUME TypeOK, NEW s \in Services, Honest(s),
         \/ Start(s) \/ MainOf(s) \/ StopOf(s) \/ Kill(s) \/ PreflightFails(s)
         \/ \E k \in Calls : ShutdownOf(s, k) \/ Abandon(s, k)
  PROVE  Honest(s)'
<1>. s \in Processes
  BY DEF Processes
<1>. USE DEF TypeOK, Goto, Because, Show, Honest, Waiting
<1>1. CASE Start(s) \/ Kill(s) \/ PreflightFails(s) \/ Preflight(s) \/ Retry(s)
  BY <1>1 DEF Start, Kill, PreflightFails, Preflight, Retry, shown
<1>2. CASE Acquire(s)
  BY <1>2 DEF Acquire, Leave, Report, shown
<1>3. CASE Connect(s) \/ Connected(s) \/ Started(s)
  BY <1>3 DEF Connect, Connected, Started, shown
<1>4. CASE SetupFails(s) \/ SetupRaises(s) \/ TickFatal(s)
  BY <1>4 DEF SetupFails, SetupRaises, TickFatal, Undo, Leave, Report, shown
<1>5. CASE Tick(s) \/ Pause(s) \/ Ended(s)
  BY <1>5 DEF Tick, Pause, Ended, shown
<1>6. CASE StopOf(s)
  BY <1>6 DEF StopOf, StopIdle, StopSetup, StopCleanup, StopTicking, Undo, Leave, shown
<1>7. ASSUME NEW k \in Calls, ShutdownOf(s, k) \/ Abandon(s, k)
      PROVE  Honest(s)'
  BY <1>7 DEF ShutdownOf, Begin, BeginFails, CallReturns, CallReturnsToNone, Abandon, Raises, shown
<1>. QED
  BY <1>1, <1>2, <1>3, <1>4, <1>5, <1>6, <1>7 DEF MainOf

\* For any number of services, through stops, restarts, deaths and failing shutdowns: a
\* service shown as active has a runtime and no error, one shown as degraded, fatal or
\* misconfigured has an error to show, and one that stands by waits.
THEOREM PhaseTellsTruthHolds == Spec => []PhaseTellsTruth
<1>. DEFINE AllHonest == \A s \in Services : Honest(s)
<1>1. Init => AllHonest
  BY DEF Init, Honest, Processes
<1>2. Inv /\ AllHonest /\ [Next]_vars => AllHonest'
  <2>. SUFFICES ASSUME Inv, AllHonest, [Next]_vars, NEW s \in Services
                PROVE  Honest(s)'
    OBVIOUS
  <2>1. TypeOK /\ Honest(s)
    BY DEF Inv
  <2>2. CASE UNCHANGED vars \/ LeaseExpires \/ Edit
    BY <2>1, <2>2 DEF vars, LeaseExpires, Edit, shown, Honest
  <2>3. ASSUME NEW p \in Processes,
               \/ Start(p) \/ MainOf(p) \/ StopOf(p) \/ Kill(p) \/ PreflightFails(p)
               \/ \E k \in Calls : ShutdownOf(p, k) \/ Abandon(p, k)
        PROVE  Honest(s)'
    BY <2>1, <2>3, OwnStepsShow, OthersDoNotShow
  <2>. QED
    BY <2>2, <2>3 DEF Next, Processes
<1>3. AllHonest => PhaseTellsTruth
  BY DEF Honest, PhaseTellsTruth
<1>. QED
  BY <1>1, <1>2, <1>3, Sessions, PTL DEF Spec
=============================================================================
