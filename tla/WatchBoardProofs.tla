--------------------------- MODULE WatchBoardProofs ---------------------------
(***************************************************************************)
(* Theorems about WatchBoard, for every number of actions, robots,         *)
(* sessions and policies: first who holds what, then what becomes of an    *)
(* action.  Its outcome is final but for one hole, its robot has one claim, *)
(* it runs after its dependencies, and WatchBoard implements ActionPromise. *)
(***************************************************************************)
EXTENDS WatchBoard, FiniteSetTheorems, TLAPS

Holding == {"unhook", "policy", "drift", "batch", "gate", "executed", "events", "admit",
            "record", "arm", "fire", "run", "halt", "stopping", "settle", "mark"}
Deciding == {"executed", "events", "admit", "record"}
Settling == {"halt", "stopping", "settle", "mark"}

\* What a session's locals are worth at each point of the step.
LocalsOK(w) ==
    /\ pc[w] \in Holding => act[w] \in Actions
    /\ pc[w] \in Deciding => verdict[w] \in {"allow", "cancelled"}
    /\ pc[w] \in {"arm", "fire", "run"} => verdict[w] = "allow"
    /\ pc[w] \in Settling => verdict[w] \in Terminal
    /\ pc[w] = "claim" => ctx[w].left > 0

TypeInv == TypeOK /\ \A w \in Watches : LocalsOK(w)

-----------------------------------------------------------------------------
(* Lemmas on the pieces of the actions *)

\* The locals of a session outside a step are of the right kind.
LEMMA NoContextType == NoContext \in Contexts /\ NoContext.copy \in [Actions -> ApprovalStatuses]
  BY DEF NoContext, Contexts, ApprovalStatuses

\* Claiming changes two fields of the locals, and keeps them well-formed.
LEMMA ClaimContext ==
  ASSUME NEW c \in Contexts, NEW n \in Nat, NEW s \in ApprovalStatuses
  PROVE  [c EXCEPT !.left = n, !.claimed = s] \in Contexts
  BY DEF Contexts

\* The number of pending actions, which bounds the loop of a step, is a number.
LEMMA ActionsCount ==
  ASSUME NEW S \in SUBSET Actions
  PROVE  Cardinality(S) \in Nat
<1>1. NumActions \in Nat
  BY WatchBoardAssumption
<1>2. IsFiniteSet(Actions)
  BY <1>1, FS_Interval DEF Actions
<1>. QED
  BY <1>2, FS_Subset, FS_CardinalityType

\* A session that leaves its step, for whatever reason, leaves no local behind.
LEMMA LeaveType ==
  ASSUME TypeInv, NEW w \in Watches,
         NEW where \in {"idle", "closing", "gone"}, Leave(w, where)
  PROVE  /\ pc' \in [Watches -> PCs]
         /\ act' \in [Watches -> Actions \union {0}]
         /\ verdict' \in [Watches -> Verdicts]
         /\ ctx' \in [Watches -> Contexts]
         /\ \A v \in Watches : LocalsOK(v)'
<1>. USE DEF Leave, TypeInv, TypeOK, PCs, InStep
<1>1. pc' \in [Watches -> PCs]
  OBVIOUS
<1>2. act' \in [Watches -> Actions \union {0}] /\ verdict' \in [Watches -> Verdicts]
  BY DEF Verdicts
<1>3. ctx' \in [Watches -> Contexts]
  BY NoContextType
<1>4. \A v \in Watches : LocalsOK(v)'
  BY DEF LocalsOK, Holding, Deciding, Settling
<1>. QED
  BY <1>1, <1>2, <1>3, <1>4

\* What a session reads of the board it keeps in locals of the right kind.
LEMMA ReadingType ==
  ASSUME TypeInv, NEW w \in Watches, ~Leave(w, "idle"),
         ReadPending(w) \/ ReadFound(w) \/ ReadCancelled(w) \/ ReadBaseline(w)
  PROVE  \E at \in PCs \ (Holding \union Deciding \union Settling), c \in Contexts :
           /\ at \notin {"arm", "fire", "run", "claim"}
           /\ pc' = [pc EXCEPT ![w] = at]
           /\ ctx' = [ctx EXCEPT ![w] = c]
<1>. USE DEF TypeInv, TypeOK
<1>0. /\ ctx[w] \in Contexts
      /\ {"claims", "completions", "cancellations", "baseline", "reap"} \subseteq
           PCs \ (Holding \union Deciding \union Settling \union {"arm", "fire", "run", "claim"})
  BY DEF PCs, InStep, Holding, Deciding, Settling
<1>1. CASE ReadPending(w)
  <2>. DEFINE pending == WithStatus("pending")
              behind == {a \in pending : DependsOn[a] # {}}
              go == IF pc[w] = "scan" THEN "loop" ELSE "idle"
              mis == (UNION {DependsOn[a] : a \in behind}) \ pending
              cop == [a \in Actions |-> IF a \in behind THEN approval[a] ELSE "not_required"]
              c == [ctx[w] EXCEPT !.reap = behind, !.missing = mis, !.copy = cop, !.after = go]
  <2>1. behind \in SUBSET Actions /\ mis \in SUBSET Actions
    BY WatchBoardAssumption DEF WithStatus
  <2>2. cop \in [Actions -> ApprovalStatuses] /\ go \in {"loop", "idle"}
    BY DEF ApprovalStatuses
  <2>3. pc' = [pc EXCEPT ![w] = "claims"] /\ ctx' = [ctx EXCEPT ![w] = c]
    BY <1>1 DEF ReadPending
  <2>. HIDE DEF behind, mis, cop, go
  <2>4. c \in Contexts
    BY <1>0, <2>1, <2>2 DEF Contexts
  <2>. QED
    BY <1>0, <2>3, <2>4
<1>2. CASE ReadFound(w)
  <2>1. PICK at \in {"completions", "cancellations"}, found \in SUBSET Actions :
          pc' = [pc EXCEPT ![w] = at] /\ ctx' = [ctx EXCEPT ![w].missing = @ \ found]
    BY <1>2 DEF ReadFound, WithStatus
  <2>2. [ctx[w] EXCEPT !.missing = @ \ found] \in Contexts
    BY <1>0 DEF Contexts
  <2>. QED
    BY <1>0, <2>1, <2>2
<1>3. CASE ReadCancelled(w)
  <2>. DEFINE X == Impossible(ctx[w].reap, ctx[w].missing, WithStatus("cancelled"))
              cop == [a \in Actions |-> IF a \in X THEN ctx[w].copy[a] ELSE "not_required"]
              c == [ctx[w] EXCEPT !.reap = X, !.missing = {}, !.copy = cop]
  <2>1. X \in SUBSET Actions
    BY <1>0 DEF Impossible, Contexts
  <2>2. cop \in [Actions -> ApprovalStatuses]
    BY <1>0 DEF ApprovalStatuses, Contexts
  <2>3. PICK at \in {"baseline", "reap"} : pc' = [pc EXCEPT ![w] = at]
    BY <1>3 DEF ReadCancelled
  <2>4. ctx' = [ctx EXCEPT ![w] = c]
    BY <1>3 DEF ReadCancelled
  <2>. HIDE DEF X, cop
  <2>5. c \in Contexts
    BY <1>0, <2>1, <2>2 DEF Contexts
  <2>. QED
    BY <1>0, <2>3, <2>4, <2>5
<1>4. CASE ReadBaseline(w)
  <2>1. [ctx[w] EXCEPT !.base = policy] \in Contexts
    BY <1>0 DEF Contexts
  <2>2. pc' = [pc EXCEPT ![w] = "reap"] /\ ctx' = [ctx EXCEPT ![w].base = policy]
    BY <1>4 DEF ReadBaseline
  <2>. QED
    BY <1>0, <2>1, <2>2
<1>. QED
  BY <1>1, <1>2, <1>3, <1>4

\* Type correctness, strengthened by what the locals are worth: a session holds an
\* action wherever the step reads one, calls a driver only on the verdict "allow",
\* and finalizes only with a terminal status.
THEOREM Typing == Spec => []TypeInv
<1>1. Init => TypeInv
  <2>. SUFFICES ASSUME Init
                PROVE  TypeInv
    OBVIOUS
  <2>1. edits \in 0 .. MaxEdits /\ faults \in 0 .. MaxFaults
    BY WatchBoardAssumption DEF Init
  <2>2. ctx \in [Watches -> Contexts]
    BY NoContextType DEF Init
  <2>3. TypeOK
    BY <2>1, <2>2 DEF Init, TypeOK, Statuses, ApprovalStatuses, PCs, Verdicts
  <2>. QED
    BY <2>3 DEF Init, TypeInv, LocalsOK, Holding, Deciding, Settling
<1>2. TypeInv /\ [Next]_vars => TypeInv'
  <2>. SUFFICES ASSUME TypeInv, [Next]_vars
                PROVE  TypeInv'
    OBVIOUS
  <2>. USE DEF TypeInv, TypeOK
  <2>1. CASE UNCHANGED vars
    BY <2>1 DEF vars, LocalsOK
  <2>2. ASSUME NEW p \in Proposals, Submit(p)
        PROVE  TypeInv'
    BY <2>2 DEF Submit, leaseVars, world, session, LocalsOK, Statuses, ApprovalStatuses
  <2>3. ASSUME NEW a \in Actions, Approve(a) \/ Reject(a) \/ ClaimAges(a)
        PROVE  TypeInv'
    BY <2>3 DEF Approve, Reject, ClaimAges, Refreshed, leaseVars, world, session, LocalsOK,
       Statuses, Terminal, ApprovalStatuses, Decisions
  <2>4. ASSUME NEW p \in Policies \union {Malformed}, EditPolicy(p)
        PROVE  TypeInv'
    BY <2>4, WatchBoardAssumption DEF EditPolicy, board, leaseVars, session, LocalsOK
  <2>5. CASE LeaseExpires
    BY <2>5 DEF LeaseExpires, board, world, session, LocalsOK
  <2>6. ASSUME NEW w \in Watches, Setup(w)
        PROVE  TypeInv'
    <3>1. PICK at \in {"gone", "connect"} : pc' = [pc EXCEPT ![w] = at]
      BY <2>6 DEF Setup
    <3>2. lease' \in Watches \union {NoWatch} /\ live' \in BOOLEAN
      BY <2>6 DEF Setup, leaseVars
    <3>3. pc' \in [Watches -> PCs]
      BY <3>1 DEF PCs
    <3>4. UNCHANGED <<status, owner, aged, approval, history, policy, edits, faults, act, verdict, ctx, ran>>
      BY <2>6 DEF Setup, board, world
    <3>5. \A v \in Watches : LocalsOK(v)'
      BY <3>1, <3>4 DEF LocalsOK, Holding, Deciding, Settling
    <3>. QED
      BY <3>2, <3>3, <3>4, <3>5
  <2>7. ASSUME NEW w \in Watches, BeginStep(w) \/ RequireLease(w)
        PROVE  TypeInv'
    <3>1. CASE Owns(w)
      BY <2>7, <3>1 DEF BeginStep, RequireLease, Goto, Guarded, board, leaseVars, world,
         LocalsOK, PCs, InStep, Holding, Deciding, Settling
    <3>2. CASE ~Owns(w)
      BY <2>7, <3>2, LeaveType DEF BeginStep, RequireLease, board, leaseVars, world
    <3>. QED
      BY <3>1, <3>2
  <2>8. ASSUME NEW w \in Watches, RecoverStale(w)
        PROVE  TypeInv'
    BY <2>8 DEF RecoverStale, RecoveredStatus, RecoveredOwner, Goto, leaseVars, world,
       LocalsOK, PCs, InStep, Holding, Deciding, Settling, Statuses
  <2>9. ASSUME NEW w \in Watches, ReadPending(w) \/ ReadFound(w) \/ ReadCancelled(w) \/ ReadBaseline(w)
        PROVE  TypeInv'
    <3>1. CASE Leave(w, "idle")
      BY <2>9, <3>1, LeaveType DEF ReadPending, ReadFound, ReadCancelled, ReadBaseline, board, leaseVars,
         world
    <3>2. CASE ~Leave(w, "idle")
      <4>1. PICK at \in PCs \ (Holding \union Deciding \union Settling), c \in Contexts :
              /\ at \notin {"arm", "fire", "run", "claim"}
              /\ pc' = [pc EXCEPT ![w] = at]
              /\ ctx' = [ctx EXCEPT ![w] = c]
        BY <2>9, <3>2, ReadingType
      <4>2. UNCHANGED <<status, owner, aged, approval, history, lease, live, policy, edits, faults, act,
                        verdict, ran>>
        BY <2>9, <3>2 DEF ReadPending, ReadFound, ReadCancelled, ReadBaseline, board, leaseVars, world
      <4>3. ctx' \in [Watches -> Contexts] /\ pc' \in [Watches -> PCs]
        BY <4>1
      <4>4. \A v \in Watches : LocalsOK(v)'
        <5>. SUFFICES ASSUME NEW v \in Watches
                      PROVE  LocalsOK(v)'
          OBVIOUS
        <5>1. v # w => ctx'[v] = ctx[v] /\ pc'[v] = pc[v]
          BY <4>1
        <5>. QED
          BY <4>1, <4>2, <5>1 DEF LocalsOK, Holding, Deciding, Settling
      <4>. QED
        BY <4>2, <4>3, <4>4
    <3>. QED
      BY <3>1, <3>2
  <2>10. ASSUME NEW w \in Watches, RecordImpossible(w)
         PROVE  TypeInv'
    <3>1. ctx[w].reap \subseteq Actions
      BY DEF Contexts
    <3>. QED
      BY <2>10, <3>1 DEF RecordImpossible, board, leaseVars, world, LocalsOK, PCs, InStep,
         Holding, Deciding, Settling
  <2>11. ASSUME NEW w \in Watches, CancelImpossible(w)
         PROVE  TypeInv'
    <3>1. CASE policy = Malformed
      BY <2>11, <3>1, LeaveType DEF CancelImpossible, board, leaseVars, world
    <3>2. CASE policy # Malformed
      <4>3. [ctx[w] EXCEPT !.reap = @ \ {act[w]}] \in Contexts
        BY DEF Contexts
      <4>1. ctx' \in [Watches -> Contexts]
        BY <2>11, <3>2, <4>3 DEF CancelImpossible
      <4>2. approval' \in [Actions -> ApprovalStatuses]
        BY <2>11, <3>2 DEF CancelImpossible, ApprovalStatuses, Decisions
      <4>. QED
        BY <2>11, <3>2, <4>1, <4>2 DEF CancelImpossible, leaseVars, world, LocalsOK, PCs,
           InStep, Holding, Deciding, Settling, Statuses, Terminal
    <3>. QED
      BY <3>1, <3>2
  <2>12. ASSUME NEW w \in Watches, EndReap(w)
         PROVE  TypeInv'
    <3>1. CASE ctx[w].after = "idle" \/ policy = Malformed
      BY <2>12, <3>1, LeaveType DEF EndReap, board, leaseVars, world
    <3>2. CASE ~(ctx[w].after = "idle" \/ policy = Malformed)
      <4>1. Cardinality(WithStatus("pending")) \in Nat
        BY ActionsCount DEF WithStatus
      <4>3. [ctx[w] EXCEPT !.left = Cardinality(WithStatus("pending")),
                           !.copy = NoContext.copy] \in Contexts
        BY <4>1, NoContextType DEF Contexts
      <4>2. ctx' \in [Watches -> Contexts]
        BY <2>12, <3>2, <4>3 DEF EndReap
      <4>. QED
        BY <2>12, <3>2, <4>2 DEF EndReap, board, leaseVars, world, LocalsOK, PCs, InStep,
           Holding, Deciding, Settling
    <3>. QED
      BY <3>1, <3>2
  <2>13. ASSUME NEW w \in Watches, EndLoop(w)
         PROVE  TypeInv'
    BY <2>13, NoContextType DEF EndLoop, Sweep, board, leaseVars, world, LocalsOK, PCs, InStep, Holding,
       Deciding, Settling
  <2>14. ASSUME NEW w \in Watches, Claim(w)
         PROVE  TypeInv'
    <3>. PICK blocked \in SUBSET BlockableRobots : Claim(w)!(blocked)
      BY <2>14 DEF Claim
    <3>1. approval' \in [Actions -> ApprovalStatuses]
      BY DEF Refreshed, ApprovalStatuses, Decisions
    <3>2. RecoveredStatus \in [Actions -> Statuses] /\ RecoveredOwner \in [Actions -> Watches \union {NoWatch}]
      BY DEF RecoveredStatus, RecoveredOwner, Statuses
    <3>3. CASE Sweep(w) /\ status' = RecoveredStatus /\ owner' = RecoveredOwner
      BY <3>1, <3>2, <3>3, NoContextType DEF Sweep, leaseVars, world, LocalsOK, PCs, InStep, Holding, Deciding,
         Settling
    <3>4. ASSUME NEW a \in Actions,
                 status' = [RecoveredStatus EXCEPT ![a] = "in_progress"],
                 owner' = [RecoveredOwner EXCEPT ![a] = w],
                 pc' = [pc EXCEPT ![w] = "policy"],
                 act' = [act EXCEPT ![w] = a],
                 verdict' = [verdict EXCEPT ![w] = "none"],
                 ctx' = [ctx EXCEPT ![w].left = @ - 1,
                                    ![w].claimed = Refreshed(a, ctx[w].base)]
          PROVE  TypeInv'
      <4>1. ctx[w].left - 1 \in Nat
        BY DEF LocalsOK, Contexts
      <4>2. Refreshed(a, ctx[w].base) \in ApprovalStatuses
        BY DEF Refreshed, ApprovalStatuses, Decisions
      <4>3. [ctx[w] EXCEPT !.left = @ - 1, !.claimed = Refreshed(a, ctx[w].base)] \in Contexts
        BY <4>1, <4>2, ClaimContext
      <4>4. ctx' \in [Watches -> Contexts]
        BY <3>4, <4>3
      <4>5. /\ status' \in [Actions -> Statuses]
            /\ owner' \in [Actions -> Watches \union {NoWatch}]
            /\ aged' \subseteq Actions
        BY <3>2, <3>4 DEF Statuses
      <4>6. /\ pc' \in [Watches -> PCs]
            /\ act' \in [Watches -> Actions \union {0}]
            /\ verdict' \in [Watches -> Verdicts]
        BY <3>4 DEF PCs, InStep, Verdicts
      <4>7. TypeOK'
        BY <3>1, <4>4, <4>5, <4>6 DEF leaseVars, world
      <4>8. \A v \in Watches : LocalsOK(v)'
        <5>1. ASSUME NEW v \in Watches, v # w
              PROVE  pc'[v] = pc[v] /\ act'[v] = act[v] /\ verdict'[v] = verdict[v] /\ ctx'[v] = ctx[v]
          BY <3>4, <5>1
        <5>2. pc'[w] = "policy" /\ act'[w] = a
          BY <3>4
        <5>. QED
          BY <5>1, <5>2 DEF LocalsOK, Holding, Deciding, Settling
      <4>. QED
        BY <4>7, <4>8
    <3>. QED
      BY <3>3, <3>4
  <2>15. ASSUME NEW w \in Watches, CheckPolicy(w)
         PROVE  TypeInv'
    BY <2>15 DEF CheckPolicy, Goto, board, leaseVars, world, LocalsOK, PCs, InStep, Holding,
       Deciding, Settling, Verdicts, Terminal
  <2>16. ASSUME NEW w \in Watches, CancelBatch(w)
         PROVE  TypeInv'
    <3>1. Leave(w, "idle") \/ Leave(w, "closing")
      BY <2>16 DEF CancelBatch
    <3>. QED
      BY <2>16, <3>1, LeaveType DEF CancelBatch, board, leaseVars, world, Statuses, Terminal
  <2>17. ASSUME NEW w \in Watches, Gate(w)
         PROVE  TypeInv'
    <3>1. CASE policy = Malformed
      BY <2>17, <3>1, LeaveType DEF Gate, board, leaseVars, world
    <3>2. CASE policy # Malformed
      BY <2>17, <3>2 DEF Gate, board, leaseVars, world, LocalsOK, PCs, InStep, Holding,
         Deciding, Settling, Verdicts, Terminal
    <3>. QED
      BY <3>1, <3>2
  <2>17a. ASSUME NEW w \in Watches, GateCancelled(w) \/ GateHistory(w)
         PROVE  TypeInv'
    BY <2>17a DEF GateCancelled, GateHistory, board, leaseVars, world, LocalsOK, PCs, InStep, Holding,
       Deciding, Settling, Verdicts, Terminal
  <2>18. ASSUME NEW w \in Watches, RecordDecision(w)
         PROVE  TypeInv'
    BY <2>18 DEF RecordDecision, Goto, board, leaseVars, world, LocalsOK, PCs, InStep, Holding,
       Deciding, Settling, Terminal
  <2>19. ASSUME NEW w \in Watches, StartExecute(w)
         PROVE  TypeInv'
    BY <2>19 DEF StartExecute, Goto, board, leaseVars, world, LocalsOK, PCs, InStep, Holding,
       Deciding, Settling
  <2>20. ASSUME NEW w \in Watches, FinishExecute(w) \/ HaltAfterTimeout(w)
         PROVE  TypeInv'
    BY <2>20 DEF FinishExecute, HaltAfterTimeout, Goto, board, leaseVars, world, LocalsOK, PCs,
       InStep, Holding, Deciding, Settling, Verdicts, Terminal
  <2>21. ASSUME NEW w \in Watches, Finalize(w)
         PROVE  TypeInv'
    <3>1. CASE HoldsClaim(w)
      <4>1. /\ ctx[w].claimed \in ApprovalStatuses
            /\ [ctx[w] EXCEPT !.claimed = NoContext.claimed] \in Contexts
        BY DEF Contexts, NoContext, ApprovalStatuses
      <4>. QED
        BY <2>21, <3>1, <4>1 DEF Finalize, leaseVars, world, LocalsOK, PCs, InStep, Holding,
           Deciding, Settling, Verdicts, Statuses
    <3>2. CASE ~HoldsClaim(w)
      BY <2>21, <3>2, LeaveType DEF Finalize, board, leaseVars, world
    <3>. QED
      BY <3>1, <3>2
  <2>22. ASSUME NEW w \in Watches, StepFails(w) \/ StopRequested(w) \/ Crash(w)
         PROVE  TypeInv'
    <3>1. faults' \in 0 .. MaxFaults
      BY <2>22, WatchBoardAssumption DEF StepFails, StopRequested, Crash
    <3>. QED
      BY <2>22, <3>1, LeaveType DEF StepFails, StopRequested, Crash, board, leaseVars, world
  <2>23. ASSUME NEW w \in Watches, Shutdown(w)
         PROVE  TypeInv'
    BY <2>23 DEF Shutdown, BeginShutdown, HaltDrivers, ReleaseLease, Goto, board, leaseVars,
       world, LocalsOK, PCs, InStep, Holding, Deciding, Settling
  <2>. QED
    BY <2>1, <2>2, <2>3, <2>4, <2>5, <2>6, <2>7, <2>8, <2>9, <2>10, <2>11, <2>12, <2>13,
       <2>14, <2>15, <2>16, <2>17, <2>17a, <2>18, <2>19, <2>20, <2>21, <2>22, <2>23
       DEF Next, StepOf
<1>. QED
  BY <1>1, <1>2, PTL DEF Spec

\* The type invariant that the runs check.
COROLLARY TypesAreKept == Spec => []TypeOK
<1>1. TypeInv => TypeOK
  BY DEF TypeInv
<1>. QED
  BY <1>1, Typing, PTL

-----------------------------------------------------------------------------
(* At most once *)

\* Sessions that have let an action pass the gate, and may still call for it.
Admitted(w) == pc[w] \in {"admit", "record", "arm"} /\ verdict[w] = "allow"

\* The decision is in the history before the call, and the gate denies what is
\* in the history.  Two sessions may both be past the gate for one action, but
\* only the one that still owns the lease gets to the call; a lost lease is not
\* regained, and when it changes hands the new owner has not passed the gate.
Once ==
    /\ \A a \in Actions : ran[a] <= 1 /\ (ran[a] > 0 => a \in history)
    /\ \A w \in Watches : pc[w] \in {"arm", "fire"} => act[w] \in history
    /\ \A w \in Watches : pc[w] = "fire" => ran[act[w]] = 0
    /\ \A v, w \in Watches :
         pc[v] = "fire" /\ pc[w] = "fire" /\ act[v] = act[w] => v = w
    /\ \A w \in Watches : Admitted(w) /\ Owns(w) =>
         /\ ran[act[w]] = 0
         /\ \A v \in Watches : pc[v] = "fire" => act[v] # act[w]

OnceInv == AllowsReplay = {} => Once

\* A session that is, or goes, where nothing has been admitted disturbs nobody.
LEMMA QuietStep ==
  ASSUME TypeInv, OnceInv, ran' = ran, history \subseteq history',
         NEW w \in Watches,
         pc'[w] \notin {"admit", "record", "arm", "fire"},
         \A v \in Watches \ {w} : /\ pc'[v] = pc[v]
                                 /\ act'[v] = act[v]
                                 /\ verdict'[v] = verdict[v],
         \A v \in Watches \ {w} : Owns(v)' => Owns(v)
  PROVE  OnceInv'
<1>. SUFFICES ASSUME AllowsReplay = {}
              PROVE  Once'
  BY DEF OnceInv, Once
<1>. Once
  BY DEF OnceInv
<1>1. \A a \in Actions : ran'[a] <= 1 /\ (ran'[a] > 0 => a \in history')
  BY DEF Once
<1>2. ASSUME NEW v \in Watches, pc'[v] \in {"arm", "fire"}
      PROVE  v # w /\ act'[v] \in history'
  BY <1>2 DEF Once
<1>3. ASSUME NEW v \in Watches, pc'[v] = "fire"
      PROVE  ran'[act'[v]] = 0
  BY <1>3 DEF Once
<1>4. ASSUME NEW u \in Watches, NEW v \in Watches,
             pc'[u] = "fire", pc'[v] = "fire", act'[u] = act'[v]
      PROVE  u = v
  BY <1>4 DEF Once
<1>5. ASSUME NEW v \in Watches, Admitted(v)', Owns(v)'
      PROVE  /\ ran'[act'[v]] = 0
             /\ \A u \in Watches : pc'[u] = "fire" => act'[u] # act'[v]
  <2>1. v # w /\ Admitted(v) /\ Owns(v) /\ act'[v] = act[v]
    BY <1>5 DEF Admitted
  <2>2. \A u \in Watches : pc'[u] = "fire" => u # w
    OBVIOUS
  <2>. QED
    BY <2>1, <2>2 DEF Once
<1>. QED
  BY <1>1, <1>2, <1>3, <1>4, <1>5 DEF Once

\* Unless some SAFETY.md allows replay, every call is recorded before it is made, and
\* whoever owns the lease past the gate is the first to call for its action.
THEOREM CallsAreFirst == Spec => []OnceInv
<1>1. Init => OnceInv
  BY DEF Init, OnceInv, Once, Admitted
<1>2. TypeInv /\ OnceInv /\ [Next]_vars => OnceInv'
  <2>. SUFFICES ASSUME TypeInv, OnceInv, [Next]_vars
                PROVE  OnceInv'
    OBVIOUS
  <2>1. CASE UNCHANGED vars \/ LeaseExpires
             \/ (\E p \in Proposals : Submit(p))
             \/ (\E a \in Actions : Approve(a) \/ Reject(a) \/ ClaimAges(a))
             \/ (\E p \in Policies \union {Malformed} : EditPolicy(p))
    <3>1. UNCHANGED <<pc, act, verdict, history, ran, lease>> /\ (live' => live)
      BY <2>1 DEF vars, LeaseExpires, Submit, Approve, Reject, ClaimAges, EditPolicy, session,
         leaseVars, TypeInv, TypeOK
    <3>. QED
      BY <3>1 DEF OnceInv, Once, Admitted, Owns
  <2>2. ASSUME NEW w \in Watches, Setup(w)
        PROVE  OnceInv'
    <3>1. /\ ran' = ran /\ history' = history
          /\ pc'[w] \notin {"admit", "record", "arm", "fire"}
          /\ \A v \in Watches \ {w} :
               pc'[v] = pc[v] /\ act'[v] = act[v] /\ verdict'[v] = verdict[v]
      BY <2>2 DEF Setup, TypeInv, TypeOK
    <3>2. \A v \in Watches \ {w} : Owns(v)' => Owns(v)
      BY <2>2 DEF Setup, Owns, leaseVars
    <3>. QED
      BY <3>1, <3>2, QuietStep
  <2>3. ASSUME NEW w \in Watches,
               \/ BeginStep(w) \/ RecoverStale(w) \/ ReadPending(w) \/ ReadFound(w) \/ ReadCancelled(w)
               \/ ReadBaseline(w) \/ RecordImpossible(w) \/ CancelImpossible(w) \/ EndReap(w)
               \/ EndLoop(w) \/ Claim(w) \/ CheckPolicy(w) \/ CancelBatch(w) \/ Gate(w)
               \/ GateCancelled(w) \/ FinishExecute(w) \/ HaltAfterTimeout(w) \/ Finalize(w)
               \/ StepFails(w) \/ StopRequested(w) \/ Crash(w)
        PROVE  OnceInv'
    <3>1. ran' = ran /\ history \subseteq history' /\ UNCHANGED <<lease, live>>
      BY <2>3 DEF BeginStep, RecoverStale, ReadPending, ReadFound, ReadCancelled, ReadBaseline,
         RecordImpossible, CancelImpossible, EndReap, EndLoop, Claim, CheckPolicy, CancelBatch, Gate,
         GateCancelled, FinishExecute, HaltAfterTimeout, Finalize, StepFails, StopRequested, Crash,
         leaseVars
    <3>2. /\ pc'[w] \notin {"admit", "record", "arm", "fire"}
          /\ \A v \in Watches \ {w} :
               pc'[v] = pc[v] /\ act'[v] = act[v] /\ verdict'[v] = verdict[v]
      BY <2>3 DEF BeginStep, RecoverStale, ReadPending, ReadFound, ReadCancelled, ReadBaseline,
         RecordImpossible, CancelImpossible, EndReap, EndLoop, Claim, CheckPolicy, CancelBatch, Gate,
         GateCancelled, FinishExecute, HaltAfterTimeout, Finalize, StepFails, StopRequested, Crash,
         Goto, Sweep, Leave, TypeInv, TypeOK
    <3>. QED
      BY <3>1, <3>2, QuietStep DEF Owns
  <2>4. ASSUME NEW w \in Watches, Shutdown(w)
        PROVE  OnceInv'
    <3>1. ran' = ran /\ history' = history /\ \A v \in Watches : Owns(v)' => Owns(v)
      BY <2>4 DEF Shutdown, BeginShutdown, HaltDrivers, ReleaseLease, Owns, leaseVars
    <3>2. /\ pc'[w] \notin {"admit", "record", "arm", "fire"}
          /\ \A v \in Watches \ {w} :
               pc'[v] = pc[v] /\ act'[v] = act[v] /\ verdict'[v] = verdict[v]
      BY <2>4 DEF Shutdown, BeginShutdown, HaltDrivers, ReleaseLease, Goto, TypeInv, TypeOK
    <3>. QED
      BY <3>1, <3>2, QuietStep
  <2>5. ASSUME NEW w \in Watches, GateHistory(w)
        PROVE  OnceInv'
    <3>. SUFFICES ASSUME AllowsReplay = {}
                  PROVE  Once'
      BY DEF OnceInv, Once
    <3>1. /\ pc[w] = "events" /\ pc' = [pc EXCEPT ![w] = "admit"]
          /\ UNCHANGED <<act, history, ran, lease, live>>
          /\ verdict'[w] = "allow" => act[w] \notin history
          /\ \A v \in Watches \ {w} : verdict'[v] = verdict[v]
      BY <2>5 DEF GateHistory, Replay, leaseVars, TypeInv, TypeOK
    <3>2. act[w] \in Actions
      BY <3>1 DEF TypeInv, LocalsOK, Holding
    <3>3. verdict'[w] = "allow" =>
            ran[act[w]] = 0 /\ \A v \in Watches : pc[v] = "fire" => act[v] # act[w]
      BY <3>1, <3>2 DEF OnceInv, Once, TypeInv, TypeOK
    <3>. QED
      BY <3>1, <3>3 DEF OnceInv, Once, Admitted, Owns, TypeInv, TypeOK
  <2>6. ASSUME NEW w \in Watches, RequireLease(w)
        PROVE  OnceInv'
    <3>. UNCHANGED <<lease, live, history, ran>>
      BY <2>6 DEF RequireLease, leaseVars
    <3>1. CASE pc'[w] \notin {"admit", "record", "arm", "fire"}
      <4>1. \A v \in Watches \ {w} :
               pc'[v] = pc[v] /\ act'[v] = act[v] /\ verdict'[v] = verdict[v]
        BY <2>6 DEF RequireLease, Goto, Leave, TypeInv, TypeOK
      <4>. QED
        BY <3>1, <4>1, QuietStep DEF Owns
    <3>2. CASE pc'[w] \in {"admit", "record", "arm", "fire"}
      <4>. SUFFICES ASSUME AllowsReplay = {}
                    PROVE  Once'
        BY DEF OnceInv, Once
      <4>1. /\ Owns(w)
            /\ \/ pc[w] = "admit" /\ pc' = [pc EXCEPT ![w] = "record"]
               \/ pc[w] = "arm" /\ pc' = [pc EXCEPT ![w] = "fire"]
            /\ UNCHANGED <<act, verdict>>
        BY <2>6, <3>2 DEF RequireLease, Guarded, Goto, Leave, TypeInv, TypeOK
      <4>2. CASE pc[w] = "admit" /\ pc' = [pc EXCEPT ![w] = "record"]
        BY <4>1, <4>2 DEF OnceInv, Once, Admitted, Owns, TypeInv, TypeOK
      <4>3. CASE pc[w] = "arm" /\ pc' = [pc EXCEPT ![w] = "fire"]
        <5>1. Admitted(w) /\ \A v \in Watches : Owns(v) => v = w
          BY <4>1, <4>3 DEF Admitted, Owns, TypeInv, LocalsOK
        <5>2. ran[act[w]] = 0 /\ \A v \in Watches : pc[v] = "fire" => act[v] # act[w]
          BY <4>1, <5>1 DEF OnceInv, Once
        <5>. QED
          BY <4>1, <4>3, <5>1, <5>2 DEF OnceInv, Once, Admitted, Owns, TypeInv, TypeOK
      <4>. QED
        BY <4>1, <4>2, <4>3
    <3>. QED
      BY <3>1, <3>2
  <2>7. ASSUME NEW w \in Watches, RecordDecision(w)
        PROVE  OnceInv'
    <3>1. /\ history' = history \union {act[w]}
          /\ pc' = [pc EXCEPT ![w] = IF verdict[w] = "allow" THEN "arm" ELSE "settle"]
          /\ pc[w] = "record"
          /\ UNCHANGED <<act, verdict, ran, lease, live>>
      BY <2>7 DEF RecordDecision, Goto, leaseVars
    <3>. QED
      BY <3>1 DEF OnceInv, Once, Admitted, Owns, TypeInv, TypeOK
  <2>8. ASSUME NEW w \in Watches, StartExecute(w)
        PROVE  OnceInv'
    <3>. SUFFICES ASSUME AllowsReplay = {}
                  PROVE  Once'
      BY DEF OnceInv, Once
    <3>1. /\ pc[w] = "fire"
          /\ pc' = [pc EXCEPT ![w] = "run"]
          /\ ran' = [ran EXCEPT ![act[w]] = @ + 1]
          /\ UNCHANGED <<act, verdict, history, lease, live>>
      BY <2>8 DEF StartExecute, Goto, leaseVars
    <3>2. act[w] \in history /\ ran[act[w]] = 0 /\ act[w] \in Actions
      BY <3>1 DEF OnceInv, Once, TypeInv, LocalsOK, Holding
    <3>3. \A a \in Actions : ran'[a] <= 1 /\ (ran'[a] > 0 => a \in history')
      BY <3>1, <3>2 DEF OnceInv, Once, TypeInv, TypeOK
    <3>4. \A v \in Watches : pc'[v] = "fire" => ran'[act'[v]] = 0
      <4>. SUFFICES ASSUME NEW v \in Watches, pc'[v] = "fire"
                    PROVE  ran'[act'[v]] = 0
        OBVIOUS
      <4>1. v # w /\ pc[v] = "fire" /\ act[v] \in Actions
        BY <3>1 DEF TypeInv, TypeOK, LocalsOK, Holding
      <4>2. act[v] # act[w] /\ ran[act[v]] = 0
        BY <3>1, <4>1 DEF OnceInv, Once
      <4>. QED
        BY <3>1, <4>1, <4>2 DEF TypeInv, TypeOK
    <3>5. \A v \in Watches : Admitted(v)' /\ Owns(v)' =>
            /\ ran'[act'[v]] = 0
            /\ \A u \in Watches : pc'[u] = "fire" => act'[u] # act'[v]
      <4>. SUFFICES ASSUME NEW v \in Watches, Admitted(v)', Owns(v)'
                    PROVE  /\ ran'[act'[v]] = 0
                           /\ \A u \in Watches : pc'[u] = "fire" => act'[u] # act'[v]
        OBVIOUS
      <4>1. v # w /\ Admitted(v) /\ Owns(v) /\ act[v] \in Actions
        BY <3>1 DEF Admitted, Owns, TypeInv, TypeOK, LocalsOK, Holding
      <4>2. /\ ran[act[v]] = 0
            /\ \A u \in Watches : pc[u] = "fire" => act[u] # act[v]
        BY <4>1 DEF OnceInv, Once
      <4>. QED
        BY <3>1, <4>1, <4>2 DEF TypeInv, TypeOK
    <3>. QED
      BY <3>1, <3>2, <3>3, <3>4, <3>5 DEF OnceInv, Once, TypeInv, TypeOK
  <2>. QED
    BY <2>1, <2>2, <2>3, <2>4, <2>5, <2>6, <2>7, <2>8 DEF Next, StepOf
<1>. QED
  BY <1>1, <1>2, Typing, PTL DEF Spec

\* For any number of actions, robots, sessions and policies: unless some SAFETY.md
\* allows replay, driver.execute is entered at most once per action id, through
\* crashes, storage errors, recovered claims, suspended and restarted runtimes.
COROLLARY AtMostOnceHolds == Spec => []AtMostOnce
<1>1. OnceInv => AtMostOnce
  BY DEF OnceInv, Once, AtMostOnce
<1>. QED
  BY <1>1, CallsAreFirst, PTL

-----------------------------------------------------------------------------
(* Outcomes *)

\* Where a session keeps the pending actions it has read.
Scanning == {"claims", "completions", "cancellations", "baseline", "reap", "unhook"}

\* The action is not completed, and nobody is about to record that it is.
Unsettled(a) ==
    /\ status[a] \in {"pending", "in_progress", "cancelled"}
    /\ \A v \in Watches : pc[v] = "mark" /\ act[v] = a => ~HoldsClaim(v)

\* What a session has read as pending is unsettled as long as it has the lease: nobody
\* else passes the lease checks between a claim and its terminal update.
Held ==
    /\ \A w \in Watches : pc[w] = "unhook" => act[w] \in ctx[w].reap
    /\ \A w \in Watches : pc[w] \in Scanning => \A a \in ctx[w].reap : status[a] # "absent"
    /\ \A w \in Watches : Owns(w) /\ pc[w] \in Scanning => \A a \in ctx[w].reap : Unsettled(a)

\* The cancellation that is not fenced, by a session that has lost the lease.
Late(a) == \E w \in Watches : pc[w] = "unhook" /\ act[w] = a /\ ~Owns(w)

\* How a step may change the status of an action.
Moves ==
    \A a \in Actions :
        \/ status'[a] = status[a]
        \/ /\ status[a] = "absent" /\ status'[a] = "pending"
           /\ \A d \in DependsOn[a] : status'[d] # "absent"
           /\ \E p \in Proposals : Submit(p)
        \/ status[a] = "pending" /\ status'[a] = "cancelled"
        \/ status[a] = "in_progress" /\ status'[a] \in {"pending", "cancelled"}
        \/ /\ status[a] = "in_progress" /\ status'[a] = "completed"
           /\ \E w \in Watches : Finalize(w) /\ HoldsClaim(w) /\ act[w] = a /\ verdict[w] = "completed"
        \/ /\ status[a] = "pending" /\ status'[a] = "in_progress" /\ DependenciesMet(a)
           /\ \A b \in Actions \ {a} : status'[b] = "in_progress" => RobotOf[b] # RobotOf[a]
        \/ status[a] = "completed" /\ status'[a] = "cancelled" /\ owner'[a] = NoWatch /\ Late(a)

\* A session's step changes its own locals only.
LEMMA OnlyOwnLocals ==
  ASSUME TypeInv, NEW w \in Watches,
         Setup(w) \/ StepOf(w) \/ StepFails(w) \/ StopRequested(w) \/ Shutdown(w) \/ Crash(w)
  PROVE  \A v \in Watches \ {w} :
           pc'[v] = pc[v] /\ act'[v] = act[v] /\ verdict'[v] = verdict[v] /\ ctx'[v] = ctx[v]
<1>. USE DEF TypeInv, TypeOK, Goto, Leave
<1>1. CASE Setup(w) \/ StepFails(w) \/ StopRequested(w) \/ Shutdown(w) \/ Crash(w)
  BY <1>1 DEF Setup, StepFails, StopRequested, Shutdown, BeginShutdown, HaltDrivers, ReleaseLease, Crash
<1>2. CASE BeginStep(w) \/ RecoverStale(w) \/ RecordImpossible(w) \/ EndLoop(w) \/ RequireLease(w)
           \/ CheckPolicy(w) \/ CancelBatch(w) \/ Gate(w) \/ RecordDecision(w) \/ StartExecute(w)
           \/ FinishExecute(w) \/ HaltAfterTimeout(w) \/ Finalize(w)
  BY <1>2 DEF BeginStep, RecoverStale, RecordImpossible, EndLoop, Sweep, RequireLease, CheckPolicy,
     CancelBatch, Gate, RecordDecision, StartExecute, FinishExecute, HaltAfterTimeout, Finalize
<1>3. CASE ReadFound(w) \/ ReadBaseline(w) \/ EndReap(w) \/ GateCancelled(w) \/ GateHistory(w)
  BY <1>3 DEF ReadFound, ReadBaseline, EndReap, GateCancelled, GateHistory
<1>6. CASE ReadPending(w)
  BY <1>6 DEF ReadPending
<1>7. CASE ReadCancelled(w)
  BY <1>7 DEF ReadCancelled
<1>4. CASE CancelImpossible(w)
  BY <1>4 DEF CancelImpossible
<1>5. CASE Claim(w)
  BY <1>5 DEF Claim, Sweep
<1>. QED
  BY <1>1, <1>2, <1>3, <1>4, <1>5, <1>6, <1>7 DEF StepOf

\* Where a session has claimed the action it holds.
Reached == Holding \ {"unhook"}

\* How a step may change the position of session w: it stays where it is, comes where it
\* holds no claim, claims an action, or goes on with the one it has.
LocalMoves(w) ==
    \/ pc'[w] = pc[w] /\ act'[w] = act[w] /\ verdict'[w] = verdict[w] /\ ctx'[w] = ctx[w]
    \/ pc'[w] \notin Reached
    \/ Claim(w) /\ pc'[w] = "policy" /\ act'[w] \in Actions /\ DependenciesMet(act'[w])
    \/ /\ pc[w] \in Reached /\ act'[w] = act[w] /\ ctx'[w] = ctx[w]
       /\ pc'[w] = "fire" => pc[w] = "arm" /\ Owns(w)
       /\ pc'[w] = "run" => StartExecute(w)
       /\ pc'[w] = "mark" => pc[w] = "settle" /\ Owns(w)
       /\ pc'[w] \in Settling /\ verdict'[w] = "completed" =>
            pc[w] = "run" \/ (pc[w] \in Settling /\ verdict[w] = "completed")
       /\ UNCHANGED <<board, leaseVars>>

\* Every step is one of these to every session.
LEMMA SessionMoves ==
  ASSUME TypeInv, [Next]_vars, NEW w \in Watches
  PROVE  LocalMoves(w)
<1>. TypeOK /\ LocalsOK(w)
  BY DEF TypeInv
<1>1. CASE UNCHANGED vars \/ LeaseExpires \/ (\E p \in Proposals : Submit(p))
           \/ (\E a \in Actions : Approve(a) \/ Reject(a) \/ ClaimAges(a))
           \/ (\E p \in Policies \union {Malformed} : EditPolicy(p))
  <2>1. UNCHANGED session
    BY <1>1 DEF vars, LeaseExpires, Submit, Approve, Reject, ClaimAges, EditPolicy, session
  <2>. QED
    BY <2>1 DEF session, LocalMoves
<1>2. CASE \E v \in Watches \ {w} : \/ Setup(v) \/ StepOf(v) \/ StepFails(v) \/ StopRequested(v)
                                    \/ Shutdown(v) \/ Crash(v)
  BY <1>2, OnlyOwnLocals DEF LocalMoves
<1>3. CASE \/ Setup(w) \/ StepFails(w) \/ StopRequested(w) \/ Shutdown(w) \/ Crash(w)
           \/ BeginStep(w) \/ RecoverStale(w) \/ ReadPending(w) \/ ReadFound(w) \/ ReadCancelled(w)
           \/ ReadBaseline(w) \/ RecordImpossible(w) \/ CancelImpossible(w) \/ EndReap(w) \/ EndLoop(w)
           \/ CancelBatch(w) \/ Finalize(w)
  <2>1. CASE \/ Setup(w) \/ StepFails(w) \/ StopRequested(w) \/ Shutdown(w) \/ Crash(w)
             \/ BeginStep(w) \/ RecoverStale(w)
    BY <2>1 DEF Setup, StepFails, StopRequested, Shutdown, BeginShutdown, HaltDrivers, ReleaseLease, Crash,
       BeginStep, RecoverStale, Goto, Leave, TypeOK, Reached, Holding, LocalMoves
  <2>2. CASE ReadPending(w)
    <3>1. PICK at \in {"claims", "idle"} : pc' = [pc EXCEPT ![w] = at]
      BY <2>2 DEF ReadPending, Leave
    <3>. QED
      BY <3>1 DEF TypeOK, Reached, Holding, LocalMoves
  <2>3. CASE ReadFound(w) \/ ReadCancelled(w)
    <3>1. PICK at \in {"completions", "cancellations", "baseline", "reap"} : pc' = [pc EXCEPT ![w] = at]
      BY <2>3 DEF ReadFound, ReadCancelled
    <3>. QED
      BY <3>1 DEF TypeOK, Reached, Holding, LocalMoves
  <2>4. CASE ReadBaseline(w) \/ RecordImpossible(w) \/ CancelImpossible(w)
    BY <2>4 DEF ReadBaseline, RecordImpossible, CancelImpossible, Leave, TypeOK, Reached, Holding, LocalMoves
  <2>5. CASE EndReap(w) \/ EndLoop(w) \/ CancelBatch(w) \/ Finalize(w)
    BY <2>5 DEF EndReap, EndLoop, CancelBatch, Finalize, Sweep, Leave, TypeOK, Reached, Holding, LocalMoves
  <2>. QED
    BY <1>3, <2>1, <2>2, <2>3, <2>4, <2>5
<1>4. CASE Claim(w)
  <2>1. pc'[w] \notin Reached \/ (pc'[w] = "policy" /\ act'[w] \in Actions /\ DependenciesMet(act'[w]))
    BY <1>4 DEF Claim, Ready, Sweep, TypeOK, Reached, Holding
  <2>. QED
    BY <1>4, <2>1 DEF LocalMoves
<1>5. CASE RequireLease(w)
  BY <1>5 DEF RequireLease, Guarded, Goto, Leave, TypeOK, Reached, Holding, Settling, LocalMoves, board,
     leaseVars
<1>6. CASE CheckPolicy(w) \/ RecordDecision(w) \/ FinishExecute(w) \/ HaltAfterTimeout(w)
  BY <1>6 DEF CheckPolicy, RecordDecision, FinishExecute, HaltAfterTimeout, Goto, TypeOK, LocalsOK, Deciding,
     Reached, Holding, Settling, LocalMoves, board, leaseVars
<1>7. CASE Gate(w) \/ GateCancelled(w) \/ GateHistory(w)
  BY <1>7 DEF Gate, GateCancelled, GateHistory, Leave, TypeOK, Reached, Holding, Settling, LocalMoves, board,
     leaseVars
<1>8. CASE StartExecute(w)
  BY <1>8 DEF StartExecute, Goto, TypeOK, Reached, Holding, Settling, LocalMoves, board, leaseVars
<1>. QED
  BY <1>1, <1>2, <1>3, <1>4, <1>5, <1>6, <1>7, <1>8 DEF Next, StepOf

\* The lease changes with the clock, and when sessions begin and end.
LEMMA LeaseMoves ==
  ASSUME [Next]_vars
  PROVE  \/ UNCHANGED <<lease, live>> \/ LeaseExpires
         \/ \E v \in Watches : Setup(v) \/ ReleaseLease(v)
<1>1. CASE UNCHANGED vars \/ (\E p \in Proposals : Submit(p))
           \/ (\E a \in Actions : Approve(a) \/ Reject(a) \/ ClaimAges(a))
           \/ (\E p \in Policies \union {Malformed} : EditPolicy(p))
  BY <1>1 DEF vars, Submit, Approve, Reject, ClaimAges, EditPolicy, leaseVars
<1>2. ASSUME NEW v \in Watches, StepOf(v)
      PROVE  UNCHANGED <<lease, live>>
  BY <1>2 DEF StepOf, BeginStep, RecoverStale, ReadPending, ReadFound, ReadCancelled, ReadBaseline,
     RecordImpossible, CancelImpossible, EndReap, EndLoop, RequireLease, Claim, CheckPolicy, CancelBatch,
     Gate, GateCancelled, GateHistory, RecordDecision, StartExecute, FinishExecute, HaltAfterTimeout,
     Finalize, leaseVars
<1>3. ASSUME NEW v \in Watches,
             StepFails(v) \/ StopRequested(v) \/ BeginShutdown(v) \/ HaltDrivers(v) \/ Crash(v)
      PROVE  UNCHANGED <<lease, live>>
  BY <1>3 DEF StepFails, StopRequested, BeginShutdown, HaltDrivers, Crash, leaseVars
<1>. QED
  BY <1>1, <1>2, <1>3 DEF Next, Shutdown

\* What the first SELECT leaves in the locals.
LEMMA PendingRead ==
  ASSUME TypeInv, NEW w \in Watches, ReadPending(w), policy # Malformed
  PROVE  /\ pc' = [pc EXCEPT ![w] = "claims"] /\ UNCHANGED board
         /\ ctx'[w].reap = {a \in WithStatus("pending") : DependsOn[a] # {}}
         /\ ctx'[w].missing = (UNION {DependsOn[a] : a \in ctx'[w].reap}) \ WithStatus("pending")
<1>. DEFINE behind == {a \in WithStatus("pending") : DependsOn[a] # {}}
            mis == (UNION {DependsOn[a] : a \in behind}) \ WithStatus("pending")
            cop == [a \in Actions |-> IF a \in behind THEN approval[a] ELSE "not_required"]
            go == IF pc[w] = "scan" THEN "loop" ELSE "idle"
            c == [ctx[w] EXCEPT !.reap = behind, !.missing = mis, !.copy = cop, !.after = go]
<1>1. pc' = [pc EXCEPT ![w] = "claims"] /\ UNCHANGED board /\ ctx' = [ctx EXCEPT ![w] = c]
  BY DEF ReadPending
<1>2. ctx \in [Watches -> Contexts]
  BY DEF TypeInv, TypeOK
<1>. HIDE DEF behind, mis, cop, go
<1>3. ctx'[w] = c
  BY <1>1, <1>2
<1>4. ctx'[w].reap = behind /\ ctx'[w].missing = mis
  BY <1>2, <1>3 DEF Contexts
<1>. QED
  BY <1>1, <1>4 DEF behind, mis

\* How a session comes to hold what it has read as pending: it has just read it, or it
\* goes on with it.
LEMMA ScanMoves ==
  ASSUME TypeInv, [Next]_vars, NEW w \in Watches, pc'[w] \in Scanning
  PROVE  \/ /\ pc[w] \in Scanning /\ ctx'[w].reap \subseteq ctx[w].reap
            /\ pc'[w] = "unhook" => \/ act'[w] \in ctx[w].reap /\ ctx'[w].reap = ctx[w].reap
                                    \/ pc[w] = "unhook" /\ act'[w] = act[w] /\ ctx'[w] = ctx[w]
         \/ ReadPending(w) /\ pc'[w] = "claims" /\ ctx'[w].reap \subseteq WithStatus("pending")
<1>. TypeOK /\ ctx[w] \in Contexts
  BY DEF TypeInv, TypeOK
<1>1. CASE UNCHANGED vars \/ LeaseExpires \/ (\E p \in Proposals : Submit(p))
           \/ (\E a \in Actions : Approve(a) \/ Reject(a) \/ ClaimAges(a))
           \/ (\E p \in Policies \union {Malformed} : EditPolicy(p))
  <2>1. UNCHANGED session
    BY <1>1 DEF vars, LeaseExpires, Submit, Approve, Reject, ClaimAges, EditPolicy, session
  <2>. QED
    BY <2>1 DEF session
<1>2. CASE \E v \in Watches \ {w} : \/ Setup(v) \/ StepOf(v) \/ StepFails(v) \/ StopRequested(v)
                                    \/ Shutdown(v) \/ Crash(v)
  BY <1>2, OnlyOwnLocals
<1>3. CASE ReadPending(w)
  <2>1. policy # Malformed
    BY <1>3 DEF ReadPending, Leave, TypeOK, Scanning
  <2>. QED
    BY <1>3, <2>1, PendingRead DEF TypeOK
<1>4. CASE ReadFound(w)
  <2>1. PICK f : ctx' = [ctx EXCEPT ![w] = [ctx[w] EXCEPT !.missing = f]]
    BY <1>4 DEF ReadFound
  <2>2. pc[w] \in Scanning /\ pc'[w] # "unhook" /\ ctx'[w].reap = ctx[w].reap
    BY <1>4, <2>1 DEF ReadFound, TypeOK, Contexts, Scanning
  <2>. QED
    BY <2>2
<1>5. CASE ReadCancelled(w)
  <2>. DEFINE X == Impossible(ctx[w].reap, ctx[w].missing, WithStatus("cancelled"))
  <2>1. PICK c : ctx' = [ctx EXCEPT ![w] = [ctx[w] EXCEPT !.reap = X, !.missing = {}, !.copy = c]]
    BY <1>5 DEF ReadCancelled
  <2>2. X \subseteq ctx[w].reap
    BY DEF Impossible
  <2>3. PICK at \in {"baseline", "reap"} : pc' = [pc EXCEPT ![w] = at]
    BY <1>5 DEF ReadCancelled
  <2>4. pc[w] \in Scanning
    BY <1>5 DEF ReadCancelled, Scanning
  <2>. HIDE DEF X
  <2>5. pc'[w] # "unhook" /\ ctx'[w].reap = X
    BY <2>1, <2>3 DEF TypeOK, Contexts
  <2>. QED
    BY <2>2, <2>4, <2>5
<1>6. CASE ReadBaseline(w)
  <2>1. ctx' = [ctx EXCEPT ![w] = [ctx[w] EXCEPT !.base = policy]] /\ pc[w] \in Scanning /\ pc'[w] # "unhook"
    BY <1>6 DEF ReadBaseline, Leave, TypeOK, Scanning
  <2>. QED
    BY <2>1 DEF TypeOK, Contexts
<1>7. CASE RecordImpossible(w)
  BY <1>7 DEF RecordImpossible, TypeOK, Scanning
<1>8. CASE CancelImpossible(w)
  <2>1. /\ pc[w] = "unhook" /\ pc'[w] = "reap"
        /\ ctx' = [ctx EXCEPT ![w] = [ctx[w] EXCEPT !.reap = ctx[w].reap \ {act[w]}]]
    BY <1>8 DEF CancelImpossible, Leave, TypeOK, Scanning
  <2>. QED
    BY <2>1 DEF TypeOK, Contexts, Scanning
<1>9. ~(\/ Setup(w) \/ StepFails(w) \/ StopRequested(w) \/ Shutdown(w) \/ Crash(w)
        \/ BeginStep(w) \/ RecoverStale(w) \/ EndReap(w) \/ EndLoop(w) \/ Claim(w))
  BY DEF Setup, StepFails, StopRequested, Shutdown, BeginShutdown, HaltDrivers, ReleaseLease, Crash, BeginStep,
     RecoverStale, EndReap, EndLoop, Claim, Goto, Sweep, Leave, TypeOK, Scanning
<1>10. ~(\/ CheckPolicy(w) \/ CancelBatch(w) \/ Gate(w) \/ GateCancelled(w) \/ GateHistory(w)
         \/ RecordDecision(w) \/ StartExecute(w) \/ FinishExecute(w) \/ HaltAfterTimeout(w) \/ Finalize(w))
  BY DEF CheckPolicy, CancelBatch, Gate, GateCancelled, GateHistory, RecordDecision, StartExecute,
     FinishExecute, HaltAfterTimeout, Finalize, Goto, Leave, TypeOK, Scanning
<1>11. ~RequireLease(w)
  BY DEF RequireLease, Guarded, Goto, Leave, TypeOK, Scanning
<1>. QED
  BY <1>1, <1>2, <1>3, <1>4, <1>5, <1>6, <1>7, <1>8, <1>9, <1>10, <1>11 DEF Next, StepOf

\* No step changes a status in any other way, not even the cancellation that overwrites
\* a row whatever its status.
LEMMA StatusMoves ==
  ASSUME TypeInv, Held, [Next]_vars
  PROVE  Moves
<1>. USE DEF TypeInv, TypeOK
<1>1. CASE UNCHANGED vars \/ LeaseExpires \/ (\E p \in Policies \union {Malformed} : EditPolicy(p))
  BY <1>1 DEF vars, LeaseExpires, EditPolicy, board, Moves
<1>2. ASSUME NEW p \in Proposals, Submit(p)
      PROVE  Moves
  BY <1>2, WatchBoardAssumption DEF Submit, Moves
<1>3. ASSUME NEW a \in Actions, Approve(a) \/ Reject(a) \/ ClaimAges(a)
      PROVE  Moves
  BY <1>3 DEF Approve, Reject, ClaimAges, Moves
<1>4. ASSUME NEW w \in Watches, RecoverStale(w)
      PROVE  Moves
  BY <1>4 DEF RecoverStale, RecoveredStatus, Moves
<1>5. ASSUME NEW w \in Watches, CancelImpossible(w)
      PROVE  Moves
  <2>1. act[w] \in Actions /\ act[w] \in ctx[w].reap /\ status[act[w]] # "absent" /\ pc[w] = "unhook"
    BY <1>5 DEF CancelImpossible, Held, Scanning, LocalsOK, Holding
  <2>2. Owns(w) => status[act[w]] \in {"pending", "in_progress", "cancelled"}
    BY <2>1 DEF Held, Scanning, Unsettled
  <2>3. status[act[w]] = "completed" => Late(act[w])
    BY <2>1, <2>2 DEF Late
  <2>4. \/ UNCHANGED status
        \/ /\ status' = [status EXCEPT ![act[w]] = "cancelled"]
           /\ owner' = [owner EXCEPT ![act[w]] = NoWatch]
    BY <1>5 DEF CancelImpossible, board
  <2>5. status[act[w]] \in {"pending", "in_progress", "cancelled", "completed"}
    BY <2>1 DEF Statuses, Terminal
  <2>. QED
    BY <2>1, <2>3, <2>4, <2>5 DEF Moves
<1>6. ASSUME NEW w \in Watches, Claim(w)
      PROVE  Moves
  <2>1. CASE status' = RecoveredStatus
    BY <2>1 DEF RecoveredStatus, Moves
  <2>2. ASSUME NEW a \in Actions, RecoveredStatus[a] = "pending", DependenciesMet(a), ~Busy(RobotOf[a]),
               status' = [RecoveredStatus EXCEPT ![a] = "in_progress"]
        PROVE  Moves
    <3>1. status[a] \in {"pending", "in_progress"} /\ status'[a] = "in_progress"
      BY <2>2 DEF RecoveredStatus
    <3>2. \A b \in Actions \ {a} : /\ status'[b] = RecoveredStatus[b]
                                   /\ status'[b] = "in_progress" => RobotOf[b] # RobotOf[a]
      BY <2>2 DEF RecoveredStatus, Busy
    <3>. QED
      BY <2>2, <3>1, <3>2 DEF RecoveredStatus, Moves
  <2>. QED
    BY <1>6, <2>1, <2>2 DEF Claim, Ready
<1>7. ASSUME NEW w \in Watches, CancelBatch(w)
      PROVE  Moves
  BY <1>7 DEF CancelBatch, HoldsClaim, WithStatus, board, Moves, Terminal
<1>8. ASSUME NEW w \in Watches, Finalize(w)
      PROVE  Moves
  <2>1. pc[w] = "mark" => verdict[w] \in Terminal
    BY DEF LocalsOK, Settling
  <2>2. CASE HoldsClaim(w)
    <3>1. pc[w] = "mark" /\ status' = [status EXCEPT ![act[w]] = verdict[w]]
      BY <1>8, <2>2 DEF Finalize
    <3>. QED
      BY <1>8, <2>1, <2>2, <3>1 DEF HoldsClaim, Moves, Terminal
  <2>3. CASE ~HoldsClaim(w)
    BY <1>8, <2>3 DEF Finalize, board, Moves
  <2>. QED
    BY <2>2, <2>3
<1>9. ASSUME NEW w \in Watches,
             \/ Setup(w) \/ BeginStep(w) \/ ReadPending(w) \/ ReadFound(w) \/ ReadCancelled(w)
             \/ ReadBaseline(w) \/ RecordImpossible(w) \/ EndReap(w) \/ EndLoop(w) \/ RequireLease(w)
             \/ CheckPolicy(w) \/ Gate(w) \/ GateCancelled(w) \/ GateHistory(w) \/ RecordDecision(w)
             \/ StartExecute(w) \/ FinishExecute(w) \/ HaltAfterTimeout(w) \/ StepFails(w) \/ StopRequested(w)
             \/ Shutdown(w) \/ Crash(w)
      PROVE  Moves
  <2>1. UNCHANGED status
    BY <1>9 DEF Setup, BeginStep, ReadPending, ReadFound, ReadCancelled, ReadBaseline, RecordImpossible,
       EndReap, EndLoop, RequireLease, CheckPolicy, Gate, GateCancelled, GateHistory, RecordDecision,
       StartExecute, FinishExecute, HaltAfterTimeout, StepFails, StopRequested, Shutdown, BeginShutdown,
       HaltDrivers, ReleaseLease, Crash, board
  <2>. QED
    BY <2>1 DEF Moves
<1>. QED
  BY <1>1, <1>2, <1>3, <1>4, <1>5, <1>6, <1>7, <1>8, <1>9 DEF Next, StepOf

\* A claim is as old as the session's position at "policy", or older.
LEMMA ClaimsAreNew ==
  ASSUME TypeInv, [Next]_vars, NEW a \in Actions, NEW v \in Watches,
         status'[a] = "in_progress", owner'[a] = v
  PROVE  \/ status[a] = "in_progress" /\ owner[a] = v
         \/ pc'[v] = "policy" /\ act'[v] = a
<1>. TypeOK
  BY DEF TypeInv
<1>1. CASE \/ \E p \in Proposals : Submit(p)
           \/ \E b \in Actions : Approve(b) \/ Reject(b) \/ ClaimAges(b)
  BY <1>1 DEF Submit, Approve, Reject, ClaimAges, TypeOK
<1>2. CASE \E w \in Watches : RecoverStale(w)
  BY <1>2 DEF RecoverStale, RecoveredStatus, RecoveredOwner, TypeOK
<1>3. CASE \E w \in Watches : CancelImpossible(w) \/ CancelBatch(w)
  BY <1>3 DEF CancelImpossible, CancelBatch, WithStatus, board, TypeOK
<1>4. ASSUME NEW w \in Watches, Finalize(w)
      PROVE  status[a] = "in_progress" /\ owner[a] = v
  <2>1. verdict[w] \in Terminal
    BY <1>4 DEF Finalize, TypeInv, LocalsOK, Settling
  <2>. QED
    BY <1>4, <2>1 DEF Finalize, board, Terminal, TypeOK
<1>5. ASSUME NEW w \in Watches, Claim(w)
      PROVE  \/ status[a] = "in_progress" /\ owner[a] = v
             \/ pc'[v] = "policy" /\ act'[v] = a
  <2>1. CASE status' = RecoveredStatus /\ owner' = RecoveredOwner
    BY <2>1 DEF RecoveredStatus, RecoveredOwner, TypeOK
  <2>2. ASSUME NEW b \in Actions,
               status' = [RecoveredStatus EXCEPT ![b] = "in_progress"],
               owner' = [RecoveredOwner EXCEPT ![b] = w],
               pc' = [pc EXCEPT ![w] = "policy"],
               act' = [act EXCEPT ![w] = b]
        PROVE  \/ status[a] = "in_progress" /\ owner[a] = v
               \/ pc'[v] = "policy" /\ act'[v] = a
    BY <2>2 DEF RecoveredStatus, RecoveredOwner, TypeOK
  <2>. QED
    BY <1>5, <2>1, <2>2 DEF Claim
<1>6. UNCHANGED vars \/ LeaseExpires \/ (\E p \in Policies \union {Malformed} : EditPolicy(p)) => UNCHANGED board
  BY DEF vars, LeaseExpires, EditPolicy, board
<1>7. ASSUME NEW w \in Watches,
             \/ Setup(w) \/ BeginStep(w) \/ ReadPending(w) \/ ReadFound(w) \/ ReadCancelled(w)
             \/ ReadBaseline(w) \/ RecordImpossible(w) \/ EndReap(w) \/ EndLoop(w) \/ RequireLease(w)
             \/ CheckPolicy(w) \/ Gate(w) \/ GateCancelled(w) \/ GateHistory(w) \/ RecordDecision(w)
             \/ StartExecute(w)
      PROVE  UNCHANGED board
  BY <1>7 DEF Setup, BeginStep, ReadPending, ReadFound, ReadCancelled, ReadBaseline, RecordImpossible, EndReap,
     EndLoop, RequireLease, CheckPolicy, Gate, GateCancelled, GateHistory, RecordDecision, StartExecute
<1>8. ASSUME NEW w \in Watches,
             \/ FinishExecute(w) \/ HaltAfterTimeout(w) \/ StepFails(w) \/ StopRequested(w)
             \/ Shutdown(w) \/ Crash(w)
      PROVE  UNCHANGED board
  BY <1>8 DEF FinishExecute, HaltAfterTimeout, StepFails, StopRequested, Shutdown, BeginShutdown, HaltDrivers,
     ReleaseLease, Crash
<1>. QED
  BY <1>1, <1>2, <1>3, <1>4, <1>5, <1>6, <1>7, <1>8 DEF Next, StepOf, board

\* The pending actions that a session has read stay unsettled while it has the lease.
LEMMA HeldStays ==
  ASSUME TypeInv, Held, [Next]_vars
  PROVE  Held'
<1>. TypeOK /\ Moves
  BY StatusMoves DEF TypeInv
<1>1. ASSUME NEW w \in Watches, pc'[w] = "unhook"
      PROVE  act'[w] \in ctx'[w].reap
  BY <1>1, ScanMoves DEF Scanning, Held
<1>2. ASSUME NEW w \in Watches, pc'[w] \in Scanning, NEW a \in ctx'[w].reap
      PROVE  a \in Actions /\ status'[a] # "absent"
  <2>1. CASE ReadPending(w) /\ ctx'[w].reap \subseteq WithStatus("pending")
    BY <1>2, <2>1 DEF ReadPending, WithStatus, board
  <2>2. CASE pc[w] \in Scanning /\ ctx'[w].reap \subseteq ctx[w].reap
    <3>1. a \in Actions /\ status[a] # "absent"
      BY <1>2, <2>2 DEF Held, TypeOK, Contexts
    <3>. QED
      BY <3>1 DEF Moves
  <2>. QED
    BY <1>2, <2>1, <2>2, ScanMoves
<1>3. ASSUME NEW w \in Watches, Owns(w)', pc'[w] \in Scanning, NEW a \in ctx'[w].reap
      PROVE  Unsettled(a)'
  <2>0. a \in Actions
    BY <1>2, <1>3
  <2>1. CASE ReadPending(w) /\ ctx'[w].reap \subseteq WithStatus("pending")
    BY <1>3, <2>1 DEF ReadPending, WithStatus, board, Unsettled, HoldsClaim
  <2>2. CASE pc[w] \in Scanning /\ ctx'[w].reap \subseteq ctx[w].reap
    <3>1. Owns(w)
      <4>1. ~Setup(w) /\ ~ReleaseLease(w)
        BY <2>2 DEF Setup, ReleaseLease, Scanning
      <4>2. ASSUME NEW v \in Watches \ {w}, Setup(v) \/ ReleaseLease(v)
            PROVE  Owns(w)
        BY <1>3, <4>2 DEF Setup, ReleaseLease, Owns, leaseVars
      <4>3. ~LeaseExpires
        BY <1>3 DEF LeaseExpires, Owns
      <4>. QED
        BY <1>3, <4>1, <4>2, <4>3, LeaseMoves DEF Owns
    <3>2. Unsettled(a)
      BY <1>3, <2>2, <3>1 DEF Held
    <3>3. status'[a] \in {"pending", "in_progress", "cancelled"}
      <4>1. \A v \in Watches : Finalize(v) /\ act[v] = a => ~HoldsClaim(v)
        BY <3>2 DEF Unsettled, Finalize
      <4>. QED
        BY <2>0, <3>2, <4>1 DEF Unsettled, Moves
    <3>4. ASSUME NEW v \in Watches, pc'[v] = "mark", act'[v] = a, HoldsClaim(v)'
          PROVE  FALSE
      <4>1. status[a] = "in_progress" /\ owner[a] = v
        BY <2>0, <3>4, ClaimsAreNew DEF HoldsClaim
      <4>2. pc[v] = "mark" /\ act[v] = a
        <5>1. ~(pc[v] = "settle" /\ Owns(v))
          BY <2>2, <3>1 DEF Owns, Scanning
        <5>. QED
          BY <3>4, <5>1, SessionMoves DEF LocalMoves, Reached, Holding
      <4>. QED
        BY <3>2, <4>1, <4>2 DEF Unsettled, HoldsClaim
    <3>. QED
      BY <3>3, <3>4 DEF Unsettled
  <2>. QED
    BY <1>3, <2>1, <2>2, ScanMoves
<1>. QED
  BY <1>1, <1>2, <1>3 DEF Held

\* What a session has read as pending, with the lease, is not completed by anyone until
\* it loses the lease or is through with it, whatever stalled sessions do meanwhile.
THEOREM HeldHolds == Spec => []Held
<1>1. Init => Held
  BY DEF Init, Held, Scanning
<1>. QED
  BY <1>1, HeldStays, Typing, PTL DEF Spec

\* For any number of actions, sessions and policies: the status of a completed or cancelled
\* action changes in one way only, by the update that is not fenced, from a session that has
\* lost the lease, and to cancelled.
THEOREM OutcomeIsFinalHolds == Spec => OutcomeIsFinal
<1>1. TypeInv /\ Held /\ [Next]_vars
      => [\A a \in Actions : status[a] \in Terminal =>
            \/ status'[a] = status[a]
            \/ /\ status'[a] = "cancelled"
               /\ \E w \in Watches : pc[w] = "unhook" /\ act[w] = a /\ ~Owns(w)]_vars
  <2>. SUFFICES ASSUME TypeInv, Held, [Next]_vars, NEW a \in Actions, status[a] \in Terminal
                PROVE  \/ status'[a] = status[a]
                       \/ status'[a] = "cancelled" /\ Late(a)
    BY DEF Late
  <2>. QED
    BY StatusMoves DEF Moves, Terminal
<1>. QED
  BY <1>1, HeldHolds, Typing, PTL DEF Spec, OutcomeIsFinal
-----------------------------------------------------------------------------
(* Claims and calls *)

\* For any number of robots and sessions: a robot never has two claimed actions.
THEOREM OneClaimPerRobotHolds == Spec => []OneClaimPerRobot
<1>1. Init => OneClaimPerRobot
  BY DEF Init, OneClaimPerRobot, WithStatus
<1>2. TypeInv /\ Held /\ OneClaimPerRobot /\ [Next]_vars => OneClaimPerRobot'
  <2>. SUFFICES ASSUME TypeInv, Held, OneClaimPerRobot, [Next]_vars,
                       NEW a \in Actions, NEW b \in Actions,
                       status'[a] = "in_progress", status'[b] = "in_progress", RobotOf[a] = RobotOf[b]
                PROVE  a = b
    BY DEF OneClaimPerRobot, WithStatus
  <2>1. \A c \in {a, b} : status[c] = "in_progress" \/ a = b
    BY StatusMoves DEF Moves, Terminal
  <2>. QED
    BY <2>1 DEF OneClaimPerRobot, WithStatus
<1>. QED
  BY <1>1, <1>2, HeldHolds, Typing, PTL DEF Spec

\* A driver is called by StartExecute alone.
LEMMA Calls ==
  ASSUME TypeInv, [Next]_vars
  PROVE  \/ ran' = ran
         \/ \E w \in Watches : /\ StartExecute(w) /\ pc[w] = "fire" /\ act[w] \in Actions
                               /\ ran' = [ran EXCEPT ![act[w]] = @ + 1]
<1>1. CASE \E w \in Watches : StartExecute(w)
  BY <1>1 DEF StartExecute, TypeInv, LocalsOK, Holding
<1>2. CASE ~(\E w \in Watches : StartExecute(w))
  BY <1>2 DEF Next, StepOf, vars, Submit, Approve, Reject, ClaimAges, EditPolicy, LeaseExpires, Setup,
     BeginStep, RecoverStale, ReadPending, ReadFound, ReadCancelled, ReadBaseline, RecordImpossible,
     CancelImpossible, EndReap, EndLoop, RequireLease, Claim, CheckPolicy, CancelBatch, Gate,
     GateCancelled, GateHistory, RecordDecision, FinishExecute, HaltAfterTimeout, Finalize, StepFails,
     StopRequested, Shutdown, BeginShutdown, HaltDrivers, ReleaseLease, Crash
<1>. QED
  BY <1>1, <1>2
-----------------------------------------------------------------------------
(* While no live runtime stalls longer than its lease *)

\* A session that has the lease, if it can lose it only by leaving or dying.
Alive(w) == pc[w] \notin {"new", "release", "gone"}

\* Who is alive owns the lease, hence is alone; so its claim stands, with the approval
\* under which it was made.
Calm ==
    ~MaySuspend => \A w \in Watches :
        /\ Alive(w) => Owns(w)
        /\ pc[w] \in Reached => /\ HoldsClaim(w)
                                /\ act[w] \in RequiresApproval[ctx[w].base] => approval[act[w]] = "approved"

\* What a human has rejected is closed.
RejectedIsClosed == \A a \in Actions : status[a] \notin Terminal => approval[a] # "rejected"

\* No session comes back to life.
LEMMA Awakes ==
  ASSUME TypeInv, [Next]_vars, NEW w \in Watches, Alive(w)'
  PROVE  Alive(w) \/ Setup(w)
<1>. SUFFICES ASSUME ~Alive(w), ~Setup(w)
              PROVE  FALSE
  OBVIOUS
<1>. TypeOK
  BY DEF TypeInv
<1>1. CASE UNCHANGED vars \/ LeaseExpires \/ (\E p \in Proposals : Submit(p))
           \/ (\E a \in Actions : Approve(a) \/ Reject(a) \/ ClaimAges(a))
           \/ (\E p \in Policies \union {Malformed} : EditPolicy(p))
  BY <1>1 DEF vars, LeaseExpires, Submit, Approve, Reject, ClaimAges, EditPolicy, session, Alive
<1>2. CASE \E v \in Watches \ {w} : \/ Setup(v) \/ StepOf(v) \/ StepFails(v) \/ StopRequested(v)
                                    \/ Shutdown(v) \/ Crash(v)
  BY <1>2, OnlyOwnLocals DEF Alive
<1>3. CASE StepOf(w) \/ StepFails(w) \/ StopRequested(w)
  BY <1>3 DEF StepOf, BeginStep, RecoverStale, ReadPending, ReadFound, ReadCancelled, ReadBaseline,
     RecordImpossible, CancelImpossible, EndReap, EndLoop, RequireLease, Guarded, Claim, CheckPolicy,
     CancelBatch, Gate, GateCancelled, GateHistory, RecordDecision, StartExecute, FinishExecute,
     HaltAfterTimeout, Finalize, Sweep, StepFails, InStep, StopRequested, Alive
<1>4. CASE Shutdown(w) \/ Crash(w)
  BY <1>4 DEF Shutdown, BeginShutdown, HaltDrivers, ReleaseLease, Crash, Goto, Leave, TypeOK, Alive
<1>. QED
  BY <1>1, <1>2, <1>3, <1>4 DEF Next

\* A claimed action is changed by steps of live sessions only.
LEMMA ClaimMoves ==
  ASSUME TypeInv, [Next]_vars, NEW a \in Actions, status[a] = "in_progress"
  PROVE  \/ status'[a] = status[a] /\ owner'[a] = owner[a] /\ approval'[a] = approval[a]
         \/ \E v \in Watches : Alive(v) /\ pc'[v] # pc[v]
<1>. TypeOK
  BY DEF TypeInv
<1>1. CASE \/ \E p \in Proposals : Submit(p)
           \/ \E b \in Actions : Approve(b) \/ Reject(b) \/ ClaimAges(b)
  <2>1. ASSUME NEW p \in Proposals, Submit(p)
        PROVE  status'[a] = status[a] /\ owner'[a] = owner[a] /\ approval'[a] = approval[a]
    BY <2>1 DEF Submit, TypeOK
  <2>2. ASSUME NEW b \in Actions, Approve(b) \/ Reject(b)
        PROVE  status'[a] = status[a] /\ owner'[a] = owner[a] /\ approval'[a] = approval[a]
    <3>1. b # a
      BY <2>2 DEF Approve, Reject
    <3>. QED
      BY <2>2, <3>1 DEF Approve, Reject, TypeOK
  <2>3. ASSUME NEW b \in Actions, ClaimAges(b)
        PROVE  status'[a] = status[a] /\ owner'[a] = owner[a] /\ approval'[a] = approval[a]
    BY <2>3 DEF ClaimAges
  <2>. QED
    BY <1>1, <2>1, <2>2, <2>3
<1>2. CASE \E v \in Watches : RecoverStale(v) \/ CancelImpossible(v) \/ Claim(v) \/ CancelBatch(v) \/ Finalize(v)
  <2>. PICK v \in Watches : RecoverStale(v) \/ CancelImpossible(v) \/ Claim(v) \/ CancelBatch(v) \/ Finalize(v)
    BY <1>2
  <2>1. pc[v] \in {"recover", "unhook", "claim", "batch", "mark"} /\ pc'[v] # pc[v]
    BY DEF RecoverStale, CancelImpossible, Claim, CancelBatch, Finalize, Goto, Sweep, Leave, TypeOK
  <2>. QED
    BY <2>1 DEF Alive
<1>3. CASE UNCHANGED board
  BY <1>3 DEF board
<1>4. UNCHANGED vars \/ LeaseExpires \/ (\E p \in Policies \union {Malformed} : EditPolicy(p)) => UNCHANGED board
  BY DEF vars, LeaseExpires, EditPolicy, board
<1>5. ASSUME NEW v \in Watches,
             \/ Setup(v) \/ BeginStep(v) \/ ReadPending(v) \/ ReadFound(v) \/ ReadCancelled(v)
             \/ ReadBaseline(v) \/ RecordImpossible(v) \/ EndReap(v) \/ EndLoop(v) \/ RequireLease(v)
             \/ CheckPolicy(v) \/ Gate(v) \/ GateCancelled(v) \/ GateHistory(v) \/ RecordDecision(v)
             \/ StartExecute(v)
      PROVE  UNCHANGED board
  BY <1>5 DEF Setup, BeginStep, ReadPending, ReadFound, ReadCancelled, ReadBaseline, RecordImpossible,
     EndReap, EndLoop, RequireLease, CheckPolicy, Gate, GateCancelled, GateHistory, RecordDecision,
     StartExecute
<1>6. ASSUME NEW v \in Watches,
             \/ FinishExecute(v) \/ HaltAfterTimeout(v) \/ StepFails(v) \/ StopRequested(v)
             \/ BeginShutdown(v) \/ HaltDrivers(v) \/ ReleaseLease(v) \/ Crash(v)
      PROVE  UNCHANGED board
  BY <1>6 DEF FinishExecute, HaltAfterTimeout, StepFails, StopRequested, BeginShutdown, HaltDrivers,
     ReleaseLease, Crash
<1>. QED
  BY <1>1, <1>2, <1>3, <1>4, <1>5, <1>6 DEF Next, StepOf, Shutdown

\* A claim is made with the approval that the policy of the step asks for.
LEMMA ClaimedApproved ==
  ASSUME TypeInv, NEW w \in Watches, Claim(w), pc'[w] = "policy"
  PROVE  /\ HoldsClaim(w)'
         /\ ctx'[w].base = ctx[w].base
         /\ act'[w] \in RequiresApproval[ctx[w].base] => approval'[act'[w]] = "approved"
<1>. TypeOK
  BY DEF TypeInv
<1>. PICK blocked \in SUBSET BlockableRobots : Claim(w)!(blocked)
  BY DEF Claim
<1>1. PICK a \in Actions :
        /\ Ready(a, ctx[w].base, blocked)
        /\ \A b \in Actions : Ready(b, ctx[w].base, blocked) => a <= b
        /\ status' = [RecoveredStatus EXCEPT ![a] = "in_progress"]
        /\ owner' = [RecoveredOwner EXCEPT ![a] = w]
        /\ act' = [act EXCEPT ![w] = a]
        /\ ctx' = [ctx EXCEPT ![w].left = @ - 1, ![w].claimed = Refreshed(a, ctx[w].base)]
  BY DEF Sweep, TypeOK
<1>2. act'[w] = a /\ status'[a] = "in_progress" /\ owner'[a] = w
  BY <1>1 DEF RecoveredStatus, RecoveredOwner, TypeOK
<1>3. approval'[a] = Refreshed(a, ctx[w].base)
  <2>1. RecoveredStatus[a] = "pending"
    BY <1>1 DEF Ready
  <2>. QED
    BY <1>1, <2>1
<1>4. ctx'[w].base = ctx[w].base
  <2>1. ctx' = [ctx EXCEPT ![w] = [ctx[w] EXCEPT !.left = ctx[w].left - 1, !.claimed = Refreshed(a, ctx[w].base)]]
    BY <1>1
  <2>2. ctx[w] \in Contexts /\ ctx'[w] = [ctx[w] EXCEPT !.left = ctx[w].left - 1, !.claimed = Refreshed(a, ctx[w].base)]
    BY <2>1 DEF TypeOK
  <2>. QED
    BY <2>2 DEF Contexts
<1>. QED
  BY <1>1, <1>2, <1>3, <1>4 DEF Ready, HoldsClaim

\* A rejected action is closed, whatever writes approvals.
LEMMA RejectedStaysClosed ==
  ASSUME TypeInv, Held, RejectedIsClosed, [Next]_vars
  PROVE  RejectedIsClosed'
<1>. TypeOK
  BY DEF TypeInv
<1>. SUFFICES ASSUME NEW a \in Actions, status'[a] \notin Terminal
              PROVE  approval'[a] # "rejected"
  BY DEF RejectedIsClosed
<1>1. status[a] \notin Terminal /\ approval[a] # "rejected"
  BY StatusMoves DEF Moves, RejectedIsClosed, Terminal
<1>2. ASSUME NEW p \in Proposals, Submit(p)
      PROVE  approval'[a] # "rejected"
  BY <1>1, <1>2 DEF Submit, TypeOK
<1>3. ASSUME NEW b \in Actions, Approve(b) \/ Reject(b) \/ ClaimAges(b)
      PROVE  approval'[a] # "rejected"
  <2>1. CASE Approve(b)
    BY <1>1, <2>1 DEF Approve, Refreshed, Decisions, TypeOK
  <2>2. CASE Reject(b)
    <3>1. a # b
      BY <2>2 DEF Reject, TypeOK, Terminal
    <3>. QED
      BY <1>1, <2>2, <3>1 DEF Reject, TypeOK
  <2>3. CASE ClaimAges(b)
    BY <1>1, <2>3 DEF ClaimAges
  <2>. QED
    BY <1>3, <2>1, <2>2, <2>3
<1>4. ASSUME NEW w \in Watches, CancelImpossible(w)
      PROVE  approval'[a] # "rejected"
  <2>1. CASE policy = Malformed
    BY <1>1, <1>4, <2>1 DEF CancelImpossible, board
  <2>2. CASE policy # Malformed
    <3>1. a # act[w]
      BY <1>4, <2>2 DEF CancelImpossible, TypeOK, Terminal
    <3>. QED
      BY <1>1, <1>4, <2>2, <3>1 DEF CancelImpossible, TypeOK
  <2>. QED
    BY <2>1, <2>2
<1>5. ASSUME NEW w \in Watches, Claim(w)
      PROVE  approval'[a] # "rejected"
  <2>1. approval'[a] \in {approval[a], Refreshed(a, ctx[w].base)}
    BY <1>5 DEF Claim
  <2>. QED
    BY <1>1, <2>1 DEF Refreshed, Decisions
<1>6. ASSUME NEW w \in Watches, Finalize(w)
      PROVE  approval'[a] # "rejected"
  <2>1. CASE ~HoldsClaim(w)
    BY <1>1, <1>6, <2>1 DEF Finalize, board
  <2>2. CASE HoldsClaim(w)
    <3>1. verdict[w] \in Terminal
      BY <1>6 DEF Finalize, TypeInv, LocalsOK, Settling
    <3>2. a # act[w]
      BY <1>6, <2>2, <3>1 DEF Finalize, TypeOK
    <3>. QED
      BY <1>1, <1>6, <2>2, <3>2 DEF Finalize, TypeOK
  <2>. QED
    BY <2>1, <2>2
<1>7. \/ UNCHANGED approval
      \/ \E p \in Proposals : Submit(p)
      \/ \E b \in Actions : Approve(b) \/ Reject(b) \/ ClaimAges(b)
      \/ \E w \in Watches : CancelImpossible(w) \/ Claim(w) \/ Finalize(w)
  <2>1. UNCHANGED vars \/ LeaseExpires \/ (\E p \in Policies \union {Malformed} : EditPolicy(p))
        => UNCHANGED approval
    BY DEF vars, LeaseExpires, EditPolicy, board
  <2>2. ASSUME NEW v \in Watches,
               \/ Setup(v) \/ BeginStep(v) \/ RecoverStale(v) \/ ReadPending(v) \/ ReadFound(v)
               \/ ReadCancelled(v) \/ ReadBaseline(v) \/ RecordImpossible(v) \/ EndReap(v) \/ EndLoop(v)
               \/ RequireLease(v) \/ CheckPolicy(v) \/ CancelBatch(v) \/ Gate(v) \/ GateCancelled(v)
               \/ GateHistory(v) \/ RecordDecision(v) \/ StartExecute(v) \/ FinishExecute(v) \/ HaltAfterTimeout(v)
               \/ StepFails(v) \/ StopRequested(v) \/ Shutdown(v) \/ Crash(v)
        PROVE  UNCHANGED approval
    BY <2>2 DEF Setup, BeginStep, RecoverStale, ReadPending, ReadFound, ReadCancelled, ReadBaseline,
       RecordImpossible, EndReap, EndLoop, RequireLease, CheckPolicy, CancelBatch, Gate, GateCancelled,
       GateHistory, RecordDecision, StartExecute, FinishExecute, HaltAfterTimeout, StepFails,
       StopRequested, Shutdown, BeginShutdown, HaltDrivers, ReleaseLease, Crash, board
  <2>. QED
    BY <2>1, <2>2 DEF Next, StepOf
<1>. QED
  BY <1>1, <1>2, <1>3, <1>4, <1>5, <1>6, <1>7

\* Under the assumption that only the dead and the leaving lose their lease, every step
\* keeps the live session alone and its claim as it was made.
LEMMA CalmStays ==
  ASSUME TypeInv, Calm, [Next]_vars
  PROVE  Calm'
<1>. SUFFICES ASSUME ~MaySuspend, NEW w \in Watches
              PROVE  /\ Alive(w)' => Owns(w)'
                     /\ pc'[w] \in Reached =>
                          /\ HoldsClaim(w)'
                          /\ act'[w] \in RequiresApproval[ctx'[w].base] => approval'[act'[w]] = "approved"
  BY DEF Calm
<1>1. ASSUME Alive(w)'
      PROVE  Owns(w)'
  <2>1. CASE Setup(w)
    BY <1>1, <2>1 DEF Setup, Alive, Owns, TypeInv, TypeOK
  <2>2. CASE ~Setup(w)
    <3>1. Alive(w) /\ lease = w /\ live
      BY <1>1, <2>2, Awakes DEF Calm, Owns
    <3>2. ~LeaseExpires
      BY <3>1 DEF LeaseExpires, Alive
    <3>3. ASSUME NEW v \in Watches, Setup(v)
          PROVE  UNCHANGED <<lease, live>>
      BY <3>1, <3>3 DEF Setup, leaseVars
    <3>4. ASSUME NEW v \in Watches, ReleaseLease(v)
          PROVE  UNCHANGED <<lease, live>>
      BY <3>1, <3>4 DEF ReleaseLease, Alive
    <3>. QED
      BY <3>1, <3>2, <3>3, <3>4, LeaseMoves DEF Owns
  <2>. QED
    BY <2>1, <2>2
<1>2. ASSUME NEW v \in Watches, Alive(v), Alive(w)
      PROVE  v = w
  BY <1>2 DEF Calm, Owns
<1>3. ASSUME pc'[w] \in Reached
      PROVE  /\ HoldsClaim(w)'
             /\ act'[w] \in RequiresApproval[ctx'[w].base] => approval'[act'[w]] = "approved"
  <2>1. CASE pc'[w] = pc[w] /\ act'[w] = act[w] /\ ctx'[w] = ctx[w]
    <3>1. Alive(w) /\ act[w] \in Actions
      BY <1>3, <2>1 DEF Alive, Reached, Holding, TypeInv, LocalsOK
    <3>2. HoldsClaim(w) /\ (act[w] \in RequiresApproval[ctx[w].base] => approval[act[w]] = "approved")
      BY <1>3, <2>1 DEF Calm
    <3>3. ~ \E v \in Watches : Alive(v) /\ pc'[v] # pc[v]
      BY <1>2, <2>1, <3>1
    <3>4. /\ status'[act[w]] = status[act[w]]
          /\ owner'[act[w]] = owner[act[w]]
          /\ approval'[act[w]] = approval[act[w]]
      BY <3>1, <3>2, <3>3, ClaimMoves DEF HoldsClaim
    <3>. QED
      BY <2>1, <3>2, <3>4 DEF HoldsClaim
  <2>2. CASE Claim(w) /\ pc'[w] = "policy"
    BY <2>2, ClaimedApproved
  <2>3. CASE pc[w] \in Reached /\ act'[w] = act[w] /\ ctx'[w] = ctx[w] /\ UNCHANGED board
    BY <2>3 DEF Calm, HoldsClaim, board
  <2>. QED
    BY <1>3, <2>1, <2>2, <2>3, SessionMoves DEF LocalMoves
<1>. QED
  BY <1>1, <1>3

\* Unless a runtime may stall longer than its lease: who is alive has the lease, and where it
\* has claimed an action the claim stands, approved where its policy asks.
THEOREM CalmHolds == Spec => []Calm
<1>1. Init => Calm
  BY DEF Init, Calm, Alive, Reached, Holding
<1>. QED
  BY <1>1, CalmStays, Typing, PTL DEF Spec

\* A rejected action is terminal, however late a step writes the approval it has read.
THEOREM RejectedIsClosedHolds == Spec => []RejectedIsClosed
<1>1. Init => RejectedIsClosed
  BY DEF Init, RejectedIsClosed
<1>. QED
  BY <1>1, RejectedStaysClosed, HeldHolds, Typing, PTL DEF Spec

\* For any number of sessions: at most one of them is calling or about to call a driver's
\* execute or halt, unless a runtime may stall longer than its lease.
THEOREM SoleHardwareUserHolds == Spec => []SoleHardwareUser
<1>1. Calm => SoleHardwareUser
  BY DEF Calm, SoleHardwareUser, TouchesHardware, Alive, Owns
<1>. QED
  BY <1>1, CalmHolds, PTL

\* For any policies and any decisions of the humans, under the same assumption: who calls
\* execute holds the claim, the action is not rejected, and approved where it must be.
THEOREM RunsOnStandingClaimHolds == Spec => []RunsOnStandingClaim
<1>1. TypeInv /\ Calm /\ RejectedIsClosed => RunsOnStandingClaim
  BY DEF Calm, RejectedIsClosed, RunsOnStandingClaim, HoldsClaim, Reached, Holding, Terminal, TypeInv, LocalsOK
<1>. QED
  BY <1>1, CalmHolds, RejectedIsClosedHolds, Typing, PTL
-----------------------------------------------------------------------------
(* Dependencies *)

\* None of the actions X ever becomes ready: each is cancelled, or pending behind
\* a cancelled action or another one of X.
Doomed(X) ==
    \A a \in X :
        \/ status[a] = "cancelled"
        \/ status[a] = "pending" /\ \E d \in DependsOn[a] : status[d] = "cancelled" \/ d \in X

\* What a missing id may still be, between the SELECTs.
Unread == [claims |-> {"in_progress", "completed", "cancelled"},
           completions |-> {"completed", "cancelled"},
           cancellations |-> {"cancelled"}]

\* No plan lacks a part; and unless a runtime stalls, what a session is reading is as it
\* has been read, and what it takes for impossible is so, however long ago it read it.
Fates ==
    /\ \A a \in Actions : status[a] # "absent" => \A d \in DependsOn[a] : status[d] # "absent"
    /\ ~MaySuspend => \A w \in Watches :
         /\ pc[w] \in DOMAIN Unread =>
              /\ \A a \in ctx[w].reap : status[a] \in {"pending", "cancelled"}
              /\ \A d \in ctx[w].missing : status[d] \in Unread[pc[w]]
         /\ pc[w] \in {"baseline", "reap", "unhook"} =>
              \E X \in SUBSET Actions : Doomed(X) /\ ctx[w].reap \subseteq X

\* The impossible actions are doomed, if nothing was missed: the least fixed point is
\* a fixed point.
LEMMA ImpossibleIsDoomed ==
  ASSUME TypeOK, NEW P \in SUBSET Actions, NEW M \in SUBSET Actions,
         \A a \in P : status[a] \in {"pending", "cancelled"},
         \A d \in M : status[d] = "cancelled"
  PROVE  /\ Impossible(P, M, WithStatus("cancelled")) \in SUBSET Actions
         /\ Doomed(Impossible(P, M, WithStatus("cancelled")))
<1>. DEFINE C == WithStatus("cancelled")
            I == Impossible(P, M, C)
            Ends(a, X) == DependsOn[a] \intersect (M \union C \union X) # {}
            Closed(X) == \A a \in P : Ends(a, X) => a \in X
            Behind == {a \in P : Ends(a, I)}
<1>1. I = {a \in P : \A X \in SUBSET P : Closed(X) => a \in X}
  BY DEF Impossible
<1>. HIDE DEF I
<1>2. Closed(I)
  <2>. SUFFICES ASSUME NEW a \in P, Ends(a, I),
                       NEW X \in SUBSET P, Closed(X)
                PROVE  a \in X
    BY <1>1
  <2>1. I \subseteq X
    BY <1>1
  <2>. QED
    BY <2>1
<1>3. Closed(Behind) /\ Behind \in SUBSET P
  <2>1. Behind \subseteq I
    BY <1>2
  <2>. QED
    BY <2>1
<1>4. I \subseteq Behind
  BY <1>1, <1>3
<1>5. I \in SUBSET Actions /\ \A a \in I : status[a] \in {"pending", "cancelled"}
  BY <1>1
<1>6. \A a \in I : \E d \in DependsOn[a] : status[d] = "cancelled" \/ d \in I
  BY <1>4 DEF WithStatus
<1>7. Doomed(I)
  BY <1>5, <1>6 DEF Doomed
<1>. QED
  BY <1>5, <1>7 DEF I

\* What is doomed stays doomed.
LEMMA DoomedStays ==
  ASSUME TypeOK, Moves, NEW X \in SUBSET Actions, Doomed(X)
  PROVE  Doomed(X)'
<1>. SUFFICES ASSUME NEW a \in X
              PROVE  \/ status'[a] = "cancelled"
                     \/ /\ status'[a] = "pending"
                        /\ \E d \in DependsOn[a] : status'[d] = "cancelled" \/ d \in X
  BY DEF Doomed
<1>1. \A b \in Actions : status[b] = "cancelled" => status'[b] = "cancelled"
  BY DEF Moves
<1>2. CASE status[a] = "cancelled"
  BY <1>1, <1>2
<1>3. CASE status[a] # "cancelled"
  <2>1. PICK d \in DependsOn[a] : status[d] = "cancelled" \/ d \in X
    BY <1>3 DEF Doomed
  <2>2. d \in Actions /\ status[a] = "pending" /\ status[d] # "completed"
    BY <1>3, <2>1, WatchBoardAssumption DEF Doomed
  <2>. QED
    BY <1>1, <2>1, <2>2 DEF Moves, DependenciesMet
<1>. QED
  BY <1>2, <1>3

\* While a session reads, and no runtime stalls, humans and proposers alone change a status.
LEMMA OthersAreHumans ==
  ASSUME TypeInv, Calm, ~MaySuspend, [Next]_vars, NEW w \in Watches, pc[w] \in DOMAIN Unread
  PROVE  \A a \in Actions : \/ status'[a] = status[a]
                            \/ status[a] = "absent" /\ status'[a] = "pending"
                            \/ status[a] = "pending" /\ status'[a] = "cancelled"
<1>. TypeOK
  BY DEF TypeInv
<1>1. CASE (\E p \in Proposals : Submit(p)) \/ (\E b \in Actions : Approve(b) \/ Reject(b) \/ ClaimAges(b))
  BY <1>1 DEF Submit, Approve, Reject, ClaimAges, TypeOK
<1>2. ASSUME NEW v \in Watches,
             RecoverStale(v) \/ CancelImpossible(v) \/ Claim(v) \/ CancelBatch(v) \/ Finalize(v)
      PROVE  FALSE
  <2>1. pc[v] \in {"recover", "unhook", "claim", "batch", "mark"}
    BY <1>2 DEF RecoverStale, CancelImpossible, Claim, CancelBatch, Finalize
  <2>2. Alive(v) /\ Alive(w) /\ v # w
    BY <2>1 DEF Alive, Unread
  <2>. QED
    BY <2>2 DEF Calm, Owns
<1>3. UNCHANGED vars \/ LeaseExpires \/ (\E p \in Policies \union {Malformed} : EditPolicy(p)) => UNCHANGED board
  BY DEF vars, LeaseExpires, EditPolicy, board
<1>4. ASSUME NEW v \in Watches,
             \/ Setup(v) \/ BeginStep(v) \/ ReadPending(v) \/ ReadFound(v) \/ ReadCancelled(v)
             \/ ReadBaseline(v) \/ RecordImpossible(v) \/ EndReap(v) \/ EndLoop(v) \/ RequireLease(v)
             \/ CheckPolicy(v) \/ Gate(v) \/ GateCancelled(v) \/ GateHistory(v) \/ RecordDecision(v)
             \/ StartExecute(v)
      PROVE  UNCHANGED board
  BY <1>4 DEF Setup, BeginStep, ReadPending, ReadFound, ReadCancelled, ReadBaseline, RecordImpossible, EndReap,
     EndLoop, RequireLease, CheckPolicy, Gate, GateCancelled, GateHistory, RecordDecision, StartExecute
<1>5. ASSUME NEW v \in Watches,
             \/ FinishExecute(v) \/ HaltAfterTimeout(v) \/ StepFails(v) \/ StopRequested(v)
             \/ Shutdown(v) \/ Crash(v)
      PROVE  UNCHANGED board
  BY <1>5 DEF FinishExecute, HaltAfterTimeout, StepFails, StopRequested, Shutdown, BeginShutdown, HaltDrivers,
     ReleaseLease, Crash
<1>. QED
  BY <1>1, <1>2, <1>3, <1>4, <1>5 DEF Next, StepOf, board

\* How a session gets from SELECT to SELECT.
LEMMA ReadMoves ==
  ASSUME TypeInv, [Next]_vars, NEW w \in Watches, pc'[w] \in DOMAIN Unread
  PROVE  \/ pc'[w] = pc[w] /\ ctx'[w] = ctx[w]
         \/ /\ pc'[w] = "claims" /\ UNCHANGED board
            /\ ctx'[w].reap = {a \in WithStatus("pending") : DependsOn[a] # {}}
            /\ ctx'[w].missing = (UNION {DependsOn[a] : a \in ctx'[w].reap}) \ WithStatus("pending")
         \/ /\ UNCHANGED board /\ ctx'[w].reap = ctx[w].reap
            /\ \/ /\ pc[w] = "claims" /\ pc'[w] = "completions"
                  /\ ctx'[w].missing = ctx[w].missing \ WithStatus("in_progress")
               \/ /\ pc[w] = "completions" /\ pc'[w] = "cancellations"
                  /\ ctx'[w].missing = ctx[w].missing \ WithStatus("completed")
<1>. TypeOK /\ ctx[w] \in Contexts
  BY DEF TypeInv, TypeOK
<1>1. CASE UNCHANGED vars \/ LeaseExpires \/ (\E p \in Proposals : Submit(p))
           \/ (\E a \in Actions : Approve(a) \/ Reject(a) \/ ClaimAges(a))
           \/ (\E p \in Policies \union {Malformed} : EditPolicy(p))
  <2>1. UNCHANGED session
    BY <1>1 DEF vars, LeaseExpires, Submit, Approve, Reject, ClaimAges, EditPolicy, session
  <2>. QED
    BY <2>1 DEF session
<1>2. CASE \E v \in Watches \ {w} : \/ Setup(v) \/ StepOf(v) \/ StepFails(v) \/ StopRequested(v)
                                    \/ Shutdown(v) \/ Crash(v)
  BY <1>2, OnlyOwnLocals
<1>3. CASE ReadPending(w)
  <2>1. policy # Malformed
    BY <1>3 DEF ReadPending, Leave, TypeOK, Unread
  <2>. QED
    BY <1>3, <2>1, PendingRead DEF TypeOK
<1>4. CASE ReadFound(w)
  <2>1. PICK at \in {"claims", "completions"} :
          LET f == WithStatus(IF at = "claims" THEN "in_progress" ELSE "completed") IN
          /\ pc[w] = at
          /\ pc' = [pc EXCEPT ![w] = IF at = "claims" THEN "completions" ELSE "cancellations"]
          /\ ctx' = [ctx EXCEPT ![w] = [ctx[w] EXCEPT !.missing = ctx[w].missing \ f]]
          /\ UNCHANGED board
    BY <1>4 DEF ReadFound
  <2>. QED
    BY <2>1 DEF TypeOK, Contexts
<1>5. ~(\/ Setup(w) \/ StepFails(w) \/ StopRequested(w) \/ Shutdown(w) \/ Crash(w)
        \/ BeginStep(w) \/ RecoverStale(w) \/ EndReap(w) \/ EndLoop(w) \/ Claim(w) \/ ReadCancelled(w)
        \/ ReadBaseline(w) \/ RecordImpossible(w) \/ CancelImpossible(w))
  BY DEF Setup, StepFails, StopRequested, Shutdown, BeginShutdown, HaltDrivers, ReleaseLease, Crash,
     BeginStep, RecoverStale, EndReap, EndLoop, Claim, ReadCancelled, ReadBaseline, RecordImpossible,
     CancelImpossible, Goto, Sweep, Leave, TypeOK, Unread
<1>6. ~(\/ CheckPolicy(w) \/ CancelBatch(w) \/ Gate(w) \/ GateCancelled(w) \/ GateHistory(w)
        \/ RecordDecision(w) \/ StartExecute(w) \/ FinishExecute(w) \/ HaltAfterTimeout(w) \/ Finalize(w))
  BY DEF CheckPolicy, CancelBatch, Gate, GateCancelled, GateHistory, RecordDecision, StartExecute,
     FinishExecute, HaltAfterTimeout, Finalize, Goto, Leave, TypeOK, Unread
<1>7. ~RequireLease(w)
  BY DEF RequireLease, Guarded, Goto, Leave, TypeOK, Unread
<1>. QED
  BY <1>1, <1>2, <1>3, <1>4, <1>5, <1>6, <1>7 DEF Next, StepOf

\* How a session comes to the impossible actions it rejects.
LEMMA ReapMoves ==
  ASSUME TypeInv, [Next]_vars, NEW w \in Watches, pc'[w] \in {"baseline", "reap", "unhook"}
  PROVE  \/ pc[w] \in {"baseline", "reap", "unhook"} /\ ctx'[w].reap \subseteq ctx[w].reap
         \/ ReadCancelled(w)
<1>. TypeOK
  BY DEF TypeInv
<1>1. pc'[w] # "claims" /\ pc'[w] \in Scanning
  BY DEF Scanning
<1>2. pc[w] \in Scanning /\ ctx'[w].reap \subseteq ctx[w].reap
  BY <1>1, ScanMoves
<1>3. ASSUME pc[w] \in DOMAIN Unread
      PROVE  ReadCancelled(w)
  <2>1. CASE UNCHANGED vars \/ LeaseExpires \/ (\E p \in Proposals : Submit(p))
             \/ (\E a \in Actions : Approve(a) \/ Reject(a) \/ ClaimAges(a))
             \/ (\E p \in Policies \union {Malformed} : EditPolicy(p))
    <3>1. UNCHANGED session
      BY <2>1 DEF vars, LeaseExpires, Submit, Approve, Reject, ClaimAges, EditPolicy, session
    <3>. QED
      BY <1>3, <3>1 DEF session, Unread
  <2>2. CASE \E v \in Watches \ {w} : \/ Setup(v) \/ StepOf(v) \/ StepFails(v) \/ StopRequested(v)
                                      \/ Shutdown(v) \/ Crash(v)
    BY <1>3, <2>2, OnlyOwnLocals DEF Unread
  <2>3. ~(Setup(w) \/ StepFails(w) \/ StopRequested(w) \/ Shutdown(w) \/ Crash(w))
    BY <1>3 DEF Setup, StepFails, StopRequested, Shutdown, BeginShutdown, HaltDrivers, ReleaseLease,
       Crash, Leave, TypeOK, Unread
  <2>4. ~(\/ BeginStep(w) \/ RecoverStale(w) \/ ReadPending(w) \/ ReadFound(w) \/ ReadBaseline(w)
          \/ RecordImpossible(w) \/ CancelImpossible(w) \/ EndReap(w) \/ EndLoop(w) \/ RequireLease(w)
          \/ Claim(w) \/ CheckPolicy(w) \/ CancelBatch(w) \/ Gate(w) \/ GateCancelled(w) \/ GateHistory(w)
          \/ RecordDecision(w) \/ StartExecute(w) \/ FinishExecute(w) \/ HaltAfterTimeout(w) \/ Finalize(w))
    BY <1>3 DEF BeginStep, RecoverStale, ReadPending, ReadFound, ReadBaseline, RecordImpossible,
       CancelImpossible, EndReap, EndLoop, RequireLease, Guarded, Claim, CheckPolicy, CancelBatch, Gate,
       GateCancelled, GateHistory, RecordDecision, StartExecute, FinishExecute, HaltAfterTimeout,
       Finalize, TypeOK, Unread
  <2>. QED
    BY <2>1, <2>2, <2>3, <2>4 DEF Next, StepOf
<1>. QED
  BY <1>2, <1>3 DEF Scanning, Unread

\* The plans stay whole, and what is impossible stays so.
LEMMA FatesStay ==
  ASSUME TypeInv, Held, Calm, Fates, [Next]_vars
  PROVE  Fates'
<1>. TypeOK /\ Moves
  BY StatusMoves DEF TypeInv
<1>1. ASSUME NEW a \in Actions, status'[a] # "absent", NEW d \in DependsOn[a]
      PROVE  status'[d] # "absent"
  <2>1. d \in Actions
    BY WatchBoardAssumption
  <2>. QED
    BY <1>1, <2>1 DEF Moves, Fates, Terminal
<1>2. ASSUME ~MaySuspend, NEW w \in Watches, pc'[w] \in DOMAIN Unread
      PROVE  /\ \A a \in ctx'[w].reap : status'[a] \in {"pending", "cancelled"}
             /\ \A d \in ctx'[w].missing : status'[d] \in Unread[pc'[w]]
  <2>0. ctx[w] \in Contexts
    BY DEF TypeOK
  <2>1. CASE pc'[w] = pc[w] /\ ctx'[w] = ctx[w]
    <3>1. \A a \in Actions : \/ status'[a] = status[a]
                             \/ status[a] = "absent" /\ status'[a] = "pending"
                             \/ status[a] = "pending" /\ status'[a] = "cancelled"
      BY <1>2, <2>1, OthersAreHumans
    <3>2. ctx[w].reap \subseteq Actions /\ ctx[w].missing \subseteq Actions
      BY <2>0 DEF Contexts
    <3>3. /\ \A a \in ctx[w].reap : status[a] \in {"pending", "cancelled"}
          /\ \A d \in ctx[w].missing : status[d] \in Unread[pc[w]]
          /\ pc[w] \in DOMAIN Unread
      BY <1>2, <2>1 DEF Fates
    <3>4. \A d \in ctx[w].missing : status[d] \notin {"absent", "pending"}
      BY <3>3 DEF Unread
    <3>. QED
      BY <2>1, <3>1, <3>2, <3>3, <3>4
  <2>2. CASE /\ pc'[w] = "claims" /\ UNCHANGED board
             /\ ctx'[w].reap = {a \in WithStatus("pending") : DependsOn[a] # {}}
             /\ ctx'[w].missing = (UNION {DependsOn[a] : a \in ctx'[w].reap}) \ WithStatus("pending")
    <3>1. \A d \in ctx'[w].missing : d \in Actions /\ status[d] \notin {"absent", "pending"}
      BY <2>2, WatchBoardAssumption DEF Fates, WithStatus
    <3>2. \A d \in ctx'[w].missing : status[d] \in {"in_progress", "completed", "cancelled"}
      BY <3>1 DEF TypeOK, Statuses, Terminal
    <3>3. Unread[pc'[w]] = {"in_progress", "completed", "cancelled"}
      BY <2>2 DEF Unread
    <3>. QED
      BY <2>2, <3>2, <3>3 DEF WithStatus, board
  <2>3. CASE /\ UNCHANGED board /\ ctx'[w].reap = ctx[w].reap
             /\ \/ /\ pc[w] = "claims" /\ pc'[w] = "completions"
                   /\ ctx'[w].missing = ctx[w].missing \ WithStatus("in_progress")
                \/ /\ pc[w] = "completions" /\ pc'[w] = "cancellations"
                   /\ ctx'[w].missing = ctx[w].missing \ WithStatus("completed")
    <3>1. ctx[w].missing \subseteq Actions
      BY <2>0 DEF Contexts
    <3>. QED
      BY <1>2, <2>3, <3>1 DEF Fates, Unread, WithStatus, board
  <2>. QED
    BY <1>2, <2>1, <2>2, <2>3, ReadMoves
<1>3. ASSUME ~MaySuspend, NEW w \in Watches, pc'[w] \in {"baseline", "reap", "unhook"}
      PROVE  \E X \in SUBSET Actions : Doomed(X)' /\ ctx'[w].reap \subseteq X
  <2>1. ASSUME NEW X \in SUBSET Actions, Doomed(X), ctx'[w].reap \subseteq X
        PROVE  \E Y \in SUBSET Actions : Doomed(Y)' /\ ctx'[w].reap \subseteq Y
    <3>1. Doomed(X)'
      BY <2>1, DoomedStays
    <3>. QED
      BY <2>1, <3>1
  <2>2. CASE pc[w] \in {"baseline", "reap", "unhook"} /\ ctx'[w].reap \subseteq ctx[w].reap
    <3>1. PICK X \in SUBSET Actions : Doomed(X) /\ ctx[w].reap \subseteq X
      BY <1>3, <2>2 DEF Fates
    <3>. QED
      BY <2>1, <2>2, <3>1
  <2>3. CASE ReadCancelled(w)
    <3>. DEFINE X == Impossible(ctx[w].reap, ctx[w].missing, WithStatus("cancelled"))
    <3>1. PICK c : ctx' = [ctx EXCEPT ![w] = [ctx[w] EXCEPT !.reap = X, !.missing = {}, !.copy = c]]
      BY <2>3 DEF ReadCancelled
    <3>2. pc[w] = "cancellations" /\ ctx[w] \in Contexts
      BY <2>3 DEF ReadCancelled, TypeOK
    <3>3. /\ ctx[w].reap \in SUBSET Actions /\ ctx[w].missing \in SUBSET Actions
          /\ \A a \in ctx[w].reap : status[a] \in {"pending", "cancelled"}
          /\ \A d \in ctx[w].missing : status[d] = "cancelled"
      BY <1>3, <3>2 DEF Fates, Unread, Contexts
    <3>4. X \in SUBSET Actions /\ Doomed(X)
      BY <3>3, ImpossibleIsDoomed
    <3>. HIDE DEF X
    <3>5. ctx'[w].reap = X
      BY <3>1, <3>2 DEF TypeOK, Contexts
    <3>. QED
      BY <2>1, <3>4, <3>5
  <2>4. CASE pc[w] \notin {"baseline", "reap", "unhook"} /\ ~ReadCancelled(w)
    BY <1>3, <2>4, ReapMoves
  <2>. QED
    BY <1>3, <2>2, <2>3, <2>4, ReapMoves
<1>. QED
  BY <1>1, <1>2, <1>3 DEF Fates

\* Unless a runtime stalls longer than its lease: what a session takes for impossible, and
\* rejects as such, is impossible and stays so, though it reads the board in four parts.
THEOREM ImpossibleStays == Spec => []Fates
<1>1. Init => Fates
  BY WatchBoardAssumption DEF Init, Fates, Unread
<1>. QED
  BY <1>1, FatesStay, HeldHolds, CalmHolds, Typing, PTL DEF Spec

\* An action that ran, and ended well if nobody has overwritten it since.
Good(d) == ran[d] > 0 /\ (status[d] = "completed" \/ Overwritten(d))

\* What is completed ran; what a session has claimed may run; and what it has run it
\* has run for the action it holds.
Runs ==
    /\ \A a \in Actions : status[a] = "completed" => ran[a] > 0
    /\ DependenciesFirst
    /\ \A w \in Watches : pc[w] \in Reached => \A d \in DependsOn[act[w]] : Good(d)
    /\ \A w \in Watches :
         pc[w] = "run" \/ (pc[w] \in Settling /\ verdict[w] = "completed") => ran[act[w]] > 0

\* An action that is cancelled and has no owner gets none.
LEMMA NoOwnerReturns ==
  ASSUME TypeInv, [Next]_vars, NEW a \in Actions, status[a] = "cancelled", owner[a] = NoWatch
  PROVE  status'[a] = "cancelled" /\ owner'[a] = NoWatch
<1>. TypeOK
  BY DEF TypeInv
<1>1. CASE \/ \E p \in Proposals : Submit(p)
           \/ \E b \in Actions : Approve(b) \/ Reject(b) \/ ClaimAges(b)
  BY <1>1 DEF Submit, Approve, Reject, ClaimAges, TypeOK
<1>2. CASE \E w \in Watches : RecoverStale(w)
  BY <1>2 DEF RecoverStale, RecoveredStatus, RecoveredOwner, TypeOK
<1>3. CASE \E w \in Watches : CancelImpossible(w)
  BY <1>3 DEF CancelImpossible, board, TypeOK
<1>4. CASE \E w \in Watches : CancelBatch(w)
  BY <1>4 DEF CancelBatch, HoldsClaim, WithStatus, board, TypeOK
<1>5. CASE \E w \in Watches : Finalize(w)
  BY <1>5 DEF Finalize, HoldsClaim, board, TypeOK
<1>6. ASSUME NEW w \in Watches, Claim(w)
      PROVE  status'[a] = "cancelled" /\ owner'[a] = NoWatch
  <2>1. RecoveredStatus[a] = "cancelled" /\ RecoveredOwner[a] = NoWatch
    BY DEF RecoveredStatus, RecoveredOwner
  <2>2. CASE status' = RecoveredStatus /\ owner' = RecoveredOwner
    BY <2>1, <2>2
  <2>3. ASSUME NEW b \in Actions, RecoveredStatus[b] = "pending",
               status' = [RecoveredStatus EXCEPT ![b] = "in_progress"],
               owner' = [RecoveredOwner EXCEPT ![b] = w]
        PROVE  status'[a] = "cancelled" /\ owner'[a] = NoWatch
    BY <2>1, <2>3 DEF RecoveredStatus, RecoveredOwner
  <2>. QED
    BY <1>6, <2>2, <2>3 DEF Claim, Ready
<1>7. UNCHANGED vars \/ LeaseExpires \/ (\E p \in Policies \union {Malformed} : EditPolicy(p)) => UNCHANGED board
  BY DEF vars, LeaseExpires, EditPolicy, board
<1>8. ASSUME NEW w \in Watches,
             \/ Setup(w) \/ BeginStep(w) \/ ReadPending(w) \/ ReadFound(w) \/ ReadCancelled(w)
             \/ ReadBaseline(w) \/ RecordImpossible(w) \/ EndReap(w) \/ EndLoop(w) \/ RequireLease(w)
             \/ CheckPolicy(w) \/ Gate(w) \/ GateCancelled(w) \/ GateHistory(w) \/ RecordDecision(w)
             \/ StartExecute(w)
      PROVE  UNCHANGED board
  BY <1>8 DEF Setup, BeginStep, ReadPending, ReadFound, ReadCancelled, ReadBaseline, RecordImpossible, EndReap,
     EndLoop, RequireLease, CheckPolicy, Gate, GateCancelled, GateHistory, RecordDecision, StartExecute
<1>9. ASSUME NEW w \in Watches,
             \/ FinishExecute(w) \/ HaltAfterTimeout(w) \/ StepFails(w) \/ StopRequested(w)
             \/ Shutdown(w) \/ Crash(w)
      PROVE  UNCHANGED board
  BY <1>9 DEF FinishExecute, HaltAfterTimeout, StepFails, StopRequested, Shutdown, BeginShutdown, HaltDrivers,
     ReleaseLease, Crash
<1>. QED
  BY <1>1, <1>2, <1>3, <1>4, <1>5, <1>6, <1>7, <1>8, <1>9 DEF Next, StepOf, board

\* What ended well did so for good, but for the update that is not fenced.
LEMMA GoodStays ==
  ASSUME TypeInv, Held, Calm, [Next]_vars, NEW d \in Actions, Good(d)
  PROVE  Good(d)'
<1>. TypeOK /\ Moves
  BY StatusMoves DEF TypeInv
<1>1. ran'[d] > 0
  BY Calls DEF Good, TypeOK
<1>2. CASE Overwritten(d)
  BY <1>1, <1>2, NoOwnerReturns DEF Overwritten, Good
<1>3. CASE status[d] = "completed"
  <2>1. status'[d] = "completed" \/ (status'[d] = "cancelled" /\ owner'[d] = NoWatch /\ Late(d))
    BY <1>3 DEF Moves
  <2>2. Late(d) => MaySuspend
    BY DEF Late, Calm, Alive
  <2>. QED
    BY <1>1, <2>1, <2>2 DEF Good, Overwritten
<1>. QED
  BY <1>2, <1>3 DEF Good

\* What is completed ran, and whatever is claimed, fired or settled comes after all it
\* depends on, which ran and ended well, unless a stalled runtime has overwritten it.
THEOREM CallsAreInOrder == Spec => []Runs
<1>1. Init => Runs
  BY DEF Init, Runs, DependenciesFirst, Reached, Holding, Settling
<1>2. TypeInv /\ Held /\ Calm /\ Runs /\ [Next]_vars => Runs'
  <2>. SUFFICES ASSUME TypeInv, Held, Calm, Runs, [Next]_vars
                PROVE  Runs'
    OBVIOUS
  <2>1. Moves
    BY StatusMoves
  <2>2. \A a \in Actions : ran'[a] \in Nat /\ ran[a] \in Nat /\ ran'[a] >= ran[a]
    BY Calls DEF TypeInv, TypeOK
  <2>3. \A a \in Actions : \A d \in DependsOn[a] : d \in Actions
    BY WatchBoardAssumption
  <2>4. ASSUME NEW a \in Actions, \A d \in DependsOn[a] : Good(d)
        PROVE  \A d \in DependsOn[a] : Good(d)'
    BY <2>3, <2>4, GoodStays
  <2>5. ASSUME NEW a \in Actions, status'[a] = "completed"
        PROVE  ran'[a] > 0
    <3>1. status[a] = "completed" \/ \E w \in Watches : Finalize(w) /\ act[w] = a /\ verdict[w] = "completed"
      BY <2>1, <2>5 DEF Moves, Terminal
    <3>2. ran[a] > 0
      BY <3>1 DEF Runs, Finalize, Settling
    <3>. QED
      BY <2>2, <3>2
  <2>6. ASSUME NEW a \in Actions, ran'[a] > 0
        PROVE  \A d \in DependsOn[a] : Good(d)'
    <3>1. CASE ran[a] > 0
      BY <2>4, <3>1 DEF Runs, DependenciesFirst, Good
    <3>2. CASE ~(ran[a] > 0)
      <4>1. \E w \in Watches : pc[w] = "fire" /\ act[w] = a
        BY <2>6, <3>2, Calls DEF TypeInv, TypeOK
      <4>. QED
        BY <2>4, <4>1 DEF Runs, Reached, Holding
    <3>. QED
      BY <3>1, <3>2
  <2>7. ASSUME NEW w \in Watches, pc'[w] \in Reached
        PROVE  \A d \in DependsOn[act'[w]] : Good(d)'
    <3>1. CASE pc[w] \in Reached /\ act'[w] = act[w]
      <4>1. act[w] \in Actions
        BY <3>1 DEF TypeInv, LocalsOK, Reached
      <4>. QED
        BY <2>4, <3>1, <4>1 DEF Runs
    <3>2. CASE act'[w] \in Actions /\ DependenciesMet(act'[w])
      BY <2>3, <2>4, <3>2 DEF DependenciesMet, Runs, Good
    <3>. QED
      BY <2>7, <3>1, <3>2, SessionMoves DEF LocalMoves
  <2>8. ASSUME NEW w \in Watches,
               pc'[w] = "run" \/ (pc'[w] \in Settling /\ verdict'[w] = "completed")
        PROVE  ran'[act'[w]] > 0
    <3>1. pc'[w] \in Reached
      BY <2>8 DEF Reached, Holding, Settling
    <3>2. \/ act'[w] = act[w] /\ act[w] \in Actions /\ ran[act[w]] > 0
          \/ pc'[w] = "run" /\ StartExecute(w)
      BY <2>8, <3>1, SessionMoves DEF LocalMoves, Runs, TypeInv, LocalsOK, Reached, Holding, Settling
    <3>3. StartExecute(w) => ran'[act'[w]] > 0
      BY DEF StartExecute, Goto, TypeInv, TypeOK, LocalsOK, Holding
    <3>. QED
      BY <2>2, <3>2, <3>3
  <2>. QED
    BY <2>5, <2>6, <2>7, <2>8 DEF Runs, DependenciesFirst, Good, Overwritten
<1>. QED
  BY <1>1, <1>2, HeldHolds, CalmHolds, Typing, PTL DEF Spec

\* For any plan, any policies and any sessions: what has moved the hardware did so after
\* everything it depends on had run and was recorded as completed, which it stays unless
\* a runtime that has stalled beyond its lease overwrites it.
COROLLARY DependenciesFirstHolds == Spec => []DependenciesFirst
<1>1. Runs => DependenciesFirst
  BY DEF Runs
<1>. QED
  BY <1>1, CallsAreInOrder, PTL
-----------------------------------------------------------------------------
(* The promise to the proposer *)

\* A submission opens the actions of its proposal.
LEMMA SubmitProposes ==
  ASSUME TypeOK, NEW p \in Proposals, Submit(p)
  PROVE  Promise!Propose
<1>. DEFINE S == {a \in Actions : ProposalOf[a] = p}
<1>1. \A a \in S : /\ Life[a] = "absent"
                   /\ \A d \in DependsOn[a] : d \in S \/ Life[d] # "absent"
  BY WatchBoardAssumption DEF Submit, Life, TypeOK
<1>2. \A a \in Actions : Life'[a] = IF a \in S THEN "open" ELSE Life[a]
  BY DEF Submit, Life, TypeOK
<1>3. Promise!Become(S, "open")
  BY <1>2 DEF Promise!Become, Life, Submit
<1>. QED
  BY <1>1, <1>3 DEF Promise!Propose

\* The call of a driver is the call promised: the first one, after the dependencies, and for
\* an open action.
LEMMA ExecuteCalls ==
  ASSUME ~MaySuspend, TypeInv, Runs, Calm, Once, NEW w \in Watches, StartExecute(w)
  PROVE  Promise!Call(act[w])
<1>1. pc[w] = "fire" /\ act[w] \in Actions /\ ran' = [ran EXCEPT ![act[w]] = @ + 1] /\ UNCHANGED status
  BY DEF StartExecute, board, TypeInv, LocalsOK, Holding
<1>2. ran[act[w]] = 0
  BY <1>1 DEF Once
<1>3. act[w] \in Promise!Open
  BY <1>1 DEF Calm, HoldsClaim, Reached, Holding, Promise!Open, Life
<1>4. \A d \in DependsOn[act[w]] : Life[d] = "completed"
  BY <1>1, WatchBoardAssumption DEF Runs, Good, Overwritten, Reached, Holding, Life
<1>5. UNCHANGED Life
  BY <1>1 DEF Life
<1>. QED
  BY <1>1, <1>2, <1>3, <1>4, <1>5 DEF Promise!Call

\* The fenced update to "completed" closes an action that was open and has been called.
LEMMA FinalizeCompletes ==
  ASSUME TypeInv, Runs, Once, NEW w \in Watches, Finalize(w), verdict[w] = "completed", HoldsClaim(w)
  PROVE  Promise!Complete(act[w])
<1>1. pc[w] = "mark" /\ act[w] \in Actions /\ status' = [status EXCEPT ![act[w]] = "completed"] /\ UNCHANGED ran
  BY DEF Finalize, TypeInv, LocalsOK, Holding
<1>2. ran[act[w]] = 1
  BY <1>1 DEF Runs, Once, Settling, TypeInv, TypeOK
<1>3. act[w] \in Promise!Open
  BY <1>1 DEF HoldsClaim, Promise!Open, Life
<1>4. \A a \in Actions : Life'[a] = IF a \in {act[w]} THEN "completed" ELSE Life[a]
  BY <1>1 DEF Life, TypeInv, TypeOK
<1>5. Promise!Become({act[w]}, "completed")
  BY <1>1, <1>4 DEF Promise!Become, Life
<1>. QED
  BY <1>2, <1>3, <1>5 DEF Promise!Complete

\* Any other step cancels open actions: several, one or none.
LEMMA OthersCancel ==
  ASSUME ~MaySuspend, TypeInv, Calm, Moves, ran' = ran, ~ \E p \in Proposals : Submit(p),
         ~ \E w \in Watches : Finalize(w) /\ verdict[w] = "completed" /\ HoldsClaim(w)
  PROVE  Promise!Cancel
<1>. DEFINE S == {a \in Promise!Open : Life'[a] = "cancelled"}
<1>0. \A a \in Actions : ~Late(a)
  BY DEF Late, Calm, Alive
<1>1. \A w \in Watches : Finalize(w) /\ verdict[w] = "completed" => status' = status
  BY DEF Finalize, board
<1>2. ASSUME NEW a \in Actions
      PROVE  Life'[a] = IF a \in S THEN "cancelled" ELSE Life[a]
  <2>1. \/ status'[a] = status[a]
        \/ status[a] \in {"pending", "in_progress"} /\ status'[a] \in {"pending", "in_progress", "cancelled"}
    BY <1>0, <1>1 DEF Moves
  <2>. QED
    BY <2>1 DEF Promise!Open, Life
<1>3. Promise!Become(S, "cancelled")
  BY <1>2 DEF Promise!Become, Life
<1>. QED
  BY <1>3 DEF Promise!Cancel

\* For any number of actions, robots and sessions, and any policies that all forbid replay:
\* unless a runtime stalls longer than its lease, board, lease and Watches together keep the
\* promise to the proposer.
THEOREM KeepsPromiseHolds ==
  ASSUME AllowsReplay = {}, ~MaySuspend
  PROVE  Spec => KeepsPromise
<1>1. Init => Promise!Init
  BY DEF Init, Promise!Init, Life
<1>2. TypeInv /\ Held /\ Runs /\ Calm /\ OnceInv /\ [Next]_vars => [Promise!Next]_<<Life, ran>>
  <2>. SUFFICES ASSUME TypeInv, Held, Runs, Calm, OnceInv, [Next]_vars
                PROVE  Promise!Next \/ UNCHANGED <<Life, ran>>
    OBVIOUS
  <2>. TypeOK /\ Once
    BY DEF TypeInv, OnceInv
  <2>1. ASSUME NEW w \in Watches, StartExecute(w), act[w] \in Actions
        PROVE  Promise!Next
    BY <2>1, ExecuteCalls DEF Promise!Next
  <2>2. ASSUME NEW p \in Proposals, Submit(p)
        PROVE  Promise!Next
    BY <2>2, SubmitProposes DEF Promise!Next
  <2>3. ASSUME NEW w \in Watches, Finalize(w), verdict[w] = "completed", HoldsClaim(w)
        PROVE  Promise!Next
    <3>1. act[w] \in Actions
      BY <2>3 DEF Finalize, TypeInv, LocalsOK, Holding
    <3>. QED
      BY <2>3, <3>1, FinalizeCompletes DEF Promise!Next
  <2>4. CASE /\ ran' = ran
             /\ ~ \E p \in Proposals : Submit(p)
             /\ ~ \E w \in Watches : Finalize(w) /\ verdict[w] = "completed" /\ HoldsClaim(w)
    BY <2>4, StatusMoves, OthersCancel DEF Promise!Next
  <2>. QED
    BY <2>1, <2>2, <2>3, <2>4, Calls
<1>. QED
  BY <1>1, <1>2, Typing, HeldHolds, CallsAreInOrder, CalmHolds, CallsAreFirst, PTL
     DEF Spec, KeepsPromise, Promise!Spec
=============================================================================
