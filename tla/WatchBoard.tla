------------------------------ MODULE WatchBoard ------------------------------
(***************************************************************************)
(* The SQLite action board and the Watch runtimes that execute from it.    *)
(*                                                                         *)
(* Proposers append pending actions; a human approves, rejects and edits   *)
(* SAFETY.md; Watch runtimes compete for the one runtime lease, and the    *)
(* holder claims, checks, executes and finalizes the actions one by one.   *)
(* Every method of the store that writes is one BEGIN IMMEDIATE            *)
(* transaction, hence one step.  read_actions is not: it issues a SELECT   *)
(* per status outside a transaction, and each one is a step.  Between two  *)
(* steps anything else may happen.                                         *)
(*                                                                         *)
(* A member of Watches is one SESSION of a WatchRuntime: setup draws a     *)
(* fresh owner id, so a restart is another session.  Actions are numbered  *)
(* in the order of their seq column.  Absent from the model: params,       *)
(* results, world observation and log lines, which no step here reads.     *)
(***************************************************************************)
EXTENDS Integers, FiniteSets

CONSTANTS
    NumActions,        \* how many actions the proposers ever submit
    Robots, RobotOf,   \* the robot an action is addressed to
    DependsOn,         \* Action.depends_on
    Proposals, ProposalOf,  \* metadata.correlation.proposal_id
    Watches, NoWatch,  \* the sessions, and the absence of one
    Policies,          \* the well-formed versions of SAFETY.md, by identity digest
    Malformed,         \* a missing or unparsable SAFETY.md
    RequiresApproval,  \* per policy, the actions that need a human
    Unguided,          \* per policy, the hardware actions whose guidance is missing or over budget
    AllowsReplay,      \* the policies with forbid_duplicate_action_ids: false
    BlockableRobots,   \* the robots whose heartbeat may fail
    MaySuspend,        \* may a live runtime stall longer than its lease?
    MaxEdits,          \* bound on edits of SAFETY.md
    MaxFaults          \* bound on storage errors that abort a step

Actions == 1 .. NumActions

ASSUME WatchBoardAssumption ==
    /\ NumActions \in Nat \ {0}
    /\ RobotOf \in [Actions -> Robots]
    /\ DependsOn \in [Actions -> SUBSET Actions]
    /\ ProposalOf \in [Actions -> Proposals]
    /\ NoWatch \notin Watches
    /\ Malformed \notin Policies
    /\ RequiresApproval \in [Policies -> SUBSET Actions]
    /\ Unguided \in [Policies -> SUBSET Actions]
    /\ AllowsReplay \subseteq Policies
    /\ BlockableRobots \subseteq Robots
    /\ MaySuspend \in BOOLEAN
    /\ MaxEdits \in Nat
    /\ MaxFaults \in Nat

VARIABLES
    status,    \* actions.status; "absent" until the row is inserted
    owner,     \* actions.claim_owner of a claimed or finalized action
    aged,      \* the in_progress actions claimed DEFAULT_ACTION_LEASE_SECONDS ago or earlier
    approval,  \* actions.metadata.approval.status
    history,   \* the action ids named by some event of the feedback history
    lease,     \* owner of the watch-executor row of runtime_leases
    live,      \* is that row's expires_at in the future?
    policy,    \* what SAFETY.md says now
    edits, faults,  \* counters for the two bounds
    pc,        \* where each session is
    act,       \* the claimed action it holds (0: none)
    verdict,   \* what the session has decided about it
    ctx,       \* the rest of the session's locals
    ran        \* how often driver.execute was entered for an action

board == <<status, owner, aged, approval>>
leaseVars == <<lease, live>>
world == <<policy, edits>>
session == <<pc, act, verdict, ctx>>
vars == <<status, owner, aged, approval, history, lease, live, policy, edits,
          faults, pc, act, verdict, ctx, ran>>

Terminal == {"completed", "cancelled"}
Statuses == {"absent", "pending", "in_progress"} \union Terminal
Decisions == {"approved", "rejected"}
ApprovalStatuses == {"not_required", "pending"} \union Decisions
Verdicts == {"none", "allow"} \union Terminal

\* Sites of _require_watch_lease, with the point reached when it succeeds.
Guarded == [connect |-> "idle", loop |-> "claim", drift |-> "batch", admit |-> "record",
            arm |-> "fire", halt |-> "stopping", settle |-> "mark"]
InStep == {"recover", "scan", "claims", "completions", "cancellations", "baseline", "reap",
           "unhook", "loop", "claim", "policy", "drift", "batch", "gate", "executed",
           "events", "admit", "record", "arm", "fire", "run", "halt", "stopping",
           "settle", "mark", "sweep"}
PCs == {"new", "connect", "idle", "closing", "closehalt", "release", "gone"} \union InStep

\* base: the step's baseline policy; claimed: approval status of the claimed copy;
\* left: iterations left; reap: the pending actions with dependencies that it has
\* read, of which the impossible ones are kept, with their approval status as read
\* (copy); missing: the ids they depend on that were in no list so far; after: where
\* it goes from there.
Contexts == [base : Policies \union {Malformed}, claimed : ApprovalStatuses,
             left : Nat, reap : SUBSET Actions, missing : SUBSET Actions,
             copy : [Actions -> ApprovalStatuses], after : {"loop", "idle"}]
NoContext == [base |-> Malformed, claimed |-> "not_required", left |-> 0, reap |-> {},
              missing |-> {}, copy |-> [a \in Actions |-> "not_required"], after |-> "idle"]

TypeOK ==
    /\ status \in [Actions -> Statuses]
    /\ owner \in [Actions -> Watches \union {NoWatch}]
    /\ aged \subseteq Actions
    /\ approval \in [Actions -> ApprovalStatuses]
    /\ history \subseteq Actions
    /\ lease \in Watches \union {NoWatch}
    /\ live \in BOOLEAN
    /\ policy \in Policies \union {Malformed}
    /\ edits \in 0 .. MaxEdits
    /\ faults \in 0 .. MaxFaults
    /\ pc \in [Watches -> PCs]
    /\ act \in [Watches -> Actions \union {0}]
    /\ verdict \in [Watches -> Verdicts]
    /\ ctx \in [Watches -> Contexts]
    /\ ran \in [Actions -> Nat]

Init ==
    /\ status = [a \in Actions |-> "absent"]
    /\ owner = [a \in Actions |-> NoWatch]
    /\ aged = {}
    /\ approval = [a \in Actions |-> "not_required"]
    /\ history = {}
    /\ lease = NoWatch
    /\ live = FALSE
    /\ policy \in Policies
    /\ edits = 0
    /\ faults = 0
    /\ pc = [w \in Watches |-> "new"]
    /\ act = [w \in Watches |-> 0]
    /\ verdict = [w \in Watches |-> "none"]
    /\ ctx = [w \in Watches |-> NoContext]
    /\ ran = [a \in Actions |-> 0]

----------------------------------------------------------------------------
(* The board *)

WithStatus(s) == {a \in Actions : status[a] = s}

\* Approval metadata as recomputed under policy p: a human decision sticks.
Refreshed(a, p) ==
    IF approval[a] \in Decisions THEN approval[a]
    ELSE IF a \in RequiresApproval[p] THEN "pending" ELSE "not_required"

\* A proposal's actions are appended in one transaction.  read_safety raises on
\* a malformed SAFETY.md; the proposal service validated the dependencies.
Submit(p) ==
    LET batch == {a \in Actions : ProposalOf[a] = p} IN
    /\ batch # {}
    /\ \A a \in batch : status[a] = "absent"
    /\ \A a \in batch : \A d \in DependsOn[a] : d \in batch \/ status[d] # "absent"
    /\ policy # Malformed
    /\ status' = [a \in Actions |-> IF a \in batch THEN "pending" ELSE status[a]]
    /\ approval' = [a \in Actions |->
            IF a \in batch
            THEN (IF a \in RequiresApproval[policy] THEN "pending" ELSE "not_required")
            ELSE approval[a]]
    /\ UNCHANGED <<owner, aged, history, leaseVars, world, faults, session, ran>>

Approve(a) ==
    /\ status[a] = "pending"
    /\ policy # Malformed
    /\ approval' = [approval EXCEPT ![a] =
            IF a \in RequiresApproval[policy] THEN "approved" ELSE Refreshed(a, policy)]
    /\ UNCHANGED <<status, owner, aged, history, leaseVars, world, faults, session, ran>>

\* MUTANT: a claimed action can be rejected.
RejectClaimed(a) ==
    /\ status[a] \in {"pending", "in_progress"}
    /\ policy # Malformed
    /\ status' = [status EXCEPT ![a] = "cancelled"]
    /\ owner' = [owner EXCEPT ![a] = NoWatch]
    /\ approval' = [approval EXCEPT ![a] = "rejected"]
    /\ UNCHANGED <<aged, history, leaseVars, world, faults, session, ran>>

Reject(a) ==
    /\ status[a] = "pending"
    /\ policy # Malformed
    /\ status' = [status EXCEPT ![a] = "cancelled"]
    /\ owner' = [owner EXCEPT ![a] = NoWatch]
    /\ approval' = [approval EXCEPT ![a] = "rejected"]
    /\ UNCHANGED <<aged, history, leaseVars, world, faults, session, ran>>

\* SAFETY.md is a file the human edits at any time.
EditPolicy(p) ==
    /\ edits < MaxEdits
    /\ p # policy
    /\ policy' = p
    /\ edits' = edits + 1
    /\ UNCHANGED <<board, history, leaseVars, faults, session, ran>>

\* A claim grows older than the action lease.
ClaimAges(a) ==
    /\ status[a] = "in_progress"
    /\ a \notin aged
    /\ aged' = aged \union {a}
    /\ UNCHANGED <<status, owner, approval, history, leaseVars, world, faults, session, ran>>

\* The board after _recover_stale_actions_conn.
RecoveredStatus == [a \in Actions |->
    IF status[a] = "in_progress" /\ a \in aged THEN "pending" ELSE status[a]]
RecoveredOwner == [a \in Actions |->
    IF status[a] = "in_progress" /\ a \in aged THEN NoWatch ELSE owner[a]]

\* MUTANT: dependencies are looked up among all terminal actions.
DependenciesClosed(a) == \A d \in DependsOn[a] : status[d] \in Terminal
\* completed_action_ids of the claim, completed_ids of the gate.
DependenciesMet(a) == \A d \in DependsOn[a] : status[d] = "completed"

\* MUTANT: a robot is not busy.
NeverBusy(r) == FALSE
\* What the claim transaction may take, after the recovery it starts with.
Busy(r) == \E a \in Actions : RecoveredStatus[a] = "in_progress" /\ RobotOf[a] = r
Ready(a, p, blocked) ==
    /\ RecoveredStatus[a] = "pending"
    /\ a \in RequiresApproval[p] => Refreshed(a, p) = "approved"
    /\ RobotOf[a] \notin blocked
    /\ ~Busy(RobotOf[a])
    /\ DependenciesMet(a)

\* MUTANT: cancelled dependencies are waited for.
UnknownOnly(pending, missing, cancelled) ==
    {a \in pending : DependsOn[a] \intersect (missing \ cancelled) # {}}
\* Those of the pending actions that can never become ready, as far as the lists tell:
\* the least set closed under "depends on a missing, a cancelled or an impossible action".
Impossible(pending, missing, cancelled) ==
    LET Closed(X) == \A a \in pending :
            DependsOn[a] \intersect (missing \union cancelled \union X) # {} => a \in X
    IN  {a \in pending : \A X \in SUBSET pending : Closed(X) => a \in X}

----------------------------------------------------------------------------
(* The runtime lease *)

Owns(w) == lease = w /\ live

\* A live runtime renews before each operation and the TTL covers the longest one
\* (see LeaseTime): its lease runs out only when the process is dead, is suspended,
\* or is past the halts and only disconnecting its drivers.
LeaseExpires ==
    /\ live
    /\ MaySuspend \/ (lease \in Watches /\ pc[lease] \in {"release", "gone"})
    /\ live' = FALSE
    /\ UNCHANGED <<board, history, lease, world, faults, session, ran>>

\* setup(): take the lease, or fail because another runtime owns the workspace;
\* the drivers are connected next.
Setup(w) ==
    /\ pc[w] = "new"
    /\ IF live
       THEN /\ pc' = [pc EXCEPT ![w] = "gone"]
            /\ UNCHANGED leaseVars
       ELSE /\ pc' = [pc EXCEPT ![w] = "connect"]
            /\ lease' = w
            /\ live' = TRUE
    /\ UNCHANGED <<board, history, world, faults, act, verdict, ctx, ran>>

----------------------------------------------------------------------------
(* One step of a Watch *)

\* Leave the step: forget its locals.
Leave(w, where) ==
    /\ pc' = [pc EXCEPT ![w] = where]
    /\ act' = [act EXCEPT ![w] = 0]
    /\ verdict' = [verdict EXCEPT ![w] = "none"]
    /\ ctx' = [ctx EXCEPT ![w] = NoContext]

Goto(w, where) ==
    /\ pc' = [pc EXCEPT ![w] = where]
    /\ UNCHANGED <<act, verdict, ctx>>

\* After the loop the step looks for impossible actions once more.
Sweep(w) ==
    /\ pc' = [pc EXCEPT ![w] = "sweep"]
    /\ ctx' = [ctx EXCEPT ![w] = NoContext]
    /\ UNCHANGED <<act, verdict>>

\* A step renews the lease first; a lost lease is fatal.
BeginStep(w) ==
    /\ pc[w] = "idle"
    /\ IF Owns(w) THEN Goto(w, "recover") ELSE Leave(w, "closing")
    /\ UNCHANGED <<board, history, leaseVars, world, faults, ran>>

\* MUTANT: a session recovers its own claims only.
RecoverOwn(w) ==
    /\ pc[w] = "recover"
    /\ Goto(w, "scan")
    /\ status' = [a \in Actions |-> IF owner[a] = w THEN RecoveredStatus[a] ELSE status[a]]
    /\ owner' = [a \in Actions |-> IF owner[a] = w THEN RecoveredOwner[a] ELSE owner[a]]
    /\ aged' = {a \in aged : owner[a] # w}
    /\ UNCHANGED <<approval, history, leaseVars, world, faults, ran>>

\* After the heartbeats: put the claims that outlived the action lease back.
RecoverStale(w) ==
    /\ pc[w] = "recover"
    /\ Goto(w, "scan")
    /\ status' = RecoveredStatus
    /\ owner' = RecoveredOwner
    /\ aged' = {}
    /\ UNCHANGED <<approval, history, leaseVars, world, faults, ran>>

\* The first SELECT of read_actions, which reads SAFETY.md before it; an unreadable
\* one aborts the step.
ReadPending(w) ==
    LET pending == WithStatus("pending")
        behind == {a \in pending : DependsOn[a] # {}}
    IN
    /\ pc[w] \in {"scan", "sweep"}
    /\ IF policy = Malformed
       THEN Leave(w, "idle")
       ELSE /\ pc' = [pc EXCEPT ![w] = "claims"]
            /\ ctx' = [ctx EXCEPT
                    ![w].reap = behind,
                    ![w].missing = (UNION {DependsOn[a] : a \in behind}) \ pending,
                    ![w].copy = [a \in Actions |->
                        IF a \in behind THEN approval[a] ELSE "not_required"],
                    ![w].after = IF pc[w] = "scan" THEN "loop" ELSE "idle"]
            /\ UNCHANGED <<act, verdict>>
    /\ UNCHANGED <<board, history, leaseVars, world, faults, ran>>

\* The second and the third SELECT.
ReadFound(w) ==
    \E at \in {"claims", "completions"} :
    LET found == WithStatus(IF at = "claims" THEN "in_progress" ELSE "completed") IN
    /\ pc[w] = at
    /\ pc' = [pc EXCEPT ![w] = IF at = "claims" THEN "completions" ELSE "cancellations"]
    /\ ctx' = [ctx EXCEPT ![w].missing = @ \ found]
    /\ UNCHANGED <<act, verdict>>
    /\ UNCHANGED <<board, history, leaseVars, world, faults, ran>>

\* The last one: what is impossible by the four lists will be rejected.
ReadCancelled(w) ==
    LET cancelled == WithStatus("cancelled")
        X == Impossible(ctx[w].reap, ctx[w].missing, cancelled)
    IN
    /\ pc[w] = "cancellations"
    /\ pc' = [pc EXCEPT ![w] = IF ctx[w].after = "loop" THEN "baseline" ELSE "reap"]
    /\ ctx' = [ctx EXCEPT
            ![w].reap = X,
            ![w].missing = {},
            ![w].copy = [a \in Actions |-> IF a \in X THEN @[a] ELSE "not_required"]]
    /\ UNCHANGED <<act, verdict>>
    /\ UNCHANGED <<board, history, leaseVars, world, faults, ran>>

\* The baseline policy of the step.
ReadBaseline(w) ==
    /\ pc[w] = "baseline"
    /\ IF policy = Malformed
       THEN Leave(w, "idle")
       ELSE /\ pc' = [pc EXCEPT ![w] = "reap"]
            /\ ctx' = [ctx EXCEPT ![w].base = policy]
            /\ UNCHANGED <<act, verdict>>
    /\ UNCHANGED <<board, history, leaseVars, world, faults, ran>>

\* Each of the impossible actions gets its gate decision recorded ...
RecordImpossible(w) ==
    /\ pc[w] = "reap"
    /\ \E a \in ctx[w].reap :
         /\ history' = history \union {a}
         /\ act' = [act EXCEPT ![w] = a]
    /\ pc' = [pc EXCEPT ![w] = "unhook"]
    /\ UNCHANGED <<verdict, ctx>>
    /\ UNCHANGED <<board, leaseVars, world, faults, ran>>

\* ... and is then cancelled by an update that is not fenced: it overwrites the
\* row, whatever its status, with the copy read by ReadPending.  Under a malformed
\* SAFETY.md it raises instead.
CancelImpossible(w) ==
    LET a == act[w] IN
    /\ pc[w] = "unhook"
    /\ IF policy = Malformed
       THEN Leave(w, "idle") /\ UNCHANGED board
       ELSE /\ status' = [status EXCEPT ![a] = "cancelled"]
            /\ owner' = [owner EXCEPT ![a] = NoWatch]
            /\ aged' = aged \ {a}
            /\ approval' = [approval EXCEPT ![a] =
                    IF ctx[w].copy[a] \in Decisions THEN ctx[w].copy[a]
                    ELSE IF a \in RequiresApproval[policy] THEN "pending" ELSE "not_required"]
            /\ pc' = [pc EXCEPT ![w] = "reap"]
            /\ act' = [act EXCEPT ![w] = 0]
            /\ ctx' = [ctx EXCEPT ![w].reap = @ \ {a}]
            /\ UNCHANGED verdict
    /\ UNCHANGED <<history, leaseVars, world, faults, ran>>

\* The pass is over: enter the loop, bounded by the actions pending now (of a second
\* read_actions no other list is used), or end the step.
EndReap(w) ==
    /\ pc[w] = "reap"
    /\ ctx[w].reap = {}
    /\ IF ctx[w].after = "idle" \/ policy = Malformed
       THEN Leave(w, "idle")
       ELSE /\ pc' = [pc EXCEPT ![w] = "loop"]
            /\ ctx' = [ctx EXCEPT ![w].left = Cardinality(WithStatus("pending")),
                                  ![w].copy = NoContext.copy]
            /\ UNCHANGED <<act, verdict>>
    /\ UNCHANGED <<board, history, leaseVars, world, faults, ran>>

EndLoop(w) ==
    /\ pc[w] = "loop"
    /\ ctx[w].left = 0
    /\ Sweep(w)
    /\ UNCHANGED <<board, history, leaseVars, world, faults, ran>>

\* _require_watch_lease: go on, or stop the session.
RequireLease(w) ==
    /\ pc[w] \in DOMAIN Guarded
    /\ pc[w] = "loop" => ctx[w].left > 0
    /\ IF Owns(w) THEN Goto(w, Guarded[pc[w]]) ELSE Leave(w, "closing")
    /\ UNCHANGED <<board, history, leaseVars, world, faults, ran>>

\* claim_next_ready_action: recover, persist the refreshed approvals of the rows
\* it scans, and take the first ready action, if there is one.
Claim(w) ==
    \E blocked \in SUBSET BlockableRobots :
    LET p == ctx[w].base
        ready == {a \in Actions : Ready(a, p, blocked)}
        scanned == {a \in Actions : /\ RecoveredStatus[a] = "pending"
                                    /\ \A b \in ready : a <= b}
    IN
    /\ pc[w] = "claim"
    /\ approval' = [a \in Actions |->
            IF a \in scanned THEN Refreshed(a, p) ELSE approval[a]]
    /\ aged' = {}
    /\ \/ /\ ready = {}
          /\ status' = RecoveredStatus
          /\ owner' = RecoveredOwner
          /\ Sweep(w)
       \/ \E a \in ready :
          /\ \A b \in ready : a <= b
          /\ status' = [RecoveredStatus EXCEPT ![a] = "in_progress"]
          /\ owner' = [RecoveredOwner EXCEPT ![a] = w]
          /\ pc' = [pc EXCEPT ![w] = "policy"]
          /\ act' = [act EXCEPT ![w] = a]
          /\ verdict' = [verdict EXCEPT ![w] = "none"]
          /\ ctx' = [ctx EXCEPT ![w].left = @ - 1, ![w].claimed = Refreshed(a, p)]
    /\ UNCHANGED <<history, leaseVars, world, faults, ran>>

\* The per-action fresh read of SAFETY.md.
CheckPolicy(w) ==
    /\ pc[w] = "policy"
    /\ IF policy # ctx[w].base
       THEN Goto(w, "drift")
       ELSE IF act[w] \in Unguided[policy]
       THEN /\ pc' = [pc EXCEPT ![w] = "settle"]
            /\ verdict' = [verdict EXCEPT ![w] = "cancelled"]
            /\ UNCHANGED <<act, ctx>>
       ELSE Goto(w, "gate")
    /\ UNCHANGED <<board, history, leaseVars, world, faults, ran>>

HoldsClaim(w) == status[act[w]] = "in_progress" /\ owner[act[w]] = w

\* MUTANT: the whole proposal is cancelled, not its pending part.
CancelProposal(w) ==
    LET batch == {a \in Actions : ProposalOf[a] = ProposalOf[act[w]]} IN
    /\ pc[w] = "batch"
    /\ HoldsClaim(w)
    /\ status' = [a \in Actions |-> IF a \in batch THEN "cancelled" ELSE status[a]]
    /\ Leave(w, "idle")
    /\ UNCHANGED <<owner, aged, approval, history, leaseVars, world, faults, ran>>

\* Policy drift: the claimed action and the pending actions of its proposal are
\* cancelled in one transaction, if the claim still stands.
CancelBatch(w) ==
    LET batch == {act[w]} \union
                 {a \in WithStatus("pending") : ProposalOf[a] = ProposalOf[act[w]]}
    IN
    /\ pc[w] = "batch"
    /\ IF HoldsClaim(w)
       THEN /\ status' = [a \in Actions |-> IF a \in batch THEN "cancelled" ELSE status[a]]
            /\ owner' = [a \in Actions |->
                    IF a \in batch \ {act[w]} THEN NoWatch ELSE owner[a]]
            /\ aged' = aged \ batch
            /\ Leave(w, "idle")
            /\ UNCHANGED approval
       ELSE /\ Leave(w, "closing")
            /\ UNCHANGED board
    /\ UNCHANGED <<history, leaseVars, world, faults, ran>>

\* Does a find of this id in the lists or in the history deny a?
Replay(w, ids) == ctx[w].base \notin AllowsReplay /\ act[w] \in ids

\* SafetyGate.validate on a fresh read_actions, which reads SAFETY.md first, and of
\* the feedback: here the completed actions, the two next steps the rest.  The
\* checks on robot, capability, params, bounds and timeout may deny as well.
Gate(w) ==
    LET a == act[w]
        accepted == /\ ~Replay(w, WithStatus("completed"))
                    /\ DependenciesMet(a)
                    /\ a \in RequiresApproval[ctx[w].base] => ctx[w].claimed = "approved"
    IN
    /\ pc[w] = "gate"
    /\ IF policy = Malformed
       THEN Leave(w, "idle")
       ELSE /\ pc' = [pc EXCEPT ![w] = "executed"]
            /\ \E v \in {"allow", "cancelled"} :
                 /\ v = "allow" => accepted
                 /\ verdict' = [verdict EXCEPT ![w] = v]
            /\ UNCHANGED <<act, ctx>>
    /\ UNCHANGED <<board, history, leaseVars, world, faults, ran>>

GateCancelled(w) ==
    /\ pc[w] = "executed"
    /\ pc' = [pc EXCEPT ![w] = "events"]
    /\ verdict' = [verdict EXCEPT ![w] =
            IF Replay(w, WithStatus("cancelled")) THEN "cancelled" ELSE @]
    /\ UNCHANGED <<board, history, leaseVars, world, faults, act, ctx, ran>>

GateHistory(w) ==
    /\ pc[w] = "events"
    /\ pc' = [pc EXCEPT ![w] = "admit"]
    /\ verdict' = [verdict EXCEPT ![w] = IF Replay(w, history) THEN "cancelled" ELSE @]
    /\ UNCHANGED <<board, history, leaseVars, world, faults, act, ctx, ran>>

\* MUTANT: the decision is not recorded before the call.
SkipDecision(w) ==
    /\ pc[w] = "record"
    /\ Goto(w, IF verdict[w] = "allow" THEN "arm" ELSE "settle")
    /\ UNCHANGED <<board, history, leaseVars, world, faults, ran>>

\* The decision is durable before the driver is called.
RecordDecision(w) ==
    /\ pc[w] = "record"
    /\ history' = history \union {act[w]}
    /\ Goto(w, IF verdict[w] = "allow" THEN "arm" ELSE "settle")
    /\ UNCHANGED <<board, leaseVars, world, faults, ran>>

StartExecute(w) ==
    /\ pc[w] = "fire"
    /\ ran' = [ran EXCEPT ![act[w]] = @ + 1]
    /\ Goto(w, "run")
    /\ UNCHANGED <<board, history, leaseVars, world, faults>>

\* MUTANT: the driver's own result status is stored.
FinishWithResult(w) ==
    /\ pc[w] = "run"
    /\ \E v \in {"completed", "failed"} : verdict' = [verdict EXCEPT ![w] = v]
    /\ pc' = [pc EXCEPT ![w] = "settle"]
    /\ UNCHANGED <<board, history, leaseVars, world, faults, act, ctx, ran>>

\* driver.execute returns, raises, or times out; a timeout asks for a halt first.
FinishExecute(w) ==
    /\ pc[w] = "run"
    /\ \E v \in Terminal, timeout \in BOOLEAN :
         /\ timeout => v = "cancelled"
         /\ verdict' = [verdict EXCEPT ![w] = v]
         /\ pc' = [pc EXCEPT ![w] = IF timeout THEN "halt" ELSE "settle"]
    /\ UNCHANGED <<board, history, leaseVars, world, faults, act, ctx, ran>>

HaltAfterTimeout(w) ==
    /\ pc[w] = "stopping"
    /\ Goto(w, "settle")
    /\ UNCHANGED <<board, history, leaseVars, world, faults, ran>>

\* MUTANT: the terminal update is not fenced.
FinalizeUnfenced(w) ==
    /\ pc[w] = "mark"
    /\ status' = [status EXCEPT ![act[w]] = verdict[w]]
    /\ pc' = [pc EXCEPT ![w] = "loop"]
    /\ act' = [act EXCEPT ![w] = 0]
    /\ verdict' = [verdict EXCEPT ![w] = "none"]
    /\ UNCHANGED <<owner, aged, approval, history, leaseVars, world, faults, ctx, ran>>

\* The fenced terminal update; a lost claim is fatal.  The result event comes
\* next: it names an action that is terminal, which Gate counts as used anyway.
Finalize(w) ==
    LET a == act[w] IN
    /\ pc[w] = "mark"
    /\ IF HoldsClaim(w)
       THEN /\ status' = [status EXCEPT ![a] = verdict[w]]
            /\ aged' = aged \ {a}
            /\ approval' = [approval EXCEPT ![a] = ctx[w].claimed]
            /\ pc' = [pc EXCEPT ![w] = "loop"]
            /\ act' = [act EXCEPT ![w] = 0]
            /\ verdict' = [verdict EXCEPT ![w] = "none"]
            /\ ctx' = [ctx EXCEPT ![w].claimed = NoContext.claimed]
            /\ UNCHANGED owner
       ELSE /\ Leave(w, "closing")
            /\ UNCHANGED board
    /\ UNCHANGED <<history, leaseVars, world, faults, ran>>

\* A storage error escapes the step; the API's watch loop starts the next one.
StepFails(w) ==
    /\ pc[w] \in InStep \ {"run", "stopping"}
    /\ faults < MaxFaults
    /\ faults' = faults + 1
    /\ Leave(w, "idle")
    /\ UNCHANGED <<board, history, leaseVars, world, ran>>

----------------------------------------------------------------------------
(* Ends of a session *)

\* The task is cancelled at an await (or a driver fails to connect): between
\* steps, while a driver works, or while the world is observed after a result.
StopRequested(w) ==
    /\ pc[w] \in {"connect", "idle", "recover", "run", "stopping", "loop"}
    /\ Leave(w, "closing")
    /\ UNCHANGED <<board, history, leaseVars, world, faults, ran>>

\* MUTANT: the lease is given up before the robots are halted.
ReleaseThenHalt(w) ==
    /\ pc[w] = "closing"
    /\ Goto(w, IF Owns(w) THEN "closehalt" ELSE "release")
    /\ live' = IF Owns(w) THEN FALSE ELSE live
    /\ UNCHANGED <<board, history, lease, world, faults, ran>>

\* shutdown(): only an owner may halt the robots; every session disconnects.
BeginShutdown(w) ==
    /\ pc[w] = "closing"
    /\ Goto(w, IF Owns(w) THEN "closehalt" ELSE "release")
    /\ UNCHANGED <<board, history, leaseVars, world, faults, ran>>

HaltDrivers(w) ==
    /\ pc[w] = "closehalt"
    /\ Goto(w, "release")
    /\ UNCHANGED <<board, history, leaseVars, world, faults, ran>>

ReleaseLease(w) ==
    /\ pc[w] = "release"
    /\ Goto(w, "gone")
    /\ lease' = IF lease = w THEN NoWatch ELSE lease
    /\ live' = IF lease = w THEN FALSE ELSE live
    /\ UNCHANGED <<board, history, world, faults, ran>>

\* The process dies; the lease row and the claim stay behind.
Crash(w) ==
    /\ pc[w] \notin {"new", "gone"}
    /\ Leave(w, "gone")
    /\ UNCHANGED <<board, history, leaseVars, world, faults, ran>>

----------------------------------------------------------------------------
StepOf(w) ==
    \/ BeginStep(w) \/ RecoverStale(w) \/ ReadPending(w) \/ ReadFound(w) \/ ReadCancelled(w)
    \/ ReadBaseline(w) \/ RecordImpossible(w) \/ CancelImpossible(w) \/ EndReap(w) \/ EndLoop(w)
    \/ RequireLease(w) \/ Claim(w) \/ CheckPolicy(w) \/ CancelBatch(w) \/ Gate(w)
    \/ GateCancelled(w) \/ GateHistory(w) \/ RecordDecision(w) \/ StartExecute(w)
    \/ FinishExecute(w) \/ HaltAfterTimeout(w) \/ Finalize(w)

Shutdown(w) == BeginShutdown(w) \/ HaltDrivers(w) \/ ReleaseLease(w)

Next ==
    \/ \E p \in Proposals : Submit(p)
    \/ \E a \in Actions : Approve(a) \/ Reject(a) \/ ClaimAges(a)
    \/ \E p \in Policies \union {Malformed} : EditPolicy(p)
    \/ LeaseExpires
    \/ \E w \in Watches : \/ Setup(w) \/ StepOf(w) \/ StepFails(w)
                          \/ StopRequested(w) \/ Shutdown(w) \/ Crash(w)

Spec == Init /\ [][Next]_vars

----------------------------------------------------------------------------
(* What the board and the Watch promise, however long a runtime stalls *)

\* An action id reaches the hardware at most once, whatever crashes, restarts,
\* recovered claims and concurrent runtimes there are, as long as every version
\* of SAFETY.md forbids replay.
AtMostOnce == AllowsReplay = {} => \A a \in Actions : ran[a] <= 1

\* An action that was completed, and then cancelled by the update that is not fenced:
\* this one alone leaves a cancelled action that ran without an owner.
Overwritten(d) == MaySuspend /\ status[d] = "cancelled" /\ owner[d] = NoWatch

\* The hardware has moved for an action only after it had moved for every action it
\* depends on, and these ended well.  The board still says so, unless a runtime that
\* has stalled beyond its lease may have overwritten it.
DependenciesFirst ==
    \A a \in Actions : ran[a] > 0 =>
        \A d \in DependsOn[a] : ran[d] > 0 /\ (status[d] = "completed" \/ Overwritten(d))

\* One robot never has two claimed actions, even across recovered claims.
OneClaimPerRobot ==
    \A a, b \in WithStatus("in_progress") : RobotOf[a] = RobotOf[b] => a = b

\* An outcome is final, but for one hole: no late result, no recovery and no claim
\* changes a terminal action; the cancellation of an impossible action does so only
\* if its session has lost the lease, perhaps after lists that were read around a
\* recovery took a ready action for impossible.
OutcomeIsFinal ==
    [][\A a \in Actions : status[a] \in Terminal =>
        \/ status'[a] = status[a]
        \/ /\ status'[a] = "cancelled"
           /\ \E w \in Watches : pc[w] = "unhook" /\ act[w] = a /\ ~Owns(w)]_vars

----------------------------------------------------------------------------
(* What holds while no live runtime stalls longer than its lease *)

TouchesHardware == {"fire", "run", "stopping", "closehalt"}

\* At most one session is calling or about to call a driver's execute or halt.
SoleHardwareUser ==
    ~MaySuspend => \A v, w \in Watches :
        pc[v] \in TouchesHardware /\ pc[w] \in TouchesHardware => v = w

\* Whoever calls execute still holds the claim, and the decision a human took on
\* the row stands: it is not rejected, and approved where the step's policy asks.
RunsOnStandingClaim ==
    ~MaySuspend => \A w \in Watches : pc[w] = "fire" =>
        /\ HoldsClaim(w)
        /\ approval[act[w]] # "rejected"
        /\ act[w] \in RequiresApproval[ctx[w].base] => approval[act[w]] = "approved"

----------------------------------------------------------------------------
(* The promise to the proposer *)

Life == [a \in Actions |->
    IF status[a] \in {"pending", "in_progress"} THEN "open" ELSE status[a]]

Promise == INSTANCE ActionPromise WITH life <- Life, calls <- ran

\* Board, lease and Watches together implement the promise, as long as no live runtime
\* stalls longer than its lease.
KeepsPromise == Promise!Spec

----------------------------------------------------------------------------
(* Progress *)

\* Live sessions keep stepping (run_forever, and every driver call has a
\* timeout), and time passes: leases run out and claims age.  Humans owe nothing.
FairSpec ==
    /\ Spec
    /\ \A w \in Watches : WF_vars(Setup(w)) /\ WF_vars(StepOf(w)) /\ WF_vars(Shutdown(w))
    /\ WF_vars(LeaseExpires)
    /\ \A a \in Actions : WF_vars(ClaimAges(a))

\* Nothing can be asked of the Watch: no session is left, SAFETY.md is unusable,
\* or a pending action needs a human.
Waiting ==
    \/ \A w \in Watches : pc[w] = "gone"
    \/ policy = Malformed
    \/ \E a \in WithStatus("pending") :
          a \in RequiresApproval[policy] /\ approval[a] # "approved"

\* Every submitted action is settled, whatever was claimed, dropped, recovered or
\* made impossible on the way, unless the Watch has to wait.
EveryActionSettles ==
    \A a \in Actions : []<>(status[a] \in Terminal \union {"absent"} \/ Waiting)

\* A claim does not outlive the session that made it: some other session takes
\* the lease and puts it back.
ClaimsAreReturned ==
    \A a \in Actions : []<>(status[a] # "in_progress" \/ \A w \in Watches : pc[w] = "gone")

----------------------------------------------------------------------------
(* What a comment says and the code does not keep *)

\* A human's decision on an action is changed by no one but a human: the store
\* says that approval decisions are written by approve_action and reject_action
\* alone.
HumanDecisionKept ==
    [][\A a \in Actions : approval[a] = "rejected" => approval'[a] = "rejected"]_vars

=============================================================================
