----------------------------- MODULE MCWatchDrift -----------------------------
(* WatchBoard with the proposals a Watch has refused for a changed SAFETY.md. *)
EXTENDS MCWatchBoard

VARIABLE refused

\* Two independent actions of one plan, on different robots, for every policy.
DriftRobotOf == [a \in Actions |-> IF a = 1 THEN r1 ELSE r2]
DriftDependsOn == [a \in Actions |-> {}]
DriftProposalOf == [a \in Actions |-> plan]
NoRestriction == [p \in Policies |-> {}]

DriftInit == Init /\ refused = {}

\* CancelBatch goes through exactly when the held claim is closed by it.
DriftNext ==
    /\ Next
    /\ refused' = refused \union {ProposalOf[act[w]] : w \in {v \in Watches :
            pc[v] = "batch" /\ HoldsClaim(v) /\ status'[act[v]] = "cancelled"}}

DriftSpec == DriftInit /\ [][DriftNext]_<<vars, refused>>

\* After "refusing the remainder of the affected proposal" no action of that
\* proposal reaches the hardware any more.
DriftRefusesProposal ==
    [][\A a \in Actions : ran'[a] # ran[a] => ProposalOf[a] \notin refused]_<<vars, refused>>
=============================================================================
