----------------------------- MODULE MCWatchBoard -----------------------------
(* Instances of WatchBoard for TLC. *)
EXTENDS WatchBoard, TLC

CONSTANTS strict, lax, r1, r2, plan, extra

\* A plan of two actions, the second on r2 after the first on r1, and an
\* unrelated action that competes for r1.
MCRobotOf == [a \in Actions |-> IF a = 2 THEN r2 ELSE r1]
MCDependsOn == [a \in Actions |-> IF a = 2 THEN {1} ELSE {}]
MCProposalOf == [a \in Actions |-> IF a = 3 THEN extra ELSE plan]
\* The strict policy wants a human for the second action; under the lax one its
\* guidance is missing.
MCRequiresApproval == (strict :> {2}) @@ (lax :> {})
MCUnguided == (strict :> {}) @@ (lax :> {2})

Sessions == Permutations(Watches)
=============================================================================
