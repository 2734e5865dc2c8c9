---------------------------- MODULE ActionPromise ----------------------------
(***************************************************************************)
(* What the Watch promises the proposer of an action, with no mention of   *)
(* claims, leases, sessions or policies: an action is opened with its      *)
(* proposal, runs at most once and after what it depends on, and ends in   *)
(* one outcome that never changes; "completed" means that it ran.          *)
(***************************************************************************)
EXTENDS Integers

CONSTANTS
    Actions, DependsOn

VARIABLES
    life,       \* "absent", "open", "completed" or "cancelled"
    calls       \* how often the hardware was called for the action

Open == {a \in Actions : life[a] = "open"}

Init ==
    /\ life = [a \in Actions |-> "absent"]
    /\ calls = [a \in Actions |-> 0]

Become(S, l) ==
    /\ life' = [a \in Actions |-> IF a \in S THEN l ELSE life[a]]
    /\ UNCHANGED calls

Propose == \E S \in SUBSET Actions :
    /\ \A a \in S : /\ life[a] = "absent"
                   /\ \A d \in DependsOn[a] : d \in S \/ life[d] # "absent"
    /\ Become(S, "open")

Call(a) ==
    /\ calls[a] = 0
    /\ a \in Open
    /\ \A d \in DependsOn[a] : life[d] = "completed"
    /\ calls' = [calls EXCEPT ![a] = 1]
    /\ UNCHANGED life

Complete(a) ==
    /\ a \in Open
    /\ calls[a] = 1
    /\ Become({a}, "completed")

Cancel == \E S \in SUBSET Open : Become(S, "cancelled")

Next == Propose \/ Cancel \/ \E a \in Actions : Call(a) \/ Complete(a)

Spec == Init /\ [][Next]_<<life, calls>>
=============================================================================
