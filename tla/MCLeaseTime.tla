----------------------------- MODULE MCLeaseTime -----------------------------
(* Instances of LeaseTime for TLC. *)
EXTENDS LeaseTime, TLC

\* The second robot has a capability slower than the default.
MCSlowestCapability == [r \in Robots |-> IF r = 2 THEN 16 ELSE 0]

Sessions == Permutations(Watches)
=============================================================================
