----------------------------- MODULE EventBudget -----------------------------
(***************************************************************************)
(* What the people, the network and the other processes around a client    *)
(* still do: `left' counts it for each kind of event.  A model chooses it  *)
(* once, among budgets of its own, so that each behaviour has its bounds.  *)
(***************************************************************************)
EXTENDS Naturals

CONSTANT None

VARIABLE left

\* What a client meets, and what its user does.
Events == {"changes", "errors", "turns", "connects", "drops", "refreshes", "proposals",
           "initializes", "panels", "failures", "chats", "tokens", "breaks", "cuts", "stops",
           "resets", "moves", "entries", "presses", "acts", "others", "remote", "foreign",
           "commands", "symbols", "lines"}

\* A budget names the events it allows; there are none of the others.
Budget(b) == [e \in Events |-> IF e \in DOMAIN b THEN b[e] ELSE 0]

Left(what) == left[what] > 0
Spend(what) == left' = [left EXCEPT ![what] = @ - 1]
=============================================================================
