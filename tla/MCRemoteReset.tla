---------------------------- MODULE MCRemoteReset ----------------------------
(***************************************************************************)
(* The terminal client, with its event stream, while another client resets *)
(* the workspace: the API publishes an event of type `state' whose payload *)
(* names the reason workspace_reset; the client looks for an event of type *)
(* workspace_reset.                                                        *)
(***************************************************************************)
EXTENDS TerminalClient

NoText == [c \in {0} |-> "none"]
Spec ==
    /\ left = Budget([moves |-> 2, remote |-> 1])
    /\ TermInit /\ mode = "sse"
    /\ [][TermNext]_<<left, termVars>>

\* tui/tests/scenario-runner.test.tsx:610 `workspace_reset SSE resets the tracker', so that an
\* identifier used again after it is followed like a new one, once every event has arrived and
\* been answered; the follow-up plan 2026-07-19:895 asks for it on both reset paths.
ResetByEventStartsAnew == feed = <<>> /\ reads = <<>> => ActiveIsFollowed
=============================================================================
