------------------------------ MODULE MCClients ------------------------------
(***************************************************************************)
(* The clients, one at a time: `client' says which of the modules moves,   *)
(* and the others stay where they began.  A behaviour has one budget, of   *)
(* those of its client.                                                    *)
(***************************************************************************)
EXTENDS WebChat, WebPanels, WebProposals, TerminalClient, TerminalViews, EventStream, ReplyBlocks

VARIABLE client

Budgets == [
    dashboard |-> {
        \* events, and what they make the Dashboard fetch
        [changes |-> 3, connects |-> 1, drops |-> 1],
        [changes |-> 2, connects |-> 2, drops |-> 1],
        [changes |-> 1, connects |-> 1, errors |-> 1, failures |-> 1],
        [turns |-> 1, connects |-> 1, panels |-> 1],
        \* its own requests
        [proposals |-> 2, refreshes |-> 1, failures |-> 1, connects |-> 1],
        [initializes |-> 1, refreshes |-> 1, failures |-> 1, panels |-> 1],
        \* chat turns
        [chats |-> 2, tokens |-> 1, proposals |-> 1],
        [chats |-> 2, tokens |-> 1, stops |-> 1],
        [chats |-> 1, tokens |-> 1, proposals |-> 1, stops |-> 1],
        [chats |-> 1, tokens |-> 2, breaks |-> 1, cuts |-> 1],
        [chats |-> 1, tokens |-> 2, cuts |-> 2, stops |-> 1],
        [chats |-> 1, tokens |-> 1, resets |-> 1, connects |-> 1],
        [chats |-> 2, tokens |-> 1, resets |-> 1]},
    panels |-> {
        [moves |-> 3],
        [moves |-> 1, entries |-> 1, presses |-> 1, failures |-> 1],
        [entries |-> 1, presses |-> 3],
        [moves |-> 1, entries |-> 2, failures |-> 1],
        [entries |-> 2, presses |-> 1]},
    proposals |-> {
        [acts |-> 4, others |-> 1],
        [acts |-> 3, others |-> 1, changes |-> 1],
        [acts |-> 4, failures |-> 1]},
    terminal |-> {
        [moves |-> 1, commands |-> 2],
        [moves |-> 2, commands |-> 1],
        [moves |-> 1, commands |-> 1, failures |-> 1],
        [moves |-> 3, cuts |-> 1],
        [remote |-> 1, chats |-> 1],
        [chats |-> 2],
        [chats |-> 1, foreign |-> 1, failures |-> 1]},
    views |-> {
        [commands |-> 2],
        [commands |-> 1, failures |-> 1],
        [commands |-> 1, moves |-> 1]},
    frames |-> {[breaks |-> 1]},
    replies |-> {[symbols |-> 4], [lines |-> 4]}]

\* A summary that does not tell every version from the one before, and that comes back.
Summary == [v \in 0 .. 3 |-> IF v \in {1, 2} THEN "one" ELSE "other"]
SameText == [c \in 0 .. 2 |-> "the same"]
Addresses == {None, "bogus", "settings", "hardware"}
FrameShapes == {<<"event", "json">>, <<"comment">>, <<"junk">>}
Beginnings == {<<>>, <<"a", "nl", "nl">>, <<"~~~", "nl">>}
Lines_of == {"blank", "fence", "lang", "heading", "item0", "item1", "item2", "item4", "odd_item",
             "dash", "rule", "pipe", "text"}

dash == <<server, stream, view, busy, lastSummary, flight, chatVars>>

\* The modules that do not move begin in one state.
Init ==
    /\ client \in DOMAIN Budgets
    /\ left \in {Budget(b) : b \in Budgets[client]}
    /\ DashInit /\ (~executor \/ (client = "dashboard" /\ left["chats"] = 0))
    /\ ChatInit
    /\ PanelInit /\ (client = "panels" \/ urls = <<None>>)
    /\ ProposalInit /\ (client = "proposals" \/ ~(compact \/ open_page = "actions" \/ approval = "waiting"))
    /\ TermInit /\ (client = "terminal" \/ (mode = "sse" /\ \A a \in Ids : srv.act[a] = "none"))
    /\ ViewInit /\ IF client = "views" THEN (looks = <<>>) = (left["commands"] = 2)
                   ELSE hub.judges /\ hub.robots = {} /\ looks = <<>>
    /\ FrameInit /\ (client = "frames" \/ (reader = "web" /\ frames = <<>> /\ eol = <<Lf>>))
    /\ ReplyInit /\ (left["symbols"] > 0 \/ text = <<>>)

Next ==
    \/ client = "dashboard" /\ ChatNext /\ UNCHANGED <<panelVars, proposalVars, termVars, viewVars, frameVars, replyVars>>
    \/ client = "panels" /\ PanelNext /\ UNCHANGED <<dash, proposalVars, termVars, viewVars, frameVars, replyVars>>
    \/ client = "proposals" /\ ProposalNext /\ UNCHANGED <<dash, panelVars, termVars, viewVars, frameVars, replyVars>>
    \/ client = "terminal" /\ TermNext /\ UNCHANGED <<dash, panelVars, proposalVars, viewVars, frameVars, replyVars>>
    \/ client = "views" /\ ViewNext /\ UNCHANGED <<dash, panelVars, proposalVars, termVars, frameVars, replyVars>>
    \/ client = "frames" /\ FrameNext /\ UNCHANGED <<dash, panelVars, proposalVars, termVars, viewVars, replyVars>>
    \/ client = "replies" /\ ReplyNext /\ UNCHANGED <<dash, panelVars, proposalVars, termVars, viewVars, frameVars>>

Fairness ==
    \/ client = "dashboard" /\ DashFairness /\ ChatFairness
    \/ client = "terminal" /\ TermFairness
    \/ client \notin {"dashboard", "terminal"}

Spec == Init /\ [][Next /\ UNCHANGED client]_<<client, left, dash, panelVars, proposalVars, termVars, viewVars, frameVars, replyVars>> /\ Fairness

ClientsTypeOK ==
    DashTypeOK /\ ChatTypeOK /\ PanelTypeOK /\ ProposalTypeOK /\ TermTypeOK /\ ViewTypeOK
    /\ FrameTypeOK
=============================================================================
