----------------------------- MODULE WebProposals -----------------------------
(***************************************************************************)
(* How a proposal leaves the web client and how it is reviewed.  A draft   *)
(* of the assistant is added to the board from its card in the chat, or is *)
(* put into the form of ProposalPanel (`Edit') and submitted there; the    *)
(* form carries what is in its fields, and the metadata of prefillAction,  *)
(* which the Dashboard keeps apart from the fields.  The panel is mounted  *)
(* only while it is expanded, inline or in the drawer of a narrow window;  *)
(* an approval that waits closes the drawer and opens the board.           *)
(***************************************************************************)
EXTENDS EventBudget, Sequences, SequencesExt

CONSTANTS
    Drafts,     \* the drafts of the assistant on the chat page
    Own,        \* a proposal typed by hand
    MaxReviews  \* bound on the proposals and reviews under way

ASSUME WebProposalsAssumption == None \notin Drafts /\ Own \notin Drafts \union {None}

VARIABLES
    compact,    \* does the media query match?
    open_page,  \* activePage: "chat" or "actions"
    expanded,   \* proposalPages, also in localStorage; None: no preference
    prefill,    \* prefillAction
    fields,     \* what the form holds: a draft, Own, or None (blank)
    form_of,    \* how often the form was mounted
    adding,     \* submittingDraft
    loading,    \* busy = "proposal", in the Dashboard
    board,      \* the ActionBoard: collapsed preference, tab, busyAction, times mounted, is
                \* the Popconfirm of Reject open, and the mountings where one was confirmed
                \* during a review
    approval,   \* the pending action of the server: none, waiting or approved
    seen,       \* the same, as the board shows it
    requests,   \* proposals and reviews under way
    received,   \* the proposals that the server has received
    slipped     \* what was answered since: {"failed", "taken"}

proposalVars == <<compact, open_page, expanded, prefill, fields, form_of, adding, loading, board,
                  approval, seen, requests, received, slipped>>

Tabs == {"pending", "completed"}
OpenPages == {"chat", "actions"}

----------------------------------------------------------------------------
(* What is on the screen. *)

\* The board counts every pending action that required an approval, approved or not.
ApprovalForcesOpen == seen # "none"
Collapsed == ~ApprovalForcesOpen /\ board.collapsed
VisibleTab == IF ApprovalForcesOpen THEN "pending" ELSE board.tab

ProposalExpanded(p) == IF expanded[p] = None THEN p = "actions" ELSE expanded[p]
CompactApprovalPriority == compact /\ open_page = "actions" /\ seen # "none"
VisibleProposalExpanded == ProposalExpanded(open_page) /\ ~CompactApprovalPriority

\* A form that is mounted anew starts blank and takes what is to be edited; the two layouts
\* have each a form of their own.
Shown_form == IF VisibleProposalExpanded THEN <<compact>> ELSE <<>>
Remount ==
    IF Shown_form' = Shown_form THEN UNCHANGED <<fields, form_of>>
    ELSE /\ form_of' = form_of + 1
         /\ fields' = IF Shown_form' = <<>> THEN None ELSE prefill'

ProposalInit ==
    /\ compact \in BOOLEAN /\ open_page \in OpenPages
    /\ expanded = [p \in OpenPages |-> None]
    /\ prefill = None /\ fields = None /\ form_of = 0
    /\ adding = None /\ loading = FALSE
    /\ board = [collapsed |-> TRUE, tab |-> "pending", busy |-> FALSE, mounted |-> 0,
                popup |-> FALSE, crossed |-> {}]
    /\ approval \in {"none", "waiting"} /\ seen = approval
    /\ requests = <<>> /\ received = {} /\ slipped = {}

----------------------------------------------------------------------------
(* The layout. *)

Act == Left("acts") /\ Spend("acts")

\* A board that is mounted anew reads back whether it was collapsed, and no more.
Mounted(b) == [b EXCEPT !.tab = "pending", !.busy = FALSE, !.mounted = @ + 1, !.popup = FALSE]

\* Another page unmounts the ChatPanel and the ActionBoard of this one.
OpenPage(p) ==
    /\ Act /\ p # open_page
    /\ open_page' = p
    /\ adding' = None
    /\ board' = Mounted(board)
    /\ UNCHANGED <<compact, expanded, prefill, loading, approval, seen, requests, received, slipped>>
    /\ Remount

\* The window crosses COMPACT_PROPOSAL_QUERY.
MediaChange ==
    /\ Act
    /\ compact' = ~compact
    /\ UNCHANGED <<open_page, expanded, prefill, adding, loading, board, approval, seen, requests,
                   received, slipped>>
    /\ Remount

\* setActiveProposalExpanded, from the toggle, the drawer and the status bar.
SetActiveProposalExpanded(value) ==
    /\ Act
    /\ expanded' = [expanded EXCEPT ![open_page] = value]
    /\ UNCHANGED <<compact, open_page, prefill, adding, loading, board, approval, seen, requests,
                   received, slipped>>
    /\ Remount

\* toggleCollapsed and the tabs of the board, which an approval that waits takes away.
ToggleCollapsed ==
    /\ Act /\ open_page = "actions" /\ ~ApprovalForcesOpen
    /\ board' = [board EXCEPT !.collapsed = ~@]
    /\ UNCHANGED <<compact, open_page, expanded, prefill, fields, form_of, adding, loading, approval,
                   seen, requests, received, slipped>>

ChooseTab(t) ==
    /\ Act /\ open_page = "actions" /\ ~ApprovalForcesOpen /\ ~Collapsed
    /\ board' = [board EXCEPT !.tab = t]
    /\ UNCHANGED <<compact, open_page, expanded, prefill, fields, form_of, adding, loading, approval,
                   seen, requests, received, slipped>>

----------------------------------------------------------------------------
(* Proposals. *)

Ask(r) == Len(requests) < MaxReviews /\ requests' = Append(requests, r)
Proposal(from, content, metadata) ==
    [op |-> "propose", from |-> from, content |-> content, metadata |-> metadata,
     slipped |-> slipped, form |-> form_of, board |-> board.mounted, served |-> FALSE]

\* MessageContent shows a card for each draft of a reply, DraftActionCard its buttons.
Cards == IF open_page = "chat" THEN Drafts ELSE {}
CardEnabled == adding = None /\ ~loading

\* handleAddDraft; withDraftMetadata gives the draft its own metadata.
HandleAddDraft(d) ==
    /\ Act /\ d \in Cards /\ CardEnabled
    /\ Ask(Proposal("card", d, d))
    /\ adding' = d
    /\ loading' = TRUE
    /\ UNCHANGED <<compact, open_page, expanded, prefill, fields, form_of, board, approval, seen,
                   received, slipped>>

\* handleEditDraft: the panel is expanded on this page, and the effect fills the fields.
HandleEditDraft(d) ==
    /\ Act /\ d \in Cards /\ CardEnabled
    /\ prefill' = d
    /\ expanded' = [expanded EXCEPT ![open_page] = TRUE]
    /\ slipped' = {}
    /\ fields' = d
    /\ form_of' = IF VisibleProposalExpanded THEN form_of ELSE form_of + 1
    /\ UNCHANGED <<compact, open_page, adding, loading, board, approval, seen, requests, received>>

\* The user fills the blank form by hand.
TypeOwn ==
    /\ Act /\ VisibleProposalExpanded /\ fields = None
    /\ fields' = Own
    /\ slipped' = slipped \ {"taken"}
    /\ UNCHANGED <<compact, open_page, expanded, prefill, form_of, adding, loading, board, approval,
                   seen, requests, received>>

\* submitAction: the metadata is prefillAction's, whatever the fields hold by now.
SubmitAction ==
    /\ Act /\ VisibleProposalExpanded /\ fields # None /\ ~loading
    /\ Ask(Proposal("form", fields, prefill))
    /\ loading' = TRUE
    /\ UNCHANGED <<compact, open_page, expanded, prefill, fields, form_of, adding, board, approval,
                   seen, received, slipped>>

ProposalServed(i) ==
    /\ requests[i].op = "propose" /\ ~requests[i].served
    /\ requests' = [requests EXCEPT ![i].served = TRUE]
    /\ received' = received \union {[content |-> requests[i].content, metadata |-> requests[i].metadata,
                                     slipped |-> requests[i].slipped]}
    /\ UNCHANGED <<compact, open_page, expanded, prefill, fields, form_of, adding, loading, board,
                   approval, seen, slipped, left>>

\* MUTANT: prefillAction outlives the proposal it was made for.
ProposalAnsweredKeeping(i, ok) ==
    /\ requests[i].op = "propose" /\ ok /\ requests[i].served
    /\ fields' = IF requests[i].from = "form" /\ requests[i].form = form_of THEN None ELSE fields
    /\ loading' = FALSE
    /\ requests' = RemoveAt(requests, i)
    /\ UNCHANGED <<compact, open_page, expanded, prefill, form_of, adding, board, approval, seen,
                   received, slipped, left>>
\* handleAction after its await; it swallows a failure.  Then the form that asked is reset if
\* it is still mounted, and the card's spinner ends.
ProposalAnswered(i, ok) ==
    LET r == requests[i] IN
    /\ r.op = "propose"
    /\ IF ok THEN r.served /\ UNCHANGED left ELSE Left("failures") /\ Spend("failures")
    /\ prefill' = IF ok THEN None ELSE prefill
    /\ slipped' = slipped \union (IF ~ok THEN {"failed"} ELSE IF prefill # None THEN {"taken"} ELSE {})
    /\ fields' = IF r.from = "form" /\ r.form = form_of THEN None ELSE fields
    /\ adding' = IF r.from = "card" /\ r.board = board.mounted THEN None ELSE adding
    /\ loading' = FALSE
    /\ requests' = RemoveAt(requests, i)
    /\ UNCHANGED <<compact, open_page, expanded, form_of, board, approval, seen, received>>

\* Any other handler of the Dashboard clears or takes the one busy slot.
OtherHandlers ==
    /\ loading /\ Left("others") /\ Spend("others")
    /\ loading' = FALSE
    /\ UNCHANGED <<compact, open_page, expanded, prefill, fields, form_of, adding, board, approval,
                   seen, requests, received, slipped>>

----------------------------------------------------------------------------
(* Reviews, on the board. *)

\* ActionApprovalControls: Approve is there while an approval is needed.
NeedsApproval == seen = "waiting"
\* MUTANT: a review is guarded by the spinner of the Dashboard only.
ReviewEnabledByBusy == open_page = "actions" /\ ~Collapsed /\ VisibleTab = "pending" /\ ~loading
ReviewEnabled == open_page = "actions" /\ ~Collapsed /\ VisibleTab = "pending" /\ ~loading /\ ~board.busy

Review(op) ==
    /\ Act
    /\ Ask([op |-> op, from |-> "board", board |-> board.mounted, served |-> FALSE])
    /\ loading' = TRUE
    /\ UNCHANGED <<compact, open_page, expanded, prefill, fields, form_of, adding, approval, seen,
                   received, slipped>>

ApproveExecution ==
    /\ ReviewEnabled /\ NeedsApproval
    /\ board' = [board EXCEPT !.busy = TRUE]
    /\ Review("approve")

\* Reject asks first.  Its button is guarded, what it opens is not: the popup stays, and can
\* be confirmed, as long as the row is there, whatever is begun from the keyboard meanwhile.
Popup(open) ==
    /\ board.popup # open
    /\ open => ReviewEnabled /\ seen # "none"
    /\ board' = [board EXCEPT !.popup = open]
    /\ UNCHANGED <<compact, open_page, expanded, prefill, fields, form_of, adding, loading, approval,
                   seen, requests, received, slipped, left>>

ConfirmReject ==
    /\ board.popup
    /\ board' = [board EXCEPT !.popup = FALSE, !.busy = TRUE,
                             !.crossed = IF board.busy THEN @ \union {board.mounted} ELSE @]
    /\ Review("reject")

ReviewServed(i) ==
    /\ requests[i].op # "propose" /\ ~requests[i].served
    /\ requests' = [requests EXCEPT ![i].served = TRUE]
    /\ approval' = IF requests[i].op = "reject" THEN "none"
                   ELSE IF approval = "waiting" THEN "approved" ELSE approval
    /\ UNCHANGED <<compact, open_page, expanded, prefill, fields, form_of, adding, loading, board,
                   seen, received, slipped, left>>

\* handleApproveAction and handleRejectAction, and the finally of the board.
ReviewAnswered(i, ok) ==
    LET r == requests[i] IN
    /\ r.op # "propose"
    /\ IF ok THEN r.served /\ UNCHANGED left ELSE Left("failures") /\ Spend("failures")
    /\ seen' = IF ok THEN approval ELSE seen
    /\ board' = [board EXCEPT !.busy = @ /\ r.board # board.mounted,
                             !.popup = @ /\ seen' # "none"]
    /\ loading' = FALSE
    /\ requests' = RemoveAt(requests, i)
    /\ UNCHANGED <<compact, open_page, expanded, prefill, adding, approval, received, slipped>>
    /\ Remount

\* An action that needs an approval is added, or the approved one is executed; the client
\* hears of it: the row is another one, or none.
BoardChanges ==
    /\ Left("changes") /\ Spend("changes")
    /\ approval # "waiting"
    /\ approval' \in {"none", "waiting"} \ {approval} /\ seen' = approval'
    /\ board' = [board EXCEPT !.popup = FALSE]
    /\ UNCHANGED <<compact, open_page, expanded, prefill, adding, loading, requests, received, slipped>>
    /\ Remount

ProposalNext ==
    \/ \E p \in OpenPages : OpenPage(p)
    \/ MediaChange \/ \E value \in BOOLEAN : SetActiveProposalExpanded(value)
    \/ ToggleCollapsed \/ \E t \in Tabs : ChooseTab(t)
    \/ \E d \in Drafts : HandleAddDraft(d) \/ HandleEditDraft(d)
    \/ TypeOwn \/ SubmitAction \/ OtherHandlers \/ BoardChanges
    \/ ApproveExecution \/ ConfirmReject \/ \E open \in BOOLEAN : Popup(open)
    \/ \E i \in DOMAIN requests :
        \/ ProposalServed(i) \/ ReviewServed(i)
        \/ \E ok \in BOOLEAN : ProposalAnswered(i, ok) \/ ReviewAnswered(i, ok)

----------------------------------------------------------------------------
(* Properties. *)

ProposalTypeOK ==
    /\ compact \in BOOLEAN /\ open_page \in OpenPages /\ loading \in BOOLEAN
    /\ expanded \in [OpenPages -> BOOLEAN \union {None}]
    /\ prefill \in Drafts \union {None} /\ fields \in Drafts \union {Own, None}
    /\ adding \in Drafts \union {None} /\ board.tab \in Tabs
    /\ approval \in {"none", "waiting", "approved"} /\ seen \in {"none", "waiting", "approved"}
    /\ slipped \subseteq {"failed", "taken"} /\ Len(requests) <= MaxReviews

\* A draft is proposed with its own metadata, and a proposal typed by hand without any: unless
\* another answer took prefillAction away while the draft stood in the form, or a failure
\* left it behind when the form was reset.
MetadataIsItsDrafts ==
    \A p \in received :
        /\ p.content \in Drafts => p.metadata = p.content \/ (p.metadata = None /\ "taken" \in p.slipped)
        /\ p.content = Own => p.metadata = None \/ "failed" \in p.slipped

\* One review at a time: two of one mounting of the board are under way only if a Reject was
\* confirmed there, in a popup opened before, while a review was under way.
ReviewedOnce ==
    \A i, j \in DOMAIN requests :
        i # j /\ requests[i].op # "propose" /\ requests[j].op # "propose" /\ requests[i].board = requests[j].board
        => requests[i].board \in board.crossed
=============================================================================
