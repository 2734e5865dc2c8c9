--------------------------- MODULE WebPagesProofs ---------------------------
(***************************************************************************)
(* What the pages of the web client keep, for every number of drafts,      *)
(* requests and steps: proofs about WebProposals and WebPanels, each as a  *)
(* specification of its own.                                               *)
(***************************************************************************)
EXTENDS WebProposals, WebPanels, ListLemmas

----------------------------------------------------------------------------
(* The form and the board. *)

ProposalSpec == ProposalInit /\ [][ProposalNext]_<<proposalVars, left>>

Slips == SUBSET {"failed", "taken"}
ReviewRequest == [op : {"approve", "reject"}, from : {"board"}, board : Nat, served : BOOLEAN]
ProposalRequest ==
    [op : {"propose"}, from : {"card", "form"}, content : Drafts \union {Own},
     metadata : Drafts \union {None}, slipped : Slips, form : Nat, board : Nat, served : BOOLEAN]
PageRequest == ReviewRequest \union ProposalRequest
Board == [collapsed : BOOLEAN, tab : Tabs, busy : BOOLEAN, mounted : Nat, popup : BOOLEAN,
          crossed : SUBSET Nat]

\* The types that the proofs need.
PagesTyped ==
    /\ prefill \in Drafts \union {None} /\ fields \in Drafts \union {Own, None}
    /\ slipped \in Slips /\ form_of \in Nat
    /\ board \in Board /\ requests \in Seq(PageRequest)

\* Remount types the form when prefillAction is typed.
LEMMA RemountTyped ==
  ASSUME Remount, form_of \in Nat, fields \in Drafts \union {Own, None},
         prefill' \in Drafts \union {None}
  PROVE  form_of' \in Nat /\ fields' \in Drafts \union {Own, None}
  BY DEF Remount

\* A request stays one when it is served.
LEMMA ServedTyped ==
  ASSUME NEW r \in PageRequest
  PROVE  /\ [r EXCEPT !.served = TRUE] \in PageRequest
         /\ r.op = "propose" => r \in ProposalRequest
         /\ r.op # "propose" => r \in ReviewRequest
<1>1. CASE r \in ReviewRequest
  <2>1. [r EXCEPT !.served = TRUE] \in ReviewRequest
    BY <1>1 DEF ReviewRequest
  <2>2. r.op # "propose"
    BY <1>1 DEF ReviewRequest
  <2>. QED
    BY <1>1, <2>1, <2>2 DEF PageRequest
<1>2. CASE r \in ProposalRequest
  <2>1. [r EXCEPT !.served = TRUE] \in ProposalRequest
    BY <1>2 DEF ProposalRequest
  <2>2. r.op = "propose"
    BY <1>2 DEF ProposalRequest
  <2>. QED
    BY <1>2, <2>1, <2>2 DEF PageRequest
<1>. QED
  BY <1>1, <1>2 DEF PageRequest

\* The board stays one when a handler changes it.
LEMMA BoardTyped ==
  ASSUME board \in Board
  PROVE  /\ board.mounted \in Nat
         /\ Mounted(board) \in Board
         /\ Mounted(board).mounted = board.mounted + 1 /\ Mounted(board).busy = FALSE
         /\ Mounted(board).crossed = board.crossed
<1>. DEFINE b == [board EXCEPT !.tab = "pending"]
            c == [b EXCEPT !.busy = FALSE]
            d == [c EXCEPT !.mounted = board.mounted + 1]
            e == [d EXCEPT !.popup = FALSE]
<1>1. board.mounted \in Nat /\ board.mounted + 1 \in Nat
  BY DEF Board
<1>2. b \in Board /\ b.crossed = board.crossed /\ b.mounted = board.mounted
  BY DEF Board, Tabs
<1>3. Mounted(board) = e
  BY DEF Mounted
<1>. HIDE DEF b
<1>4. c \in Board /\ c.crossed = board.crossed /\ c.busy = FALSE
  BY <1>2 DEF Board
<1>. HIDE DEF c
<1>5. d \in Board /\ d.crossed = board.crossed /\ d.busy = FALSE /\ d.mounted = board.mounted + 1
  BY <1>1, <1>4 DEF Board
<1>. HIDE DEF d
<1>6. e \in Board /\ e.crossed = board.crossed /\ e.busy = FALSE /\ e.mounted = board.mounted + 1
  BY <1>5 DEF Board
<1>. QED
  BY <1>1, <1>3, <1>6

\* The same when it is asked for a review.
LEMMA BoardAsked ==
  ASSUME board \in Board, NEW busy_now \in BOOLEAN, NEW open \in BOOLEAN, NEW C \in SUBSET Nat
  PROVE  LET n == [board EXCEPT !.popup = open, !.busy = busy_now, !.crossed = C] IN
         /\ n \in Board /\ n.mounted = board.mounted /\ n.busy = busy_now /\ n.crossed = C
<1>. DEFINE b == [board EXCEPT !.popup = open]
            c == [b EXCEPT !.busy = busy_now]
            d == [c EXCEPT !.crossed = C]
<1>1. b \in Board /\ b.mounted = board.mounted
  BY DEF Board
<1>. HIDE DEF b
<1>2. c \in Board /\ c.mounted = board.mounted /\ c.busy = busy_now
  BY <1>1 DEF Board
<1>. HIDE DEF c
<1>3. d \in Board /\ d.mounted = board.mounted /\ d.busy = busy_now /\ d.crossed = C
  BY <1>2 DEF Board
<1>4. [board EXCEPT !.popup = open, !.busy = busy_now, !.crossed = C] = d
  BY DEF b, c
<1>. QED
  BY <1>3, <1>4

\* How the board comes to a review, or to its answer, in the five handlers that concern one.
LEMMA BoardReviews ==
  ASSUME board \in Board
  PROVE  /\ ApproveExecution => /\ board' \in Board /\ board'.mounted = board.mounted
                                /\ board'.busy /\ board'.crossed = board.crossed
         /\ ConfirmReject => /\ board' \in Board /\ board'.mounted = board.mounted /\ board'.busy
                             /\ board'.crossed = IF board.busy THEN board.crossed \union {board.mounted}
                                                 ELSE board.crossed
         /\ BoardChanges \/ (\E open \in BOOLEAN : Popup(open)) =>
              /\ board' \in Board /\ board'.mounted = board.mounted
              /\ board'.busy = board.busy /\ board'.crossed = board.crossed
         /\ \A i \in DOMAIN requests, ok \in BOOLEAN : ReviewAnswered(i, ok) =>
              /\ board' \in Board /\ board'.mounted = board.mounted /\ board'.crossed = board.crossed
              /\ board'.busy <=> board.busy /\ requests[i].board # board.mounted
<1>. board.busy \in BOOLEAN /\ board.popup \in BOOLEAN /\ board.mounted \in Nat /\ board.crossed \in SUBSET Nat
  BY DEF Board
<1>2. ASSUME ApproveExecution
      PROVE  /\ board' \in Board /\ board'.mounted = board.mounted
             /\ board'.busy /\ board'.crossed = board.crossed
  BY <1>2 DEF ApproveExecution, Board
<1>3. ASSUME ConfirmReject
      PROVE  /\ board' \in Board /\ board'.mounted = board.mounted /\ board'.busy
             /\ board'.crossed = IF board.busy THEN board.crossed \union {board.mounted} ELSE board.crossed
  <2>. DEFINE C == IF board.busy THEN board.crossed \union {board.mounted} ELSE board.crossed
  <2>1. board' = [board EXCEPT !.popup = FALSE, !.busy = TRUE, !.crossed = C]
    BY <1>3 DEF ConfirmReject
  <2>2. C \in SUBSET Nat
    OBVIOUS
  <2>. HIDE DEF C
  <2>3. board' \in Board /\ board'.mounted = board.mounted /\ board'.busy /\ board'.crossed = C
    BY <2>1, <2>2, BoardAsked
  <2>. QED
    BY <2>3 DEF C
<1>4. ASSUME BoardChanges \/ (\E open \in BOOLEAN : Popup(open))
      PROVE  /\ board' \in Board /\ board'.mounted = board.mounted
             /\ board'.busy = board.busy /\ board'.crossed = board.crossed
  <2>1. PICK open \in BOOLEAN : board' = [board EXCEPT !.popup = open]
    BY <1>4 DEF BoardChanges, Popup
  <2>. QED
    BY <2>1 DEF Board
<1>5. ASSUME NEW i \in DOMAIN requests, NEW ok \in BOOLEAN, ReviewAnswered(i, ok)
      PROVE  /\ board' \in Board /\ board'.mounted = board.mounted /\ board'.crossed = board.crossed
             /\ board'.busy <=> board.busy /\ requests[i].board # board.mounted
  <2>1. PICK b \in BOOLEAN, open \in BOOLEAN :
          /\ board' = [board EXCEPT !.busy = b, !.popup = open]
          /\ b <=> board.busy /\ requests[i].board # board.mounted
    BY <1>5 DEF ReviewAnswered
  <2>. DEFINE c == [board EXCEPT !.busy = b]
  <2>2. c \in Board /\ c.mounted = board.mounted /\ c.crossed = board.crossed /\ c.busy = b
    BY DEF Board
  <2>3. board' = [c EXCEPT !.popup = open]
    BY <2>1
  <2>. HIDE DEF c
  <2>4. board' \in Board /\ board'.mounted = board.mounted /\ board'.crossed = board.crossed /\ board'.busy = b
    BY <2>2, <2>3 DEF Board
  <2>. QED
    BY <2>1, <2>4
<1>. QED
  BY <1>2, <1>3, <1>4, <1>5

\* Every state of the form and the board is of its type.
THEOREM PagesTypedHolds == ProposalSpec => []PagesTyped
<1>1. ProposalInit => PagesTyped
  BY DEF ProposalInit, PagesTyped, Slips, Board, Tabs
<1>2. ASSUME PagesTyped, [ProposalNext]_<<proposalVars, left>>
      PROVE  PagesTyped'
  <2>. USE <1>2 DEF PagesTyped
  <2>1. ASSUME NEW p \in OpenPages, OpenPage(p) PROVE PagesTyped'
    BY <2>1, RemountTyped, BoardTyped DEF OpenPage
  <2>2. ASSUME MediaChange \/ \E value \in BOOLEAN : SetActiveProposalExpanded(value)
        PROVE  PagesTyped'
    BY <2>2, RemountTyped DEF MediaChange, SetActiveProposalExpanded
  <2>3. CASE ToggleCollapsed
    BY <2>3 DEF ToggleCollapsed, Board
  <2>4. ASSUME NEW t \in Tabs, ChooseTab(t) PROVE PagesTyped'
    BY <2>4 DEF ChooseTab, Board
  <2>5. ASSUME NEW d \in Drafts, HandleAddDraft(d) PROVE PagesTyped'
    <3>1. Proposal("card", d, d) \in ProposalRequest
      BY BoardTyped DEF Proposal, ProposalRequest, Slips
    <3>. QED
      BY <2>5, <3>1 DEF HandleAddDraft, Ask, PageRequest
  <2>6. ASSUME NEW d \in Drafts, HandleEditDraft(d) PROVE PagesTyped'
    BY <2>6 DEF HandleEditDraft, Slips
  <2>7. CASE TypeOwn
    BY <2>7 DEF TypeOwn, Slips
  <2>8. CASE SubmitAction
    <3>1. Proposal("form", fields, prefill) \in ProposalRequest
      BY <2>8, BoardTyped DEF SubmitAction, Proposal, ProposalRequest, Slips
    <3>. QED
      BY <2>8, <3>1 DEF SubmitAction, Ask, PageRequest
  <2>9. CASE OtherHandlers \/ BoardChanges \/ \E open \in BOOLEAN : Popup(open)
    <3>1. CASE OtherHandlers
      BY <3>1 DEF OtherHandlers
    <3>2. CASE BoardChanges
      BY <3>2, RemountTyped, BoardReviews DEF BoardChanges
    <3>3. CASE \E open \in BOOLEAN : Popup(open)
      BY <3>3, BoardReviews DEF Popup
    <3>. QED
      BY <2>9, <3>1, <3>2, <3>3
  <2>10. CASE ApproveExecution \/ ConfirmReject
    <3>0. PICK op \in {"approve", "reject"} : Review(op)
      BY <2>10 DEF ApproveExecution, ConfirmReject
    <3>1. [op |-> op, from |-> "board", board |-> board.mounted, served |-> FALSE] \in ReviewRequest
      BY BoardTyped DEF ReviewRequest
    <3>2. requests' \in Seq(PageRequest)
      BY <3>0, <3>1 DEF Review, Ask, PageRequest
    <3>3. board' \in Board
      BY <2>10, BoardReviews
    <3>. QED
      BY <3>0, <3>2, <3>3 DEF Review
  <2>11. ASSUME NEW i \in DOMAIN requests, ProposalServed(i) \/ ReviewServed(i) PROVE PagesTyped'
    <3>1. requests' = [requests EXCEPT ![i] = [requests[i] EXCEPT !.served = TRUE]]
      BY <2>11 DEF ProposalServed, ReviewServed
    <3>2. requests' \in Seq(PageRequest)
      BY <3>1, ServedTyped, UpdateProperties
    <3>. QED
      BY <2>11, <3>2 DEF ProposalServed, ReviewServed
  <2>12. ASSUME NEW i \in DOMAIN requests, NEW ok \in BOOLEAN, ProposalAnswered(i, ok)
         PROVE  PagesTyped'
    BY <2>12, RemoveAtProperties DEF ProposalAnswered, Slips
  <2>13. ASSUME NEW i \in DOMAIN requests, NEW ok \in BOOLEAN, ReviewAnswered(i, ok)
         PROVE  PagesTyped'
    BY <2>13, RemoveAtProperties, RemountTyped, BoardReviews DEF ReviewAnswered
  <2>14. CASE UNCHANGED <<proposalVars, left>>
    BY <2>14 DEF proposalVars
  <2>. QED
    BY <1>2, <2>1, <2>2, <2>3, <2>4, <2>5, <2>6, <2>7, <2>8, <2>9, <2>10, <2>11, <2>12, <2>13, <2>14
       DEF ProposalNext
<1>. QED
  BY <1>1, <1>2, PTL DEF ProposalSpec

IsReview(r) == r.op # "propose"

\* A review belongs to a board that is or was mounted, and the one that is mounted waits for it,
\* unless reviews have crossed there.
BoardWaits ==
    \A i \in DOMAIN requests : IsReview(requests[i]) =>
        /\ requests[i].board <= board.mounted
        /\ requests[i].board = board.mounted => board.busy \/ board.mounted \in board.crossed

ReviewInv == PagesTyped /\ BoardWaits /\ ReviewedOnce

\* Serving a request, or removing one, adds no review.
LEMMA NoNewReview ==
  ASSUME ReviewInv, board' = board, NEW i \in DOMAIN requests,
         \/ requests' = [requests EXCEPT ![i].served = TRUE]
         \/ requests' = RemoveAt(requests, i)
  PROVE  (BoardWaits /\ ReviewedOnce)'
<1>. USE DEF ReviewInv, PagesTyped
<1>1. CASE requests' = [requests EXCEPT ![i].served = TRUE]
  <2>1. requests' = [requests EXCEPT ![i] = [requests[i] EXCEPT !.served = TRUE]]
    BY <1>1
  <2>2. \A k \in DOMAIN requests : requests[k] \in PageRequest
    OBVIOUS
  <2>3. \A r \in PageRequest : [r EXCEPT !.served = TRUE].op = r.op /\ [r EXCEPT !.served = TRUE].board = r.board
    BY DEF PageRequest, ReviewRequest, ProposalRequest
  <2>4. /\ DOMAIN requests' = DOMAIN requests
        /\ \A k \in DOMAIN requests : requests'[k].op = requests[k].op /\ requests'[k].board = requests[k].board
    BY <2>1, <2>2, <2>3
  <2>. QED
    BY <2>4 DEF BoardWaits, ReviewedOnce, IsReview
<1>2. CASE requests' = RemoveAt(requests, i)
  <2>1. /\ requests' \in Seq(PageRequest)
        /\ \A k \in DOMAIN requests' : Before(i, k) \in DOMAIN requests \ {i} /\ requests'[k] = requests[Before(i, k)]
    BY <1>2, RemoveAtProperties
  <2>2. \A k, l \in DOMAIN requests' : k # l => Before(i, k) # Before(i, l)
    BY <1>2, BeforeInjective
  <2>. QED
    BY <2>1, <2>2 DEF BoardWaits, ReviewedOnce, IsReview
<1>. QED
  BY <1>1, <1>2

\* Two reviews of one mounting of the board are under way only if a Reject was confirmed there
\* during a review: the buttons wait for the answer, the popup does not.  A board that is
\* mounted anew has forgotten that it was asked.
THEOREM ReviewedOnceHolds == ProposalSpec => []ReviewedOnce
<1>1. ProposalInit => BoardWaits /\ ReviewedOnce
  BY DEF ProposalInit, BoardWaits, ReviewedOnce
<1>2. ASSUME ReviewInv, PagesTyped', [ProposalNext]_<<proposalVars, left>>
      PROVE  (BoardWaits /\ ReviewedOnce)'
  <2>. USE DEF ReviewInv, PagesTyped
  <2>0. /\ board.mounted \in Nat /\ DOMAIN requests = 1 .. Len(requests)
        /\ \A k \in DOMAIN requests : IsReview(requests[k]) => requests[k].board \in Nat
    <3>1. \A k \in DOMAIN requests : requests[k] \in PageRequest
      BY <1>2
    <3>2. \A r \in PageRequest : IsReview(r) => r.board \in Nat
      BY DEF PageRequest, ReviewRequest, ProposalRequest, IsReview
    <3>. QED
      BY <1>2, <3>1, <3>2, BoardTyped
  <2>1. ASSUME requests' = requests, \/ board' = board
                                     \/ board' = Mounted(board)
                                     \/ /\ board'.mounted = board.mounted /\ board'.busy = board.busy
                                        /\ board'.crossed = board.crossed
        PROVE  (BoardWaits /\ ReviewedOnce)'
    BY <1>2, <2>0, <2>1, BoardTyped DEF BoardWaits, ReviewedOnce
  <2>2. ASSUME NEW r \in ProposalRequest, requests' = Append(requests, r), board' = board
        PROVE  (BoardWaits /\ ReviewedOnce)'
    <3>1. ~IsReview(r)
      BY DEF ProposalRequest, IsReview
    <3>. QED
      BY <1>2, <2>0, <2>2, <3>1 DEF BoardWaits, ReviewedOnce, IsReview
  <2>3. ASSUME NEW p \in OpenPages, OpenPage(p) PROVE (BoardWaits /\ ReviewedOnce)'
    BY <2>1, <2>3 DEF OpenPage
  <2>4. CASE MediaChange \/ \E value \in BOOLEAN : SetActiveProposalExpanded(value)
    BY <2>1, <2>4 DEF MediaChange, SetActiveProposalExpanded
  <2>5. CASE ToggleCollapsed \/ \E t \in Tabs : ChooseTab(t)
    <3>1. /\ board'.mounted = board.mounted /\ board'.busy = board.busy /\ requests' = requests
          /\ board'.crossed = board.crossed
      BY <1>2, <2>5 DEF ToggleCollapsed, ChooseTab, Board
    <3>. QED
      BY <2>1, <3>1
  <2>6. ASSUME NEW d \in Drafts, HandleAddDraft(d) \/ HandleEditDraft(d)
        PROVE  (BoardWaits /\ ReviewedOnce)'
    <3>1. Proposal("card", d, d) \in ProposalRequest
      BY <1>2, <2>0 DEF Proposal, ProposalRequest, Slips
    <3>. QED
      BY <2>1, <2>2, <2>6, <3>1 DEF HandleAddDraft, HandleEditDraft, Ask
  <2>7. CASE TypeOwn \/ OtherHandlers \/ BoardChanges \/ \E open \in BOOLEAN : Popup(open)
    <3>1. requests' = requests
      BY <2>7 DEF TypeOwn, OtherHandlers, BoardChanges, Popup
    <3>2. TypeOwn \/ OtherHandlers => board' = board
      BY DEF TypeOwn, OtherHandlers
    <3>. QED
      BY <1>2, <2>1, <2>7, <3>1, <3>2, BoardReviews
  <2>8. CASE SubmitAction
    <3>1. Proposal("form", fields, prefill) \in ProposalRequest
      BY <1>2, <2>0, <2>8 DEF SubmitAction, Proposal, ProposalRequest, Slips
    <3>. QED
      BY <2>2, <2>8, <3>1 DEF SubmitAction, Ask
  <2>9. CASE ApproveExecution \/ ConfirmReject
    <3>0. PICK op \in {"approve", "reject"} : Review(op)
      BY <2>9 DEF ApproveExecution, ConfirmReject
    <3>. DEFINE r == [op |-> op, from |-> "board", board |-> board.mounted, served |-> FALSE]
    <3>1. requests' = Append(requests, r) /\ r.board = board.mounted
      BY <3>0 DEF Review, Ask
    <3>. HIDE DEF r
    <3>2. /\ board'.mounted = board.mounted /\ board'.busy /\ board.crossed \subseteq board'.crossed
          /\ ~board.busy \/ board.mounted \in board'.crossed
      BY <1>2, <2>9, BoardReviews DEF ApproveExecution, ReviewEnabled
    <3>3. \A k \in DOMAIN requests : IsReview(requests[k]) =>
             requests[k].board < board.mounted \/ board.mounted \in board'.crossed
      BY <1>2, <2>0, <3>2 DEF BoardWaits
    <3>4. /\ DOMAIN requests' = DOMAIN requests \union {Len(requests) + 1}
          /\ \A k \in DOMAIN requests : requests'[k] = requests[k]
          /\ requests'[Len(requests) + 1] = r
      BY <1>2, <3>1
    <3>5. BoardWaits'
      BY <1>2, <2>0, <3>1, <3>2, <3>4 DEF BoardWaits, IsReview
    <3>6. ReviewedOnce'
      BY <1>2, <2>0, <3>1, <3>2, <3>3, <3>4 DEF ReviewedOnce, IsReview
    <3>. QED
      BY <3>5, <3>6
  <2>10. ASSUME NEW i \in DOMAIN requests,
                \/ ProposalServed(i) \/ ReviewServed(i) \/ \E ok \in BOOLEAN : ProposalAnswered(i, ok)
         PROVE  (BoardWaits /\ ReviewedOnce)'
    BY <1>2, <2>10, NoNewReview DEF ProposalServed, ReviewServed, ProposalAnswered
  <2>11. ASSUME NEW i \in DOMAIN requests, NEW ok \in BOOLEAN, ReviewAnswered(i, ok)
         PROVE  (BoardWaits /\ ReviewedOnce)'
    <3>1. /\ requests' = RemoveAt(requests, i) /\ IsReview(requests[i])
          /\ board'.mounted = board.mounted /\ board'.crossed = board.crossed
          /\ board.busy /\ requests[i].board # board.mounted => board'.busy
      BY <1>2, <2>11, BoardReviews DEF ReviewAnswered, IsReview
    <3>2. /\ requests' \in Seq(PageRequest)
          /\ \A k \in DOMAIN requests' : Before(i, k) \in DOMAIN requests \ {i} /\ requests'[k] = requests[Before(i, k)]
      BY <1>2, <3>1, RemoveAtProperties
    <3>3. \A k, l \in DOMAIN requests' : k # l => Before(i, k) # Before(i, l)
      BY <1>2, <3>1, BeforeInjective
    <3>4. ReviewedOnce'
      BY <1>2, <3>1, <3>2, <3>3 DEF ReviewedOnce, IsReview
    <3>5. ASSUME NEW k \in DOMAIN requests', IsReview(requests'[k])
          PROVE  /\ requests'[k].board <= board.mounted
                 /\ requests'[k].board = board.mounted => board'.busy \/ board.mounted \in board.crossed
      <4>1. /\ Before(i, k) \in DOMAIN requests \ {i} /\ requests'[k] = requests[Before(i, k)]
            /\ IsReview(requests[Before(i, k)])
        BY <3>2, <3>5
      <4>2. CASE requests[i].board = board.mounted
        BY <1>2, <3>1, <4>1, <4>2 DEF BoardWaits, ReviewedOnce, IsReview
      <4>3. CASE requests[i].board # board.mounted
        BY <1>2, <3>1, <4>1, <4>3 DEF BoardWaits
      <4>. QED
        BY <4>2, <4>3
    <3>6. BoardWaits'
      BY <3>1, <3>5 DEF BoardWaits, IsReview
    <3>. QED
      BY <3>4, <3>6
  <2>12. CASE UNCHANGED <<proposalVars, left>>
    BY <2>1, <2>12 DEF proposalVars
  <2>. QED
    BY <1>2, <2>3, <2>4, <2>5, <2>6, <2>7, <2>8, <2>9, <2>10, <2>11, <2>12 DEF ProposalNext
<1>. QED
  BY <1>1, <1>2, PagesTypedHolds, PTL DEF ProposalSpec, ReviewInv

\* A proposal carries the metadata of its content, or it is known how it lost or kept others.
Accounted(p) ==
    /\ p.content \in Drafts => p.metadata = p.content \/ (p.metadata = None /\ "taken" \in p.slipped)
    /\ p.content = Own => p.metadata = None \/ "failed" \in p.slipped

\* The same of what the form would send, and of a blank form that is on the screen, for its
\* next content is typed by hand.
FormAccounted ==
    /\ fields \in Drafts => prefill = fields \/ (prefill = None /\ "taken" \in slipped)
    /\ fields = Own => prefill = None \/ "failed" \in slipped
    /\ VisibleProposalExpanded /\ fields = None => prefill = None \/ "failed" \in slipped

MetadataInv ==
    /\ PagesTyped /\ FormAccounted /\ MetadataIsItsDrafts
    /\ \A i \in DOMAIN requests : requests[i].op = "propose" => Accounted(requests[i])

\* A form that is mounted anew takes the draft that is to be edited, with its metadata; one
\* that stays keeps its content.
LEMMA RemountAccounted ==
  ASSUME PagesTyped, FormAccounted, Remount, prefill' = prefill, slipped' = slipped
  PROVE  FormAccounted'
<1>1. CASE Shown_form' = Shown_form
  <2>1. VisibleProposalExpanded' = VisibleProposalExpanded
    BY <1>1 DEF Shown_form, VisibleProposalExpanded
  <2>. QED
    BY <1>1, <2>1 DEF Remount, FormAccounted
<1>2. CASE Shown_form' # Shown_form
  BY <1>2, WebProposalsAssumption DEF Remount, Shown_form, FormAccounted, PagesTyped
<1>. QED
  BY <1>1, <1>2

\* A draft reaches the server with its own metadata, and a proposal typed by hand without any,
\* however the form is hidden, mounted again, filled and sent meanwhile: unless an answer took
\* prefillAction away while the draft stood in the form, or a failure left it behind.
THEOREM MetadataIsItsDraftsHolds == ProposalSpec => []MetadataIsItsDrafts
<1>. DEFINE Requests == \A i \in DOMAIN requests : requests[i].op = "propose" => Accounted(requests[i])
<1>1. ProposalInit => FormAccounted /\ MetadataIsItsDrafts /\ Requests
  BY WebProposalsAssumption DEF ProposalInit, FormAccounted, MetadataIsItsDrafts
<1>2. ASSUME MetadataInv, PagesTyped', [ProposalNext]_<<proposalVars, left>>
      PROVE  (FormAccounted /\ MetadataIsItsDrafts /\ Requests)'
  <2>. USE DEF MetadataInv, PagesTyped
  <2>1. ASSUME requests' = requests, received' = received
        PROVE  (MetadataIsItsDrafts /\ Requests)'
    BY <1>2, <2>1 DEF MetadataIsItsDrafts, Accounted
  <2>2. ASSUME NEW r \in PageRequest, r.op = "propose" => Accounted(r),
               requests' = Append(requests, r), received' = received
        PROVE  (MetadataIsItsDrafts /\ Requests)'
    <3>1. /\ DOMAIN requests' = DOMAIN requests \union {Len(requests) + 1}
          /\ \A k \in DOMAIN requests : requests'[k] = requests[k]
          /\ requests'[Len(requests) + 1] = r
      BY <1>2, <2>2
    <3>. QED
      BY <1>2, <2>2, <3>1 DEF MetadataIsItsDrafts, Accounted
  <2>3. ASSUME NEW i \in DOMAIN requests, requests' = RemoveAt(requests, i)
        PROVE  Requests'
    <3>1. \A k \in DOMAIN requests' : Before(i, k) \in DOMAIN requests /\ requests'[k] = requests[Before(i, k)]
      BY <1>2, <2>3, RemoveAtProperties
    <3>. QED
      BY <1>2, <3>1 DEF Accounted
  <2>4. ASSUME NEW i \in DOMAIN requests, requests' = [requests EXCEPT ![i].served = TRUE]
        PROVE  Requests'
    <3>1. \A k \in DOMAIN requests : requests[k] \in PageRequest
      BY <1>2
    <3>2. ASSUME NEW r \in PageRequest
          PROVE  /\ [r EXCEPT !.served = TRUE].op = r.op
                 /\ r.op = "propose" /\ Accounted(r) => Accounted([r EXCEPT !.served = TRUE])
      BY DEF PageRequest, ReviewRequest, ProposalRequest, Accounted
    <3>3. /\ DOMAIN requests' = DOMAIN requests
          /\ \A k \in DOMAIN requests :
                requests'[k] = IF k = i THEN [requests[k] EXCEPT !.served = TRUE] ELSE requests[k]
      BY <1>2, <2>4
    <3>4. ASSUME NEW k \in DOMAIN requests', requests'[k].op = "propose"
          PROVE  Accounted(requests'[k])
      <4>1. CASE k = i
        BY <1>2, <3>1, <3>2, <3>3, <3>4, <4>1
      <4>2. CASE k # i
        BY <1>2, <3>3, <3>4, <4>2
      <4>. QED
        BY <4>1, <4>2
    <3>. QED
      BY <3>4 DEF Accounted
  <2>5. ASSUME NEW p \in OpenPages, OpenPage(p) PROVE (FormAccounted /\ MetadataIsItsDrafts /\ Requests)'
    BY <1>2, <2>1, <2>5, RemountAccounted DEF OpenPage
  <2>6. CASE MediaChange \/ \E value \in BOOLEAN : SetActiveProposalExpanded(value)
    BY <1>2, <2>1, <2>6, RemountAccounted DEF MediaChange, SetActiveProposalExpanded
  <2>7. CASE \/ ToggleCollapsed \/ (\E t \in Tabs : ChooseTab(t)) \/ OtherHandlers
             \/ \E open \in BOOLEAN : Popup(open)
    <3>1. UNCHANGED <<requests, received, prefill, fields, slipped, compact, open_page, expanded, seen>>
      BY <2>7 DEF ToggleCollapsed, ChooseTab, OtherHandlers, Popup
    <3>. QED
      BY <1>2, <2>1, <3>1 DEF FormAccounted, VisibleProposalExpanded, ProposalExpanded, CompactApprovalPriority
  <2>8. ASSUME NEW d \in Drafts, HandleAddDraft(d)
        PROVE  (FormAccounted /\ MetadataIsItsDrafts /\ Requests)'
    <3>1. Proposal("card", d, d) \in PageRequest /\ Accounted(Proposal("card", d, d))
      BY <1>2, BoardTyped, WebProposalsAssumption
         DEF Proposal, PageRequest, ProposalRequest, Slips, Accounted
    <3>2. /\ requests' = Append(requests, Proposal("card", d, d)) /\ received' = received
          /\ UNCHANGED <<prefill, fields, slipped, compact, open_page, expanded, seen>>
      BY <2>8 DEF HandleAddDraft, Ask
    <3>. QED
      BY <1>2, <2>2, <3>1, <3>2
         DEF FormAccounted, VisibleProposalExpanded, ProposalExpanded, CompactApprovalPriority
  <2>9. ASSUME NEW d \in Drafts, HandleEditDraft(d)
        PROVE  (FormAccounted /\ MetadataIsItsDrafts /\ Requests)'
    BY <1>2, <2>1, <2>9, WebProposalsAssumption DEF HandleEditDraft, FormAccounted
  <2>10. CASE TypeOwn
    BY <1>2, <2>1, <2>10, WebProposalsAssumption DEF TypeOwn, FormAccounted
  <2>11. CASE SubmitAction
    <3>1. Proposal("form", fields, prefill) \in PageRequest /\ Accounted(Proposal("form", fields, prefill))
      BY <1>2, <2>11, BoardTyped
         DEF SubmitAction, Proposal, PageRequest, ProposalRequest, Slips, Accounted, FormAccounted
    <3>2. /\ requests' = Append(requests, Proposal("form", fields, prefill)) /\ received' = received
          /\ UNCHANGED <<prefill, fields, slipped, compact, open_page, expanded, seen>>
      BY <2>11 DEF SubmitAction, Ask
    <3>. QED
      BY <1>2, <2>2, <3>1, <3>2
         DEF FormAccounted, VisibleProposalExpanded, ProposalExpanded, CompactApprovalPriority
  <2>12. CASE ApproveExecution \/ ConfirmReject
    <3>0. PICK op \in {"approve", "reject"} : Review(op)
      BY <2>12 DEF ApproveExecution, ConfirmReject
    <3>. DEFINE r == [op |-> op, from |-> "board", board |-> board.mounted, served |-> FALSE]
    <3>1. r \in PageRequest /\ r.op # "propose"
      BY <1>2, BoardTyped DEF PageRequest, ReviewRequest
    <3>2. /\ requests' = Append(requests, r) /\ received' = received
          /\ UNCHANGED <<prefill, fields, slipped, compact, open_page, expanded, seen>>
      BY <3>0 DEF Review, Ask
    <3>. HIDE DEF r
    <3>. QED
      BY <1>2, <2>2, <3>1, <3>2
         DEF FormAccounted, VisibleProposalExpanded, ProposalExpanded, CompactApprovalPriority
  <2>13. ASSUME NEW i \in DOMAIN requests, ProposalServed(i) \/ ReviewServed(i)
         PROVE  (FormAccounted /\ MetadataIsItsDrafts /\ Requests)'
    <3>1. /\ requests' = [requests EXCEPT ![i].served = TRUE]
          /\ UNCHANGED <<prefill, fields, slipped, compact, open_page, expanded, seen>>
      BY <2>13 DEF ProposalServed, ReviewServed
    <3>2. MetadataIsItsDrafts'
      BY <1>2, <2>13 DEF ProposalServed, ReviewServed, MetadataIsItsDrafts, Accounted
    <3>. QED
      BY <1>2, <2>4, <3>1, <3>2
         DEF FormAccounted, VisibleProposalExpanded, ProposalExpanded, CompactApprovalPriority
  <2>14. ASSUME NEW i \in DOMAIN requests, NEW ok \in BOOLEAN, ProposalAnswered(i, ok)
         PROVE  (FormAccounted /\ MetadataIsItsDrafts /\ Requests)'
    <3>1. /\ requests' = RemoveAt(requests, i) /\ received' = received
          /\ UNCHANGED <<compact, open_page, expanded, seen>>
          /\ prefill' = IF ok THEN None ELSE prefill
          /\ slipped \subseteq slipped' /\ (~ok => "failed" \in slipped')
          /\ ok /\ prefill # None => "taken" \in slipped'
          /\ fields' \in {None, fields}
      BY <2>14 DEF ProposalAnswered
    <3>2. FormAccounted'
      BY <1>2, <3>1, WebProposalsAssumption
         DEF FormAccounted, VisibleProposalExpanded, ProposalExpanded, CompactApprovalPriority
    <3>. QED
      BY <1>2, <2>3, <3>1, <3>2 DEF MetadataIsItsDrafts
  <2>15. ASSUME NEW i \in DOMAIN requests, NEW ok \in BOOLEAN, ReviewAnswered(i, ok)
         PROVE  (FormAccounted /\ MetadataIsItsDrafts /\ Requests)'
    BY <1>2, <2>3, <2>15, RemountAccounted DEF ReviewAnswered, MetadataIsItsDrafts
  <2>16. CASE BoardChanges
    BY <1>2, <2>1, <2>16, RemountAccounted DEF BoardChanges
  <2>17. CASE UNCHANGED <<proposalVars, left>>
    BY <1>2, <2>1, <2>17
       DEF proposalVars, FormAccounted, VisibleProposalExpanded, ProposalExpanded, CompactApprovalPriority
  <2>. QED
    BY <1>2, <2>5, <2>6, <2>7, <2>8, <2>9, <2>10, <2>11, <2>12, <2>13, <2>14, <2>15, <2>16, <2>17
       DEF ProposalNext
<1>. QED
  BY <1>1, <1>2, PagesTypedHolds, PTL DEF ProposalSpec, MetadataInv

----------------------------------------------------------------------------
(* The history of the browser. *)

PanelSpec == PanelInit /\ [][PanelNext]_<<panelVars, left>>

HistoryInv ==
    /\ page \in Pages /\ urls \in Seq(Pages \union {None}) /\ entry \in DOMAIN urls
    /\ HistoryIsHonest

\* The page is the one that its address names, and going back always shows another page:
\* navigate() leaves no entry for the page that is open, and cuts what was ahead.
THEOREM HistoryIsHonestHolds == PanelSpec => []HistoryIsHonest
<1>1. PanelInit => HistoryInv
  <2>. SUFFICES ASSUME PanelInit PROVE HistoryInv
    OBVIOUS
  <2>1. PICK a : urls = <<IF a \in Pages \union {None} THEN a ELSE DefaultPage>>
    BY DEF PanelInit
  <2>2. urls \in Seq(Pages \union {None}) /\ DOMAIN urls = {1}
    BY <2>1, WebPanelsAssumption
  <2>. QED
    BY <2>2, WebPanelsAssumption DEF PanelInit, HistoryInv, HistoryIsHonest
<1>2. HistoryInv /\ [PanelNext]_<<panelVars, left>> => HistoryInv'
  <2>. SUFFICES ASSUME HistoryInv, [PanelNext]_<<panelVars, left>> PROVE HistoryInv'
    OBVIOUS
  <2>1. CASE UNCHANGED <<page, urls, entry>>
    BY <2>1 DEF HistoryInv, HistoryIsHonest
  <2>2. ASSUME NEW p \in Pages, Navigate(p) PROVE HistoryInv'
    <3>1. page' = p /\ PageOf(p) = p
      BY <2>2, WebPanelsAssumption DEF Navigate, Show, PageOf
    <3>2. CASE PageOf(urls[entry]) = p
      BY <2>2, <3>1, <3>2 DEF Navigate, HistoryInv, HistoryIsHonest
    <3>3. CASE PageOf(urls[entry]) # p
      <4>1. urls' = Append(SubSeq(urls, 1, entry), p) /\ entry' = entry + 1
        BY <2>2, <3>3 DEF Navigate
      <4>2. /\ entry \in 1 .. Len(urls)
            /\ SubSeq(urls, 1, entry) \in Seq(Pages \union {None})
            /\ Len(SubSeq(urls, 1, entry)) = entry
            /\ \A e \in 1 .. entry : SubSeq(urls, 1, entry)[e] = urls[e]
        BY DEF HistoryInv
      <4>3. /\ urls' \in Seq(Pages \union {None}) /\ DOMAIN urls' = 1 .. entry + 1
            /\ \A e \in 1 .. entry : urls'[e] = urls[e]
            /\ urls'[entry + 1] = p
        BY <4>1, <4>2
      <4>4. \A e \in 2 .. entry : PageOf(urls[e]) # PageOf(urls[e - 1])
        BY <4>2 DEF HistoryInv, HistoryIsHonest
      <4>5. ASSUME NEW e \in DOMAIN urls', e > 1
            PROVE  PageOf(urls'[e]) # PageOf(urls'[e - 1])
        <5>1. CASE e = entry + 1
          BY <3>1, <3>3, <4>2, <4>3, <5>1
        <5>2. CASE e # entry + 1
          <6>1. e \in 2 .. entry /\ e \in 1 .. entry /\ e - 1 \in 1 .. entry
            BY <4>2, <4>3, <4>5, <5>2
          <6>2. urls'[e] = urls[e] /\ urls'[e - 1] = urls[e - 1]
            BY <4>3, <6>1
          <6>. QED
            BY <4>4, <6>1, <6>2
        <5>. QED
          BY <5>1, <5>2
      <4>. QED
        BY <3>1, <4>1, <4>2, <4>3, <4>5 DEF HistoryInv, HistoryIsHonest
    <3>. QED
      BY <3>2, <3>3
  <2>3. ASSUME NEW e \in DOMAIN urls, PopState(e) PROVE HistoryInv'
    <3>1. urls[e] \in Pages \union {None}
      BY DEF HistoryInv
    <3>. QED
      BY <2>3, <3>1, WebPanelsAssumption DEF PopState, Show, PageOf, HistoryInv, HistoryIsHonest
  <2>4. CASE \/ TypeSettings \/ HandleSave \/ HandleTest \/ \E op \in {"audit", "wipe"} : HandleExport(op)
             \/ HandleIntegrate \/ HandleRegister \/ RunSearch \/ BeforeUpload \/ CustomRequest
             \/ LoadConfiguration
    BY <2>1, <2>4 DEF TypeSettings, HandleSave, HandleTest, HandleExport, HandleIntegrate,
                      HandleRegister, RunSearch, BeforeUpload, CustomRequest, LoadConfiguration, Stays
  <2>5. ASSUME NEW i \in DOMAIN calls,
               \/ PanelServed(i) \/ SettingsAnswered(i) \/ ReportAnswered(i) \/ Integrated(i)
               \/ Registered(i) \/ Found(i) \/ Uploaded(i) \/ ConfigLoaded(i) \/ PanelCallFails(i)
        PROVE  HistoryInv'
    BY <2>1, <2>5 DEF PanelServed, SettingsAnswered, ReportAnswered, Integrated, Registered, Found,
                      Uploaded, ConfigLoaded, PanelCallFails
  <2>6. CASE UNCHANGED <<panelVars, left>>
    BY <2>1, <2>6 DEF panelVars
  <2>. QED
    BY <2>2, <2>3, <2>4, <2>5, <2>6 DEF PanelNext
<1>. QED
  BY <1>1, <1>2, PTL DEF PanelSpec, HistoryInv

----------------------------------------------------------------------------
(* The panels. *)

Number == Nat \union {None}
Field == [driver : Number, extra : Number]
Asks == {"load", "save", "test", "check", "audit", "wipe", "integrate", "search", "upload", "config"}
PanelAsk == [op : Asks, mount : Nat, arg : Number, got : Number, crossed : BOOLEAN]
RegisterAsk ==
    [op : {"register"}, mount : Nat, arg : [shown : Nat, field : Field], got : Number, crossed : BOOLEAN]
PanelCall == PanelAsk \union RegisterAsk
Ops == Asks \union {"register"}
Alerts == {"none", "success", "error"}
PanelState ==
    [llm : Number, form : Number, check : Number, driver : Number, field : Field,
     registered : Number, asked : Number, found : Number, file : Number, about : Number,
     spin : SUBSET Ops, say : [Places -> Alerts], doubt : SUBSET Places]

\* The types that the proofs need.
PanelsTyped ==
    /\ mount \in Nat /\ serial \in Nat /\ saved \in Nat /\ robots \in Nat
    /\ panel \in PanelState
    /\ config \in [shown : Number, loading : BOOLEAN, doubt : BOOLEAN]
    /\ calls \in Seq(PanelCall)
    /\ \A i \in DOMAIN calls : calls[i].mount <= mount

NewCall(op, arg, m, crossed) == [op |-> op, mount |-> m, arg |-> arg, got |-> None, crossed |-> crossed]

\* The places of the requests.
LEMMA SlotValues ==
  ASSUME NEW op \in Ops
  PROVE  /\ Slot(op) \in Places
         /\ Slot(op) = "llm" <=> op \in {"load", "save", "test"}
         /\ Slot(op) = "driver" <=> op \in {"integrate", "register"}
         /\ \A s \in Places \ {"llm", "driver"} : Slot(op) = s <=> op = s
  BY DEF Ops, Asks, Slot, Places

\* The fields of a request.
LEMMA CallTyped ==
  ASSUME NEW c \in PanelCall
  PROVE  /\ c.op \in Ops /\ c.mount \in Nat /\ c.got \in Number /\ c.crossed \in BOOLEAN
         /\ c.op # "register" => c.arg \in Number
         /\ c.op = "register" => c.arg \in [shown : Nat, field : Field]
         /\ \A x \in BOOLEAN : [c EXCEPT !.crossed = x] \in PanelCall
         /\ \A g \in Number : [c EXCEPT !.got = g] \in PanelCall
<1>1. CASE c \in PanelAsk
  <2>1. c.op # "register"
    BY <1>1 DEF PanelAsk, Asks
  <2>2. /\ \A x \in BOOLEAN : [c EXCEPT !.crossed = x] \in PanelAsk
        /\ \A g \in Number : [c EXCEPT !.got = g] \in PanelAsk
    BY <1>1 DEF PanelAsk
  <2>. QED
    BY <1>1, <2>1, <2>2 DEF PanelCall, PanelAsk, Ops
<1>2. CASE c \in RegisterAsk
  <2>1. /\ \A x \in BOOLEAN : [c EXCEPT !.crossed = x] \in RegisterAsk
        /\ \A g \in Number : [c EXCEPT !.got = g] \in RegisterAsk
    BY <1>2 DEF RegisterAsk
  <2>. QED
    BY <1>2, <2>1 DEF PanelCall, RegisterAsk, Ops
<1>. QED
  BY <1>1, <1>2 DEF PanelCall

\* The fields of a request that is marked as crossed, and of one that is served.
LEMMA CallFields ==
  ASSUME NEW c \in PanelCall
  PROVE  /\ \A x : /\ [c EXCEPT !.crossed = x].op = c.op /\ [c EXCEPT !.crossed = x].mount = c.mount
                   /\ [c EXCEPT !.crossed = x].arg = c.arg /\ [c EXCEPT !.crossed = x].got = c.got
                   /\ [c EXCEPT !.crossed = x].crossed = x
         /\ \A g : /\ [c EXCEPT !.got = g].op = c.op /\ [c EXCEPT !.got = g].mount = c.mount
                   /\ [c EXCEPT !.got = g].arg = c.arg /\ [c EXCEPT !.got = g].crossed = c.crossed
                   /\ [c EXCEPT !.got = g].got = g
<1>1. CASE c \in PanelAsk
  BY <1>1 DEF PanelAsk
<1>2. CASE c \in RegisterAsk
  BY <1>2 DEF RegisterAsk
<1>. QED
  BY <1>1, <1>2 DEF PanelCall

\* What a request d has in common with the request c that it was before a step.
Same(c, d) == d.op = c.op /\ d.mount = c.mount /\ d.arg = c.arg /\ d.got = c.got

\* The requests once some more are sent: those under way, and the new ones after them.
LEMMA WithProperties ==
  ASSUME calls \in Seq(PanelCall), NEW ops, IsFiniteSet(ops), NEW arg, NEW m,
         \A o \in ops : \A x \in BOOLEAN : NewCall(o, arg, m, x) \in PanelCall
  PROVE  /\ With(ops, arg, m) \in Seq(PanelCall)
         /\ Len(With(ops, arg, m)) = Len(calls) + Cardinality(ops) /\ Cardinality(ops) \in Nat
         /\ DOMAIN calls \subseteq DOMAIN With(ops, arg, m)
         /\ \A k \in DOMAIN calls :
              /\ Same(calls[k], With(ops, arg, m)[k])
              /\ With(ops, arg, m)[k].crossed <=>
                   (calls[k].crossed \/ \E o \in ops : Slot(o) = Slot(calls[k].op))
         /\ \A k \in DOMAIN With(ops, arg, m) \ DOMAIN calls :
              /\ With(ops, arg, m)[k].op \in ops
              /\ With(ops, arg, m)[k].mount = m /\ With(ops, arg, m)[k].arg = arg
              /\ With(ops, arg, m)[k].got = None
              /\ With(ops, arg, m)[k].crossed <=> Crossing(With(ops, arg, m)[k].op)
         /\ \A k, l \in DOMAIN With(ops, arg, m) \ DOMAIN calls :
              k # l => With(ops, arg, m)[k].op # With(ops, arg, m)[l].op
<1>. DEFINE X(k) == calls[k].crossed \/ \E o \in ops : Slot(o) = Slot(calls[k].op)
            cross == [k \in DOMAIN calls |-> [calls[k] EXCEPT !.crossed = X(k)]]
            new == [n \in 1 .. Cardinality(ops) |-> NewCall(SetToSeq(ops)[n], arg, m, Crossing(SetToSeq(ops)[n]))]
            W == cross \o new
<1>1. With(ops, arg, m) = W
  BY DEF With, NewCall
<1>2. /\ Cardinality(ops) \in Nat
      /\ \A n \in 1 .. Cardinality(ops) : SetToSeq(ops)[n] \in ops
      /\ \A n, k \in 1 .. Cardinality(ops) : SetToSeq(ops)[n] = SetToSeq(ops)[k] => n = k
  BY SetToSeqProperties
<1>3. new \in Seq(PanelCall) /\ Len(new) = Cardinality(ops)
  <2>1. \A n \in 1 .. Cardinality(ops) : new[n] \in PanelCall
    BY <1>2 DEF Crossing
  <2>. QED
    BY <1>2, <2>1
<1>4. DOMAIN calls = 1 .. Len(calls) /\ Len(calls) \in Nat
  OBVIOUS
<1>5. ASSUME NEW k \in DOMAIN calls
      PROVE  cross[k] \in PanelCall /\ Same(calls[k], cross[k]) /\ cross[k].crossed = X(k)
  <2>1. calls[k] \in PanelCall /\ X(k) \in BOOLEAN /\ cross[k] = [calls[k] EXCEPT !.crossed = X(k)]
    OBVIOUS
  <2>. HIDE DEF X, cross
  <2>. QED
    BY <2>1, CallTyped, CallFields DEF Same
<1>6. cross \in Seq(PanelCall) /\ Len(cross) = Len(calls) /\ DOMAIN cross = DOMAIN calls
  <2>1. DOMAIN cross = 1 .. Len(calls) /\ cross = [k \in 1 .. Len(calls) |-> cross[k]]
    BY <1>4
  <2>2. \A k \in 1 .. Len(calls) : cross[k] \in PanelCall
    BY <1>4, <1>5
  <2>. HIDE DEF cross
  <2>. QED
    BY <1>4, <2>1, <2>2
<1>7. ASSUME NEW n \in 1 .. Cardinality(ops)
      PROVE  /\ new[n].op = SetToSeq(ops)[n] /\ new[n].op \in ops
             /\ new[n].mount = m /\ new[n].arg = arg /\ new[n].got = None
             /\ new[n].crossed <=> Crossing(new[n].op)
  BY <1>2 DEF NewCall
<1>8. \A n, k \in 1 .. Cardinality(ops) : n # k => new[n].op # new[k].op
  BY <1>2, <1>7
<1>. HIDE DEF new, cross
<1>9. /\ W \in Seq(PanelCall) /\ Len(W) = Len(calls) + Cardinality(ops)
      /\ \A k \in DOMAIN calls : W[k] = cross[k]
      /\ DOMAIN calls \subseteq DOMAIN W
  BY <1>2, <1>3, <1>4, <1>6
<1>10. \A k \in DOMAIN W \ DOMAIN calls :
          k - Len(calls) \in 1 .. Cardinality(ops) /\ W[k] = new[k - Len(calls)]
  BY <1>2, <1>3, <1>4, <1>6
<1>11. \A k, l \in DOMAIN W \ DOMAIN calls : k # l => k - Len(calls) # l - Len(calls)
  BY <1>4, <1>9
<1>. HIDE DEF W
<1>12. ASSUME NEW k \in DOMAIN calls
       PROVE  Same(calls[k], W[k]) /\ (W[k].crossed <=> X(k))
  BY <1>5, <1>9
<1>13. ASSUME NEW k \in DOMAIN W \ DOMAIN calls
       PROVE  /\ W[k].op \in ops /\ W[k].mount = m /\ W[k].arg = arg /\ W[k].got = None
              /\ W[k].crossed <=> Crossing(W[k].op)
  <2>1. k - Len(calls) \in 1 .. Cardinality(ops) /\ W[k] = new[k - Len(calls)]
    BY <1>10
  <2>. QED
    BY <1>7, <2>1
<1>14. \A k, l \in DOMAIN W \ DOMAIN calls : k # l => W[k].op # W[l].op
  BY <1>8, <1>10, <1>11
<1>. QED
  BY <1>1, <1>2, <1>9, <1>12, <1>13, <1>14

\* The panel after an answer: what is shown in its place is in the places of the callers.
LEMMA AnsweredProperties ==
  ASSUME panel \in PanelState, NEW c \in PanelCall, NEW said \in Alerts
  PROVE  /\ Answered(c, said) \in PanelState
         /\ Answered(c, said).llm = panel.llm /\ Answered(c, said).driver = panel.driver
         /\ Answered(c, said).field = panel.field /\ Answered(c, said).registered = panel.registered
         /\ Answered(c, said).asked = panel.asked /\ Answered(c, said).found = panel.found
         /\ Answered(c, said).file = panel.file /\ Answered(c, said).about = panel.about
         /\ Answered(c, said).doubt =
              IF c.crossed THEN panel.doubt \union {Slot(c.op)} ELSE panel.doubt \ {Slot(c.op)}
<1>1. Slot(c.op) \in Places
  BY CallTyped, SlotValues
<1>. QED
  BY <1>1 DEF Answered, PanelState

\* The form once another driver is on show.
LEMMA RefillProperties ==
  ASSUME NEW p \in PanelState, NEW d \in Number
  PROVE  /\ Refill(p, d) \in PanelState
         /\ Refill(p, d).llm = p.llm /\ Refill(p, d).doubt = p.doubt
         /\ Refill(p, d).asked = p.asked /\ Refill(p, d).found = p.found
         /\ Refill(p, d).file = p.file /\ Refill(p, d).about = p.about
         /\ Refill(p, d).driver = d /\ Refill(p, d).registered = None
         /\ Refill(p, d).field.driver = d
         /\ d \in Defaulted => Refill(p, d).field.extra = d
  BY DEF Refill, PanelState, Field, Number

\* Sending keeps the types of the requests.
LEMMA SentTyped ==
  ASSUME PanelsTyped, NEW ops, IsFiniteSet(ops), NEW arg, NEW m \in Nat, mount <= m,
         \A o \in ops : \A x \in BOOLEAN : NewCall(o, arg, m, x) \in PanelCall
  PROVE  /\ With(ops, arg, m) \in Seq(PanelCall)
         /\ \A k \in DOMAIN With(ops, arg, m) : With(ops, arg, m)[k].mount <= m
<1>. DEFINE W == With(ops, arg, m)
<1>1. /\ W \in Seq(PanelCall)
      /\ \A k \in DOMAIN calls : Same(calls[k], W[k])
      /\ \A k \in DOMAIN W \ DOMAIN calls : W[k].mount = m
  BY WithProperties DEF PanelsTyped
<1>2. \A k \in DOMAIN calls : calls[k].mount \in Nat /\ calls[k].mount <= mount
  BY CallTyped DEF PanelsTyped
<1>3. mount \in Nat
  BY DEF PanelsTyped
<1>. HIDE DEF W
<1>. QED
  BY <1>1, <1>2, <1>3 DEF Same, W

\* Removing a request keeps the types of the others.
LEMMA RemovedTyped ==
  ASSUME NEW s \in Seq(PanelCall), NEW m, \A k \in DOMAIN s : s[k].mount <= m, NEW i \in DOMAIN s
  PROVE  /\ RemoveAt(s, i) \in Seq(PanelCall)
         /\ \A k \in DOMAIN RemoveAt(s, i) : RemoveAt(s, i)[k].mount <= m
  BY RemoveAtProperties

\* The requests that a handler can send.
LEMMA NewCallTyped ==
  ASSUME NEW op \in Ops, NEW arg, NEW m \in Nat, NEW x \in BOOLEAN,
         IF op = "register" THEN arg \in [shown : Nat, field : Field] ELSE arg \in Number
  PROVE  NewCall(op, arg, m, x) \in PanelCall
<1>1. CASE op = "register"
  BY <1>1 DEF NewCall, PanelCall, RegisterAsk, Number
<1>2. CASE op # "register"
  BY <1>2 DEF NewCall, PanelCall, PanelAsk, Number, Ops
<1>. QED
  BY <1>1, <1>2

\* A handler of the panel that sends one request.
LEMMA CallSends ==
  ASSUME PanelsTyped, NEW op \in Ops, NEW arg, Call(op, arg), mount' = mount,
         IF op = "register" THEN arg \in [shown : Nat, field : Field] ELSE arg \in Number
  PROVE  /\ calls' = With({op}, arg, mount)
         /\ calls' \in Seq(PanelCall)
         /\ \A k \in DOMAIN calls' : calls'[k].mount <= mount'
<1>1. IsFiniteSet({op})
  BY FS_Singleton
<1>2. \A o \in {op} : \A x \in BOOLEAN : NewCall(o, arg, mount, x) \in PanelCall
  BY NewCallTyped DEF PanelsTyped
<1>3. calls' = With({op}, arg, mount) /\ mount \in Nat /\ mount <= mount
  BY DEF Call, PanelsTyped
<1>. QED
  BY <1>1, <1>2, <1>3, SentTyped

\* The requests that mounting a page sends.
LEMMA MountSends ==
  ASSUME NEW p, NEW m \in Nat
  PROVE  /\ IsFiniteSet(OnMount(p))
         /\ OnMount(p) \subseteq {"check", "load"}
         /\ \A o \in OnMount(p) : \A x \in BOOLEAN : NewCall(o, None, m, x) \in PanelCall
<1>1. OnMount(p) \subseteq {"check", "load"}
  BY DEF OnMount
<1>2. IsFiniteSet(OnMount(p))
  <2>1. IsFiniteSet({"check"}) /\ IsFiniteSet({"check"} \union {"load"})
    BY FS_Singleton, FS_AddElement
  <2>2. {"check", "load"} = {"check"} \union {"load"}
    OBVIOUS
  <2>. QED
    BY <2>1, <2>2, FS_EmptySet DEF OnMount
<1>. QED
  BY <1>1, <1>2, NewCallTyped DEF Ops, Asks, Number

\* Showing a page types the panels and their requests.
LEMMA ShowTyped ==
  ASSUME PanelsTyped, NEW p, Show(p), UNCHANGED <<serial, saved, robots, config>>
  PROVE  PanelsTyped'
<1>. USE DEF PanelsTyped
<1>1. CASE p = page
  BY <1>1 DEF Show
<1>2. CASE p # page
  <2>1. /\ mount' = mount + 1 /\ mount + 1 \in Nat /\ mount <= mount + 1 /\ panel' = Fresh
        /\ calls' = With(OnMount(p), None, mount + 1)
    BY <1>2 DEF Show
  <2>2. calls' \in Seq(PanelCall) /\ \A k \in DOMAIN calls' : calls'[k].mount <= mount'
    BY <2>1, MountSends, SentTyped
  <2>3. Fresh \in PanelState
    BY DEF Fresh, PanelState, Number, Field, Alerts
  <2>. QED
    BY <2>1, <2>2, <2>3
<1>. QED
  BY <1>1, <1>2

\* What a served request brings is a number.
LEMMA ServedBrings ==
  ASSUME PanelsTyped, NEW i \in DOMAIN calls, PanelServed(i)
  PROVE  \E g \in Number :
           /\ calls' = [calls EXCEPT ![i] = [calls[i] EXCEPT !.got = g]]
           /\ Slot(calls[i].op) = "llm" => g = saved'
           /\ calls[i].op = "config" => g = robots
           /\ calls[i].op = "register" => g = calls[i].arg.shown
           /\ calls[i].op \in {"integrate", "search", "upload"} /\ calls[i].arg # None => g = calls[i].arg
           /\ g # None /\ saved' \in Nat /\ robots' \in Nat
<1>. DEFINE c == calls[i]
            g == CASE c.op \in {"load", "save", "test"} -> saved'
                   [] c.op = "config" -> robots
                   [] c.op = "register" -> c.arg.shown
                   [] OTHER -> IF c.arg = None THEN 0 ELSE c.arg
<1>1. c \in PanelCall
  BY DEF PanelsTyped
<1>2. /\ c.op \in Ops
      /\ c.op # "register" => c.arg \in Number
      /\ c.op = "register" => c.arg.shown \in Nat
      /\ Slot(c.op) = "llm" <=> c.op \in {"load", "save", "test"}
  BY <1>1, CallTyped, SlotValues
<1>3. saved' \in Nat /\ robots' \in Nat /\ robots \in Nat
  BY <1>2 DEF PanelServed, PanelsTyped, Number
<1>4. calls' = [calls EXCEPT ![i] = [calls[i] EXCEPT !.got = g]]
  BY DEF PanelServed
<1>5. g \in Nat
  BY <1>2, <1>3 DEF Number
<1>6. /\ Slot(c.op) = "llm" => g = saved'
      /\ c.op = "config" => g = robots
      /\ c.op = "register" => g = c.arg.shown
      /\ c.op \in {"integrate", "search", "upload"} /\ c.arg # None => g = c.arg
  BY <1>2
<1>. HIDE DEF g
<1>7. g \in Number /\ g # None
  BY <1>5, WebPanelsAssumption DEF Number
<1>. QED
  BY <1>3, <1>4, <1>6, <1>7

\* The requests once c has failed: a registration that fails makes the configurations doubtful
\* that were asked for meanwhile.
CrossedByFailure(c) ==
    [j \in DOMAIN calls |->
       [calls[j] EXCEPT !.crossed = @ \/ (c.op = "register" /\ calls[j].op = "config")]]

\* They are the same requests.
LEMMA CrossedByFailureProperties ==
  ASSUME calls \in Seq(PanelCall), NEW c
  PROVE  /\ CrossedByFailure(c) \in Seq(PanelCall) /\ DOMAIN CrossedByFailure(c) = DOMAIN calls
         /\ \A k \in DOMAIN calls :
              /\ Same(calls[k], CrossedByFailure(c)[k])
              /\ CrossedByFailure(c)[k].crossed <=>
                   (calls[k].crossed \/ (c.op = "register" /\ calls[k].op = "config"))
<1>. DEFINE X(k) == calls[k].crossed \/ (c.op = "register" /\ calls[k].op = "config")
            cross == [k \in DOMAIN calls |-> [calls[k] EXCEPT !.crossed = X(k)]]
<1>1. ASSUME NEW k \in DOMAIN calls
      PROVE  cross[k] \in PanelCall /\ Same(calls[k], cross[k]) /\ cross[k].crossed = X(k)
  <2>1. calls[k] \in PanelCall /\ X(k) \in BOOLEAN /\ cross[k] = [calls[k] EXCEPT !.crossed = X(k)]
    OBVIOUS
  <2>. HIDE DEF X, cross
  <2>. QED
    BY <2>1, CallTyped, CallFields DEF Same
<1>2. DOMAIN cross = 1 .. Len(calls) /\ cross = [k \in 1 .. Len(calls) |-> cross[k]] /\ Len(calls) \in Nat
  OBVIOUS
<1>3. cross = CrossedByFailure(c)
  BY DEF CrossedByFailure
<1>. HIDE DEF cross
<1>4. DOMAIN calls = 1 .. Len(calls)
  OBVIOUS
<1>5. cross \in Seq(PanelCall)
  <2>1. \A k \in 1 .. Len(calls) : cross[k] \in PanelCall
    BY <1>1, <1>4
  <2>. QED
    BY <1>2, <2>1
<1>. QED
  BY <1>1, <1>2, <1>3, <1>4, <1>5

\* Every state of the panels and of their requests is of its type.
THEOREM PanelsTypedHolds == PanelSpec => []PanelsTyped
<1>1. PanelInit => PanelsTyped
  <2>. SUFFICES ASSUME PanelInit PROVE PanelsTyped
    OBVIOUS
  <2>. DEFINE asked == IF page = "hardware" THEN {"config"} ELSE OnMount(page)
  <2>1. IsFiniteSet(asked) /\ asked \subseteq {"config", "check", "load"}
    BY MountSends, FS_Singleton
  <2>2. calls = [n \in 1 .. Cardinality(asked) |-> FirstCall(SetToSeq(asked)[n])]
    BY DEF PanelInit
  <2>. HIDE DEF asked
  <2>3. /\ Cardinality(asked) \in Nat
        /\ \A n \in 1 .. Cardinality(asked) : SetToSeq(asked)[n] \in asked
    BY <2>1, SetToSeqProperties
  <2>4. \A o \in asked : FirstCall(o) \in PanelCall /\ FirstCall(o).mount = 0
    BY <2>1 DEF FirstCall, PanelCall, PanelAsk, Asks, Number
  <2>5. calls \in Seq(PanelCall) /\ \A k \in DOMAIN calls : calls[k].mount <= 0
    BY <2>2, <2>3, <2>4
  <2>6. panel \in PanelState
    BY DEF PanelInit, Fresh, PanelState, Number, Field, Alerts
  <2>. QED
    BY <2>5, <2>6 DEF PanelInit, PanelsTyped, Number
<1>2. PanelsTyped /\ [PanelNext]_<<panelVars, left>> => PanelsTyped'
  <2>. SUFFICES ASSUME PanelsTyped, [PanelNext]_<<panelVars, left>> PROVE PanelsTyped'
    OBVIOUS
  <2>. USE DEF PanelsTyped
  <2>1. ASSUME NEW p \in Pages, Navigate(p) PROVE PanelsTyped'
    BY <2>1, ShowTyped DEF Navigate
  <2>2. ASSUME NEW e \in DOMAIN urls, PopState(e) PROVE PanelsTyped'
    BY <2>2, ShowTyped DEF PopState
  <2>3. ASSUME Enter \/ Press, Stays PROVE serial' \in Nat /\ UNCHANGED <<mount, saved, robots, config>>
    BY <2>3 DEF Enter, Press, Stays
  <2>4. CASE TypeSettings
    <3>1. panel' \in PanelState
      BY <2>3, <2>4 DEF TypeSettings, PanelState, Number
    <3>. QED
      BY <2>3, <2>4, <3>1 DEF TypeSettings
  <2>5. CASE HandleSave \/ HandleTest \/ \E op \in {"audit", "wipe"} : HandleExport(op)
    <3>1. PICK op \in {"save", "test", "audit", "wipe"}, arg \in Number, s \in Places :
            /\ Call(op, arg) /\ Press /\ Stays
            /\ panel' = [panel EXCEPT !.spin = @ \union {op}, !.say[s] = "none"]
      BY <2>5 DEF HandleSave, HandleTest, HandleExport, PanelState, Number, Places
    <3>2. panel' \in PanelState
      BY <3>1 DEF PanelState, Ops, Asks, Alerts
    <3>. QED
      BY <2>3, <3>1, <3>2, CallSends DEF Ops, Asks
  <2>6. CASE HandleIntegrate
    <3>1. panel' \in PanelState
      <4>1. [panel EXCEPT !.spin = @ \union {"integrate"}, !.say["driver"] = "none"] \in PanelState
        BY DEF PanelState, Ops, Asks, Alerts
      <4>. DEFINE q == [panel EXCEPT !.spin = @ \union {"integrate"}, !.say["driver"] = "none"]
      <4>2. panel' = [q EXCEPT !.driver = None]
        BY <2>6 DEF HandleIntegrate
      <4>. HIDE DEF q
      <4>3. q \in PanelState
        BY <4>1 DEF q
      <4>. QED
        BY <4>2, <4>3 DEF PanelState, Number
    <3>. QED
      BY <2>3, <2>6, <3>1, CallSends DEF HandleIntegrate, Ops, Asks, Number
  <2>7. CASE HandleRegister
    <3>1. panel' \in PanelState
      BY <2>7 DEF HandleRegister, PanelState, Number, Ops
    <3>2. [shown |-> panel.driver, field |-> panel.field] \in [shown : Nat, field : Field]
      BY <2>7 DEF HandleRegister, RegisterForm, PanelState, Number
    <3>. QED
      BY <2>3, <2>7, <3>1, <3>2, CallSends DEF HandleRegister, Ops
  <2>8. CASE RunSearch
    <3>1. panel' \in PanelState
      BY <2>3, <2>8 DEF RunSearch, PanelState, Number, Ops, Asks
    <3>. QED
      BY <2>3, <2>8, <3>1, CallSends DEF RunSearch, Ops, Asks, Number
  <2>9. CASE BeforeUpload
    <3>1. panel' \in PanelState
      BY <2>3, <2>9 DEF BeforeUpload, PanelState, Number, Places, Alerts
    <3>2. calls' \in Seq(PanelCall) /\ \A k \in DOMAIN calls' : calls'[k].mount <= mount
      <4>1. ASSUME NEW k \in DOMAIN calls
            PROVE  calls'[k] \in PanelCall /\ calls'[k].mount <= mount
        <5>. DEFINE x == calls[k].crossed \/ calls[k].op = "upload"
        <5>1. calls'[k] = [calls[k] EXCEPT !.crossed = x] /\ x \in BOOLEAN /\ calls[k] \in PanelCall
          BY <2>9 DEF BeforeUpload
        <5>. HIDE DEF x
        <5>. QED
          BY <5>1, CallTyped, CallFields
      <4>2. DOMAIN calls' = 1 .. Len(calls) /\ Len(calls) \in Nat /\ calls' = [k \in 1 .. Len(calls) |-> calls'[k]]
        BY <2>9 DEF BeforeUpload
      <4>. QED
        BY <4>1, <4>2
    <3>. QED
      BY <2>3, <2>9, <3>1, <3>2 DEF BeforeUpload
  <2>10. CASE CustomRequest
    <3>1. panel' \in PanelState
      <4>1. [panel EXCEPT !.file = serial', !.about = None] \in PanelState
        BY <2>3, <2>10 DEF CustomRequest, PanelState, Number
      <4>2. panel' = [[panel EXCEPT !.file = serial', !.about = None] EXCEPT !.say["upload"] = "none"]
        BY <2>10 DEF CustomRequest
      <4>. QED
        BY <4>1, <4>2 DEF PanelState, Alerts
    <3>. QED
      BY <2>3, <2>10, <3>1, CallSends DEF CustomRequest, Ops, Asks, Number
  <2>11. CASE LoadConfiguration
    <3>1. Call("config", None) /\ mount' = mount
      BY <2>11 DEF LoadConfiguration
    <3>2. calls' \in Seq(PanelCall) /\ \A k \in DOMAIN calls' : calls'[k].mount <= mount'
      BY <3>1, CallSends DEF Ops, Asks, Number
    <3>. QED
      BY <2>11, <3>2 DEF LoadConfiguration, Press
  <2>12. ASSUME NEW i \in DOMAIN calls, PanelServed(i) PROVE PanelsTyped'
    <3>1. PICK g \in Number : /\ calls' = [calls EXCEPT ![i] = [calls[i] EXCEPT !.got = g]]
                              /\ saved' \in Nat /\ robots' \in Nat
      BY <2>12, ServedBrings
    <3>2. [calls[i] EXCEPT !.got = g] \in PanelCall /\ [calls[i] EXCEPT !.got = g].mount = calls[i].mount
      BY CallTyped, CallFields
    <3>3. calls' \in Seq(PanelCall) /\ \A k \in DOMAIN calls' : calls'[k].mount <= mount
      BY <3>1, <3>2, UpdateProperties
    <3>. QED
      BY <2>12, <3>1, <3>3 DEF PanelServed
  <2>13. ASSUME NEW i \in DOMAIN calls,
                SettingsAnswered(i) \/ ReportAnswered(i) \/ Integrated(i) \/ Found(i) \/ Uploaded(i)
         PROVE  PanelsTyped'
    <3>. DEFINE c == calls[i]
    <3>1. c \in PanelCall /\ c.got \in Number /\ panel.say["llm"] \in Alerts
      BY CallTyped DEF PanelState, Places
    <3>2. /\ calls' = RemoveAt(calls, i)
          /\ UNCHANGED <<mount, serial, saved, robots, config>>
      BY <2>13 DEF SettingsAnswered, ReportAnswered, Integrated, Found, Uploaded, Finishes
    <3>3. \A said \in Alerts : Answered(c, said) \in PanelState
      BY <3>1, AnsweredProperties
    <3>4. \A q \in PanelState : /\ [q EXCEPT !.llm = c.got] \in PanelState
                                /\ [q EXCEPT !.llm = c.got, !.form = c.got] \in PanelState
                                /\ [q EXCEPT !.llm = c.got, !.form = @] \in PanelState
                                /\ [q EXCEPT !.check = c.got] \in PanelState /\ [q EXCEPT !.check = @] \in PanelState
                                /\ [q EXCEPT !.found = c.got] \in PanelState
                                /\ [q EXCEPT !.about = c.got] \in PanelState
      BY <3>1 DEF PanelState
    <3>5. \A q \in PanelState : Refill(q, c.got) \in PanelState
      BY <3>1, RefillProperties
    <3>. HIDE DEF c
    <3>6. panel' \in PanelState
      <4>1. CASE SettingsAnswered(i)
        <5>1. PICK said \in Alerts : panel' \in {panel} \union
                {[Answered(c, said) EXCEPT !.llm = c.got, !.form = IF c.op = "load" THEN c.got ELSE @]}
          BY <3>1, <4>1 DEF SettingsAnswered, c, Alerts
        <5>. QED
          BY <3>3, <3>4, <5>1
      <4>2. CASE ReportAnswered(i)
        BY <3>3, <3>4, <4>2 DEF ReportAnswered, c, Alerts
      <4>3. CASE Integrated(i)
        BY <3>3, <3>5, <4>3 DEF Integrated, c, Alerts
      <4>4. CASE Found(i) \/ Uploaded(i)
        BY <3>3, <3>4, <4>4 DEF Found, Uploaded, c, Alerts
      <4>. QED
        BY <2>13, <4>1, <4>2, <4>3, <4>4
    <3>7. calls' \in Seq(PanelCall) /\ \A k \in DOMAIN calls' : calls'[k].mount <= mount
      BY <3>2, RemovedTyped
    <3>. QED
      BY <3>2, <3>6, <3>7
  <2>14. ASSUME NEW i \in DOMAIN calls, Registered(i) PROVE PanelsTyped'
    <3>. DEFINE c == calls[i]
                W == With({"config"}, None, mount)
    <3>1. c \in PanelCall /\ c.got \in Number /\ panel.say["driver"] \in Alerts
      BY CallTyped DEF PanelState, Places
    <3>2. \A o \in {"config"} : \A x \in BOOLEAN : NewCall(o, None, mount, x) \in PanelCall
      BY NewCallTyped DEF Ops, Asks, Number
    <3>3. /\ W \in Seq(PanelCall) /\ DOMAIN calls \subseteq DOMAIN W
          /\ \A k \in DOMAIN W : W[k].mount <= mount
      <4>1. IsFiniteSet({"config"})
        BY FS_Singleton
      <4>2. mount \in Nat /\ mount <= mount
        OBVIOUS
      <4>. QED
        BY <3>2, <4>1, <4>2, SentTyped, WithProperties
    <3>4. calls' = RemoveAt(W, i) /\ mount' = mount
      BY <2>14 DEF Registered
    <3>. HIDE DEF W
    <3>5. calls' \in Seq(PanelCall) /\ \A k \in DOMAIN calls' : calls'[k].mount <= mount
      BY <3>3, <3>4, RemovedTyped
    <3>6. Answered(c, panel.say["driver"]) \in PanelState
      BY <3>1, AnsweredProperties
    <3>7. panel' \in {panel, [Answered(c, panel.say["driver"]) EXCEPT !.registered = c.got]}
      BY <2>14 DEF Registered
    <3>8. panel' \in PanelState
      BY <3>1, <3>6, <3>7 DEF PanelState
    <3>. QED
      BY <2>14, <3>4, <3>5, <3>8 DEF Registered
  <2>15. ASSUME NEW i \in DOMAIN calls, ConfigLoaded(i) PROVE PanelsTyped'
    <3>1. calls' = RemoveAt(calls, i) /\ calls[i].got \in Number
      BY <2>15, CallTyped DEF ConfigLoaded, Finishes
    <3>2. calls[i].crossed \in BOOLEAN
      BY CallTyped
    <3>3. calls' \in Seq(PanelCall) /\ \A k \in DOMAIN calls' : calls'[k].mount <= mount
      BY <3>1, RemovedTyped
    <3>. QED
      BY <2>15, <3>1, <3>2, <3>3 DEF ConfigLoaded
  <2>16. ASSUME NEW i \in DOMAIN calls, PanelCallFails(i) PROVE PanelsTyped'
    <3>. DEFINE c == calls[i]
                p == Answered(c, "error")
    <3>1. /\ c \in PanelCall /\ c.op \in Ops /\ (c.op = "upload" => c.arg \in Number)
          /\ Slot(c.op) \in Places
      BY CallTyped, SlotValues
    <3>2. p \in PanelState
      BY <3>1, AnsweredProperties DEF Alerts
    <3>3. panel' = panel \/ panel' = [p EXCEPT !.doubt = @ \union {Slot(c.op)},
                                               !.about = IF c.op = "upload" THEN c.arg ELSE @]
      BY <2>16 DEF PanelCallFails
    <3>. DEFINE d == p.doubt \union {Slot(c.op)}
                a == IF c.op = "upload" THEN c.arg ELSE p.about
    <3>. HIDE DEF p
    <3>4. panel' \in PanelState
      <4>1. d \in SUBSET Places /\ a \in Number
        BY <3>1, <3>2 DEF PanelState
      <4>2. panel' = panel \/ panel' = [p EXCEPT !.doubt = d, !.about = a]
        BY <3>3
      <4>. HIDE DEF d, a
      <4>. QED
        BY <3>2, <4>1, <4>2 DEF PanelState
    <3>5. /\ CrossedByFailure(c) \in Seq(PanelCall) /\ DOMAIN CrossedByFailure(c) = DOMAIN calls
          /\ \A k \in DOMAIN calls : Same(calls[k], CrossedByFailure(c)[k])
      BY CrossedByFailureProperties
    <3>6. calls' = RemoveAt(CrossedByFailure(c), i)
      BY <2>16 DEF PanelCallFails, CrossedByFailure
    <3>7. calls' \in Seq(PanelCall) /\ \A k \in DOMAIN calls' : calls'[k].mount <= mount
      BY <3>5, <3>6, RemovedTyped DEF Same
    <3>. QED
      BY <2>16, <3>4, <3>7 DEF PanelCallFails
  <2>17. CASE UNCHANGED <<panelVars, left>>
    BY <2>17 DEF panelVars
  <2>. QED
    BY <2>1, <2>2, <2>4, <2>5, <2>6, <2>7, <2>8, <2>9, <2>10, <2>11, <2>12, <2>13, <2>14, <2>15, <2>16, <2>17
       DEF PanelNext
<1>. QED
  BY <1>1, <1>2, PTL DEF PanelSpec

\* The form of the hardware page holds the driver that is on show.
FieldIsShown ==
    panel.driver # None =>
        /\ panel.field.driver = panel.driver
        /\ panel.driver \in Defaulted => panel.field.extra = panel.driver

\* What a registration sends is of one driver.
OfOneDriver(c) ==
    c.op = "register" =>
        /\ c.arg.field.driver = c.arg.shown
        /\ c.arg.shown \in Defaulted => c.arg.field.extra = c.arg.shown

\* Sending, serving, removing or crossing requests leaves the others what they were.
LEMMA OthersStay ==
  ASSUME PanelsTyped
  PROVE  /\ \A i \in DOMAIN calls :
              \A k \in DOMAIN RemoveAt(calls, i) :
                /\ Before(i, k) \in DOMAIN calls \ {i}
                /\ RemoveAt(calls, i)[k] = calls[Before(i, k)]
         /\ \A i \in DOMAIN calls : \A g \in Number :
              LET s == [calls EXCEPT ![i] = [calls[i] EXCEPT !.got = g]] IN
              /\ DOMAIN s = DOMAIN calls
              /\ \A k \in DOMAIN calls : /\ s[k].op = calls[k].op /\ s[k].mount = calls[k].mount
                                         /\ s[k].arg = calls[k].arg /\ s[k].crossed = calls[k].crossed
                                         /\ s[k].got = IF k = i THEN g ELSE calls[k].got
<1>. USE DEF PanelsTyped
<1>1. \A i \in DOMAIN calls : calls[i] \in PanelCall
  OBVIOUS
<1>2. ASSUME NEW i \in DOMAIN calls, NEW g \in Number
      PROVE  LET s == [calls EXCEPT ![i] = [calls[i] EXCEPT !.got = g]] IN
             /\ DOMAIN s = DOMAIN calls
             /\ \A k \in DOMAIN calls : /\ s[k].op = calls[k].op /\ s[k].mount = calls[k].mount
                                        /\ s[k].arg = calls[k].arg /\ s[k].crossed = calls[k].crossed
                                        /\ s[k].got = IF k = i THEN g ELSE calls[k].got
  BY <1>1, CallFields
<1>. QED
  BY <1>2, RemoveAtProperties

\* Once op is sent, W is the requests: op is the last one, and it crosses those of its place.
Sent(W, op, arg) ==
    LET n == Len(calls) + 1 IN
    /\ W \in Seq(PanelCall) /\ DOMAIN W = DOMAIN calls \union {n} /\ n \notin DOMAIN calls
    /\ \A k \in DOMAIN calls :
         /\ Same(calls[k], W[k])
         /\ W[k].crossed <=> (calls[k].crossed \/ Slot(op) = Slot(calls[k].op))
    /\ W[n].op = op /\ W[n].mount = mount /\ W[n].arg = arg /\ W[n].got = None
    /\ W[n].crossed <=> Crossing(op)

\* Sending one request does that.
LEMMA SendOne ==
  ASSUME PanelsTyped, NEW op \in Ops, NEW arg,
         IF op = "register" THEN arg \in [shown : Nat, field : Field] ELSE arg \in Number
  PROVE  Sent(With({op}, arg, mount), op, arg)
<1>. DEFINE ops == {op}
            W == With(ops, arg, mount)
            n == Len(calls) + 1
<1>1. IsFiniteSet(ops) /\ Cardinality(ops) = 1
  BY FS_Singleton
<1>2. \A o \in ops : \A x \in BOOLEAN : NewCall(o, arg, mount, x) \in PanelCall
  BY NewCallTyped DEF PanelsTyped
<1>. HIDE DEF ops
<1>3. calls \in Seq(PanelCall)
  BY DEF PanelsTyped
<1>4. /\ W \in Seq(PanelCall) /\ Len(W) = Len(calls) + Cardinality(ops)
      /\ \A k \in DOMAIN calls :
           /\ Same(calls[k], W[k])
           /\ W[k].crossed <=> (calls[k].crossed \/ \E o \in ops : Slot(o) = Slot(calls[k].op))
      /\ \A k \in DOMAIN W \ DOMAIN calls :
           /\ W[k].op \in ops /\ W[k].mount = mount /\ W[k].arg = arg /\ W[k].got = None
           /\ W[k].crossed <=> Crossing(W[k].op)
  BY <1>1, <1>2, <1>3, WithProperties
<1>. HIDE DEF W
<1>5. DOMAIN W = DOMAIN calls \union {n} /\ n \notin DOMAIN calls
  BY <1>1, <1>3, <1>4
<1>. HIDE DEF n
<1>6. n \in DOMAIN W \ DOMAIN calls
  BY <1>5
<1>7. W[n].op = op /\ W[n].mount = mount /\ W[n].arg = arg /\ W[n].got = None /\ (W[n].crossed <=> Crossing(op))
  BY <1>4, <1>6 DEF ops
<1>8. \A k \in DOMAIN calls :
        /\ Same(calls[k], W[k])
        /\ W[k].crossed <=> (calls[k].crossed \/ Slot(op) = Slot(calls[k].op))
  BY <1>4 DEF ops
<1>. QED
  BY <1>4, <1>5, <1>7, <1>8 DEF W, n, ops, Sent

\* Showing another page sends what mounting it asks for.
LEMMA SendOnMount ==
  ASSUME PanelsTyped, NEW p
  PROVE  LET W == With(OnMount(p), None, mount + 1)
         IN  /\ W \in Seq(PanelCall) /\ DOMAIN calls \subseteq DOMAIN W
             /\ \A k \in DOMAIN calls :
                  /\ Same(calls[k], W[k])
                  /\ calls[k].crossed => W[k].crossed
                  /\ \A l \in DOMAIN W \ DOMAIN calls :
                       Slot(W[l].op) = Slot(calls[k].op) => W[k].crossed /\ W[l].crossed
             /\ \A k \in DOMAIN W \ DOMAIN calls :
                  /\ W[k].op \in {"check", "load"} /\ W[k].mount = mount + 1 /\ W[k].arg = None
                  /\ W[k].got = None
             /\ \A k, l \in DOMAIN W \ DOMAIN calls : k # l => Slot(W[k].op) # Slot(W[l].op)
<1>. DEFINE W == With(OnMount(p), None, mount + 1)
<1>1. mount + 1 \in Nat /\ calls \in Seq(PanelCall)
  BY DEF PanelsTyped
<1>2. /\ W \in Seq(PanelCall) /\ DOMAIN calls \subseteq DOMAIN W
      /\ \A k \in DOMAIN calls :
           /\ Same(calls[k], W[k])
           /\ W[k].crossed <=> (calls[k].crossed \/ \E o \in OnMount(p) : Slot(o) = Slot(calls[k].op))
      /\ \A k \in DOMAIN W \ DOMAIN calls :
           /\ W[k].op \in OnMount(p) /\ W[k].mount = mount + 1 /\ W[k].arg = None /\ W[k].got = None
           /\ W[k].crossed <=> Crossing(W[k].op)
      /\ \A k, l \in DOMAIN W \ DOMAIN calls : k # l => W[k].op # W[l].op
  BY <1>1, MountSends, WithProperties
<1>. HIDE DEF W
<1>3. OnMount(p) \subseteq {"check", "load"} /\ Slot("check") # Slot("load")
  BY DEF OnMount, Slot
<1>4. ASSUME NEW k \in DOMAIN calls, NEW l \in DOMAIN W \ DOMAIN calls, Slot(W[l].op) = Slot(calls[k].op)
      PROVE  W[k].crossed /\ W[l].crossed
  BY <1>2, <1>4 DEF Crossing
<1>5. \A k, l \in DOMAIN W \ DOMAIN calls : k # l => Slot(W[k].op) # Slot(W[l].op)
  BY <1>2, <1>3
<1>. QED
  BY <1>2, <1>3, <1>4, <1>5 DEF W

\* The requests after one that failed.
LEMMA Failed ==
  ASSUME PanelsTyped, NEW i \in DOMAIN calls, PanelCallFails(i)
  PROVE  \A k \in DOMAIN calls' :
           LET j == Before(i, k) IN
           /\ j \in DOMAIN calls \ {i} /\ Same(calls[j], calls'[k])
           /\ calls'[k].crossed <=>
                (calls[j].crossed \/ (calls[i].op = "register" /\ calls[j].op = "config"))
<1>. DEFINE W == CrossedByFailure(calls[i])
<1>1. /\ W \in Seq(PanelCall) /\ DOMAIN W = DOMAIN calls
      /\ \A k \in DOMAIN calls :
           /\ Same(calls[k], W[k])
           /\ W[k].crossed <=> (calls[k].crossed \/ (calls[i].op = "register" /\ calls[k].op = "config"))
  BY CrossedByFailureProperties DEF PanelsTyped
<1>2. calls' = RemoveAt(W, i)
  BY DEF PanelCallFails, CrossedByFailure
<1>. HIDE DEF W
<1>3. \A k \in DOMAIN calls' : Before(i, k) \in DOMAIN W \ {i} /\ calls'[k] = W[Before(i, k)]
  BY <1>1, <1>2, RemoveAtProperties
<1>. QED
  BY <1>1, <1>3

\* The requests after a registration: the configuration is asked for.
LEMMA RegisteredSends ==
  ASSUME PanelsTyped, NEW i \in DOMAIN calls, Registered(i)
  PROVE  LET n == Len(calls) + 1 IN
         \A k \in DOMAIN calls' :
           LET j == Before(i, k) IN
           /\ j # i /\ (j \in DOMAIN calls \/ j = n)
           /\ j \in DOMAIN calls =>
                /\ Same(calls[j], calls'[k])
                /\ calls'[k].crossed <=> (calls[j].crossed \/ calls[j].op = "config")
           /\ j = n => /\ calls'[k].op = "config" /\ calls'[k].got = None
                       /\ calls'[k].crossed <=> Crossing("config")
<1>. DEFINE W == With({"config"}, None, mount)
            n == Len(calls) + 1
<1>1. /\ "config" \in Ops
      /\ IF "config" = "register" THEN None \in [shown : Nat, field : Field] ELSE None \in Number
  BY DEF Ops, Asks, Number
<1>2. /\ W \in Seq(PanelCall) /\ DOMAIN W = DOMAIN calls \union {n} /\ n \notin DOMAIN calls
      /\ \A k \in DOMAIN calls :
           /\ Same(calls[k], W[k])
           /\ W[k].crossed <=> (calls[k].crossed \/ Slot("config") = Slot(calls[k].op))
      /\ W[n].op = "config" /\ W[n].mount = mount /\ W[n].got = None
      /\ W[n].crossed <=> Crossing("config")
  BY <1>1, SendOne DEF Sent
<1>3. \A k \in DOMAIN calls : Slot("config") = Slot(calls[k].op) <=> calls[k].op = "config"
  <2>1. \A k \in DOMAIN calls : calls[k].op \in Ops
    BY CallTyped DEF PanelsTyped
  <2>. QED
    BY <2>1, <1>1, SlotValues DEF Places
<1>4. calls' = RemoveAt(W, i)
  BY DEF Registered
<1>. HIDE DEF W
<1>5. \A k \in DOMAIN calls' : Before(i, k) \in DOMAIN W \ {i} /\ calls'[k] = W[Before(i, k)]
  BY <1>2, <1>4, RemoveAtProperties
<1>. HIDE DEF n
<1>6. ASSUME NEW k \in DOMAIN calls'
      PROVE  LET j == Before(i, k) IN
             /\ j # i /\ (j \in DOMAIN calls \/ j = n)
             /\ j \in DOMAIN calls =>
                  /\ Same(calls[j], calls'[k])
                  /\ calls'[k].crossed <=> (calls[j].crossed \/ calls[j].op = "config")
             /\ j = n => /\ calls'[k].op = "config" /\ calls'[k].got = None
                         /\ calls'[k].crossed <=> Crossing("config")
  BY <1>2, <1>3, <1>5
<1>. QED
  BY <1>6 DEF n

\* Requests that stay are as honest as they were.
LEMMA StayOfOneDriver ==
  ASSUME RegisteredAsShown,
         \A k \in DOMAIN calls' :
            OfOneDriver(calls'[k]) \/ \E j \in DOMAIN calls : Same(calls[j], calls'[k])
  PROVE  RegisteredAsShown'
  BY DEF RegisteredAsShown, OfOneDriver, Same

\* What is registered is the driver that was on show when Register was pressed, with its own
\* directory and, if the schema gives one, its own default: whatever integrations are under
\* way or come back, the form is refilled in the step that shows their result.
THEOREM RegisteredAsShownHolds == PanelSpec => []RegisteredAsShown
<1>1. PanelInit => FieldIsShown /\ RegisteredAsShown
  <2>. SUFFICES ASSUME PanelInit PROVE FieldIsShown /\ RegisteredAsShown
    OBVIOUS
  <2>. DEFINE asked == IF page = "hardware" THEN {"config"} ELSE OnMount(page)
  <2>1. IsFiniteSet(asked) /\ asked \subseteq {"config", "check", "load"}
    BY MountSends, FS_Singleton
  <2>2. calls = [n \in 1 .. Cardinality(asked) |-> FirstCall(SetToSeq(asked)[n])]
    BY DEF PanelInit
  <2>. HIDE DEF asked
  <2>3. \A n \in 1 .. Cardinality(asked) : SetToSeq(asked)[n] \in asked
    BY <2>1, SetToSeqProperties
  <2>4. \A k \in DOMAIN calls : calls[k].op # "register"
    BY <2>1, <2>2, <2>3 DEF FirstCall
  <2>. QED
    BY <2>4 DEF PanelInit, Fresh, FieldIsShown, RegisteredAsShown
<1>2. ASSUME PanelsTyped, FieldIsShown, RegisteredAsShown, [PanelNext]_<<panelVars, left>>
      PROVE  (FieldIsShown /\ RegisteredAsShown)'
  <2>. DEFINE Kept == UNCHANGED panel /\ UNCHANGED calls
              FormStays == panel'.driver = panel.driver /\ panel'.field = panel.field
  <2>1. FormStays => FieldIsShown'
    BY <1>2 DEF FieldIsShown
  <2>2. Kept => (FieldIsShown /\ RegisteredAsShown)'
    BY <1>2 DEF FieldIsShown, RegisteredAsShown
  <2>. HIDE DEF Kept
  <2>3. ASSUME NEW op \in Ops \ {"register"}, NEW arg \in Number, Call(op, arg) PROVE RegisteredAsShown'
    <3>. DEFINE n == Len(calls) + 1
    <3>1. calls' = With({op}, arg, mount)
      BY <2>3 DEF Call
    <3>2. /\ DOMAIN calls' = DOMAIN calls \union {n}
          /\ \A k \in DOMAIN calls : Same(calls[k], calls'[k])
          /\ calls'[n].op = op
      BY <1>2, <3>1, SendOne DEF Sent
    <3>. HIDE DEF n
    <3>. QED
      BY <1>2, <3>2, StayOfOneDriver DEF OfOneDriver
  <2>4. ASSUME NEW i \in DOMAIN calls, calls' = RemoveAt(calls, i) PROVE RegisteredAsShown'
    <3>1. \A k \in DOMAIN calls' : \E j \in DOMAIN calls : Same(calls[j], calls'[k])
      BY <1>2, <2>4, OthersStay DEF Same
    <3>. QED
      BY <1>2, <3>1, StayOfOneDriver
  <2>5. ASSUME NEW p, Show(p) PROVE (FieldIsShown /\ RegisteredAsShown)'
    <3>1. CASE p = page
      BY <2>2, <2>5, <3>1 DEF Show, Kept
    <3>2. CASE p # page
      <4>1. calls' = With(OnMount(p), None, mount + 1) /\ panel' = Fresh
        BY <2>5, <3>2 DEF Show
      <4>2. /\ \A k \in DOMAIN calls : Same(calls[k], calls'[k])
            /\ \A k \in DOMAIN calls' \ DOMAIN calls : calls'[k].op \in {"check", "load"}
        BY <1>2, <4>1, SendOnMount
      <4>3. RegisteredAsShown'
        BY <1>2, <4>2, StayOfOneDriver DEF OfOneDriver
      <4>. QED
        BY <4>1, <4>3 DEF FieldIsShown, Fresh
    <3>. QED
      BY <3>1, <3>2
  <2>6. ASSUME NEW p \in Pages, Navigate(p) PROVE (FieldIsShown /\ RegisteredAsShown)'
    BY <2>5, <2>6 DEF Navigate
  <2>7. ASSUME NEW e \in DOMAIN urls, PopState(e) PROVE (FieldIsShown /\ RegisteredAsShown)'
    BY <2>5, <2>7 DEF PopState
  <2>8. CASE TypeSettings
    <3>1. FormStays /\ calls' = calls
      BY <1>2, <2>8 DEF TypeSettings, PanelsTyped, PanelState
    <3>. QED
      BY <1>2, <2>1, <3>1 DEF RegisteredAsShown
  <2>9. CASE HandleSave \/ HandleTest \/ \E op \in {"audit", "wipe"} : HandleExport(op)
    <3>1. PICK op \in {"save", "test", "audit", "wipe"}, arg \in Number, s \in Places :
            /\ Call(op, arg)
            /\ panel' = [panel EXCEPT !.spin = @ \union {op}, !.say[s] = "none"]
      BY <1>2, <2>9 DEF HandleSave, HandleTest, HandleExport, PanelsTyped, PanelState, Number, Places
    <3>2. FormStays
      BY <1>2, <3>1 DEF PanelsTyped, PanelState
    <3>. QED
      BY <2>1, <2>3, <3>1, <3>2 DEF Ops, Asks
  <2>10. CASE HandleIntegrate
    <3>1. panel'.driver = None /\ Call("integrate", serial') /\ serial' \in Number
      BY <1>2, <2>10 DEF HandleIntegrate, Enter, PanelsTyped, PanelState, Number
    <3>. QED
      BY <2>3, <3>1 DEF FieldIsShown, Ops, Asks
  <2>11. CASE HandleRegister
    <3>. DEFINE a == [shown |-> panel.driver, field |-> panel.field]
                n == Len(calls) + 1
    <3>1. /\ FormStays /\ panel.driver # None /\ calls' = With({"register"}, a, mount)
          /\ a \in [shown : Nat, field : Field]
      BY <1>2, <2>11 DEF HandleRegister, RegisterForm, Call, PanelsTyped, PanelState, Number
    <3>2. /\ DOMAIN calls' = DOMAIN calls \union {n}
          /\ \A k \in DOMAIN calls : Same(calls[k], calls'[k])
          /\ calls'[n].op = "register" /\ calls'[n].arg = a
      <4>1. /\ "register" \in Ops
            /\ IF "register" = "register" THEN a \in [shown : Nat, field : Field] ELSE a \in Number
        BY <3>1 DEF Ops
      <4>2. calls' = With({"register"}, a, mount)
        BY <3>1
      <4>. HIDE DEF a, n
      <4>3. ASSUME NEW op \in Ops, op = "register", calls' = With({op}, a, mount),
                   IF op = "register" THEN a \in [shown : Nat, field : Field] ELSE a \in Number
            PROVE  /\ DOMAIN calls' = DOMAIN calls \union {n}
                   /\ \A k \in DOMAIN calls : Same(calls[k], calls'[k])
                   /\ calls'[n].op = op /\ calls'[n].arg = a
        BY <1>2, <4>3, SendOne DEF n, Sent
      <4>. QED
        BY <4>1, <4>2, <4>3
    <3>. HIDE DEF n
    <3>3. OfOneDriver(calls'[n])
      BY <1>2, <3>1, <3>2 DEF OfOneDriver, FieldIsShown
    <3>4. RegisteredAsShown'
      BY <1>2, <3>2, <3>3, StayOfOneDriver
    <3>. QED
      BY <2>1, <3>1, <3>4
  <2>12. CASE RunSearch
    <3>1. FormStays /\ Call("search", serial') /\ serial' \in Number
      BY <1>2, <2>12 DEF RunSearch, Enter, PanelsTyped, PanelState, Number
    <3>. QED
      BY <2>1, <2>3, <3>1 DEF Ops, Asks
  <2>13. CASE BeforeUpload
    <3>1. FormStays
      BY <1>2, <2>13 DEF BeforeUpload, PanelsTyped, PanelState
    <3>2. ASSUME NEW k \in DOMAIN calls' PROVE k \in DOMAIN calls /\ Same(calls[k], calls'[k])
      <4>. DEFINE x == calls[k].crossed \/ calls[k].op = "upload"
      <4>1. k \in DOMAIN calls /\ calls'[k] = [calls[k] EXCEPT !.crossed = x] /\ calls[k] \in PanelCall
        BY <1>2, <2>13 DEF BeforeUpload, PanelsTyped
      <4>. HIDE DEF x
      <4>. QED
        BY <4>1, CallFields DEF Same
    <3>. QED
      BY <1>2, <2>1, <3>1, <3>2, StayOfOneDriver
  <2>14. CASE CustomRequest
    <3>1. FormStays /\ Call("upload", serial') /\ serial' \in Number
      BY <1>2, <2>14 DEF CustomRequest, Enter, PanelsTyped, PanelState, Number
    <3>. QED
      BY <2>1, <2>3, <3>1 DEF Ops, Asks
  <2>15. CASE LoadConfiguration
    <3>1. FormStays /\ Call("config", None) /\ None \in Number
      BY <2>15 DEF LoadConfiguration, Number
    <3>. QED
      BY <2>1, <2>3, <3>1 DEF Ops, Asks
  <2>16. ASSUME NEW i \in DOMAIN calls, PanelServed(i) PROVE (FieldIsShown /\ RegisteredAsShown)'
    <3>1. PICK g \in Number : calls' = [calls EXCEPT ![i] = [calls[i] EXCEPT !.got = g]]
      BY <1>2, <2>16, ServedBrings
    <3>2. /\ DOMAIN calls' = DOMAIN calls
          /\ \A k \in DOMAIN calls : calls'[k].op = calls[k].op /\ calls'[k].arg = calls[k].arg
      BY <1>2, <3>1, OthersStay
    <3>3. FormStays
      BY <2>16 DEF PanelServed
    <3>. QED
      BY <1>2, <2>1, <3>2, <3>3 DEF RegisteredAsShown
  <2>17. ASSUME NEW i \in DOMAIN calls,
                SettingsAnswered(i) \/ ReportAnswered(i) \/ Found(i) \/ Uploaded(i) \/ ConfigLoaded(i)
         PROVE  (FieldIsShown /\ RegisteredAsShown)'
    <3>1. calls' = RemoveAt(calls, i)
      BY <2>17 DEF SettingsAnswered, ReportAnswered, Found, Uploaded, ConfigLoaded, Finishes
    <3>2. calls[i] \in PanelCall /\ panel \in PanelState /\ panel.say["llm"] \in Alerts
      BY <1>2 DEF PanelsTyped, PanelState, Places
    <3>3. \A said \in Alerts : /\ Answered(calls[i], said) \in PanelState
                             /\ Answered(calls[i], said).driver = panel.driver
                             /\ Answered(calls[i], said).field = panel.field
      BY <3>2, AnsweredProperties
    <3>4. FormStays
      <4>1. CASE SettingsAnswered(i)
        <5>1. PICK said \in Alerts : \E w : panel' \in {panel} \union
                {[Answered(calls[i], said) EXCEPT !.llm = calls[i].got, !.form = w]}
          BY <3>2, <4>1 DEF SettingsAnswered, Alerts
        <5>. DEFINE q == Answered(calls[i], said)
        <5>2. q \in PanelState /\ q.driver = panel.driver /\ q.field = panel.field
          BY <3>3
        <5>3. \E w : panel' = panel \/ panel' = [q EXCEPT !.llm = calls[i].got, !.form = w]
          BY <5>1
        <5>. HIDE DEF q
        <5>. QED
          BY <5>2, <5>3 DEF PanelState
      <4>2. CASE ReportAnswered(i) \/ Found(i) \/ Uploaded(i)
        <5>1. PICK said \in Alerts : \E w :
                LET q == Answered(calls[i], said) IN
                \/ panel' = panel \/ panel' = [q EXCEPT !.check = w]
                \/ panel' = [q EXCEPT !.found = w] \/ panel' = [q EXCEPT !.about = w]
          BY <4>2 DEF ReportAnswered, Found, Uploaded, Alerts
        <5>. DEFINE q == Answered(calls[i], said)
        <5>2. q \in PanelState /\ q.driver = panel.driver /\ q.field = panel.field
          BY <3>3
        <5>3. \E w : \/ panel' = panel \/ panel' = [q EXCEPT !.check = w]
                     \/ panel' = [q EXCEPT !.found = w] \/ panel' = [q EXCEPT !.about = w]
          BY <5>1
        <5>. HIDE DEF q
        <5>. QED
          BY <5>2, <5>3 DEF PanelState
      <4>3. CASE ConfigLoaded(i)
        BY <4>3 DEF ConfigLoaded
      <4>. QED
        BY <2>17, <4>1, <4>2, <4>3
    <3>. QED
      BY <2>1, <2>4, <3>1, <3>4
  <2>18. ASSUME NEW i \in DOMAIN calls, Integrated(i) PROVE (FieldIsShown /\ RegisteredAsShown)'
    <3>. DEFINE p == Answered(calls[i], "success")
    <3>1. calls' = RemoveAt(calls, i) /\ (panel' = panel \/ panel' = Refill(p, calls[i].got))
      BY <2>18 DEF Integrated, Finishes
    <3>2. p \in PanelState /\ calls[i].got \in Number
      <4>1. calls[i] \in PanelCall /\ panel \in PanelState /\ "success" \in Alerts
        BY <1>2 DEF PanelsTyped, Alerts
      <4>. QED
        BY <4>1, AnsweredProperties, CallTyped
    <3>. HIDE DEF p
    <3>3. FieldIsShown'
      BY <1>2, <3>1, <3>2, RefillProperties DEF FieldIsShown
    <3>. QED
      BY <2>4, <3>1, <3>3
  <2>19. ASSUME NEW i \in DOMAIN calls, Registered(i) PROVE (FieldIsShown /\ RegisteredAsShown)'
    <3>. DEFINE p == Answered(calls[i], panel.say["driver"])
    <3>1. panel' = panel \/ panel' = [p EXCEPT !.registered = calls[i].got]
      BY <2>19 DEF Registered
    <3>2. p \in PanelState /\ p.driver = panel.driver /\ p.field = panel.field
      <4>1. calls[i] \in PanelCall /\ panel \in PanelState /\ panel.say["driver"] \in Alerts
        BY <1>2 DEF PanelsTyped, PanelState, Places
      <4>. QED
        BY <4>1, AnsweredProperties
    <3>. HIDE DEF p
    <3>3. FormStays
      BY <3>1, <3>2 DEF PanelState
    <3>4. \A k \in DOMAIN calls' : OfOneDriver(calls'[k]) \/ \E j \in DOMAIN calls : Same(calls[j], calls'[k])
      BY <1>2, <2>19, RegisteredSends DEF OfOneDriver
    <3>. QED
      BY <1>2, <2>1, <3>3, <3>4, StayOfOneDriver
  <2>20. ASSUME NEW i \in DOMAIN calls, PanelCallFails(i) PROVE (FieldIsShown /\ RegisteredAsShown)'
    <3>. DEFINE p == Answered(calls[i], "error")
    <3>1. PICK d, a : panel' = panel \/ panel' = [p EXCEPT !.doubt = d, !.about = a]
      BY <2>20 DEF PanelCallFails
    <3>2. p \in PanelState /\ p.driver = panel.driver /\ p.field = panel.field
      <4>1. calls[i] \in PanelCall /\ panel \in PanelState /\ "error" \in Alerts
        BY <1>2 DEF PanelsTyped, Alerts
      <4>. QED
        BY <4>1, AnsweredProperties
    <3>. HIDE DEF p
    <3>3. FormStays
      BY <3>1, <3>2 DEF PanelState
    <3>4. \A k \in DOMAIN calls' : \E j \in DOMAIN calls : Same(calls[j], calls'[k])
      BY <1>2, <2>20, Failed
    <3>. QED
      BY <1>2, <2>1, <3>3, <3>4, StayOfOneDriver
  <2>21. CASE UNCHANGED <<panelVars, left>>
    BY <2>2, <2>21 DEF panelVars, Kept
  <2>. QED
    BY <1>2, <2>6, <2>7, <2>8, <2>9, <2>10, <2>11, <2>12, <2>13, <2>14, <2>15, <2>16, <2>17, <2>18,
       <2>19, <2>20, <2>21 DEF PanelNext
<1>. QED
  BY <1>1, <1>2, PanelsTypedHolds, PTL DEF PanelSpec

----------------------------------------------------------------------------
(***************************************************************************)
(* What the panels show, place by place.  The argument follows the         *)
(* requests: two of one place that are under way together have crossed     *)
(* (PairsCross), so at most one of a place has not; what that one brings   *)
(* is what the server holds or what was entered last.  Every place then    *)
(* shows the latest, or waits for an answer to a request of this page, or  *)
(* is in doubt.                                                            *)
(***************************************************************************)

\* Two requests for one place have crossed each other.
PairsCross ==
    \A i, j \in DOMAIN calls : i # j /\ Slot(calls[i].op) = Slot(calls[j].op) => calls[i].crossed

Waiting(op) == \E i \in DOMAIN calls : calls[i].op = op
WaitingHere(op) == \E i \in DOMAIN calls : calls[i].op = op /\ Here(calls[i])
LlmOps == {"load", "save", "test"}

\* An answer that crossed no other brings the settings that are saved; the settings shown are
\* those, or an answer is waited for, or they are in doubt.  What a page that was left asked for
\* makes those of this page doubtful.
LlmPlace ==
    /\ \A i \in DOMAIN calls :
         calls[i].op \in LlmOps /\ ~calls[i].crossed => calls[i].got \in {None, saved}
    /\ panel.llm \in {None, saved} \/ "llm" \in panel.doubt \/ \E o \in LlmOps : WaitingHere(o)
    /\ (\E i \in DOMAIN calls : calls[i].op \in LlmOps /\ ~Here(calls[i])) =>
         panel.llm = None \/ "llm" \in panel.doubt

\* The same of a search from this page, and of a file.
SearchPlace ==
    /\ \A i \in DOMAIN calls :
         calls[i].op = "search" /\ Here(calls[i]) /\ ~calls[i].crossed =>
            calls[i].arg = panel.asked /\ calls[i].arg # None /\ calls[i].got \in {None, calls[i].arg}
    /\ panel.found = panel.asked \/ "search" \in panel.doubt \/ WaitingHere("search")
UploadPlace ==
    /\ \A i \in DOMAIN calls :
         calls[i].op = "upload" /\ Here(calls[i]) /\ ~calls[i].crossed =>
            calls[i].arg = panel.file /\ calls[i].arg # None /\ calls[i].got \in {None, calls[i].arg}
    /\ panel.about = panel.file \/ "upload" \in panel.doubt \/ WaitingHere("upload")

\* A registration that crossed no other is of the driver that is on show.
DriverPlace ==
    /\ \A i \in DOMAIN calls :
         calls[i].op = "register" /\ Here(calls[i]) /\ ~calls[i].crossed =>
            calls[i].arg.shown = panel.driver /\ calls[i].got \in {None, calls[i].arg.shown}
    /\ panel.driver = None \/ panel.registered \in {None, panel.driver} \/ "driver" \in panel.doubt

\* The configuration is the server's, or it is waited for, or a registration will ask for it.
ConfigPlace ==
    /\ \A i \in DOMAIN calls :
         calls[i].op = "config" /\ ~calls[i].crossed => calls[i].got \in {None, robots} \/ Waiting("register")
    /\ config.shown = robots \/ config.doubt \/ Waiting("register") \/ Waiting("config")

PlacesShowTheLatest == LlmPlace /\ SearchPlace /\ UploadPlace /\ DriverPlace /\ ConfigPlace

\* A step that neither sends nor answers a request of kind op.
KeepsCalls(op) ==
    /\ \A k \in DOMAIN calls' : calls'[k].op = op =>
         \E j \in DOMAIN calls : /\ Same(calls[j], calls'[k])
                                 /\ calls[j].crossed => calls'[k].crossed
    /\ \A j \in DOMAIN calls : calls[j].op = op => \E k \in DOMAIN calls' : Same(calls[j], calls'[k])

DoubtKept(s) == s \in panel'.doubt <=> s \in panel.doubt
LlmKept ==
    /\ panel'.llm = panel.llm /\ saved' = saved /\ DoubtKept("llm")
    /\ \A o \in LlmOps : KeepsCalls(o)
SearchKept ==
    /\ panel'.found = panel.found /\ panel'.asked = panel.asked /\ DoubtKept("search")
    /\ KeepsCalls("search")
UploadKept ==
    /\ panel'.file = panel.file /\ panel'.about = panel.about /\ DoubtKept("upload")
    /\ KeepsCalls("upload")
DriverKept ==
    /\ panel'.driver = panel.driver /\ panel'.registered = panel.registered /\ DoubtKept("driver")
    /\ KeepsCalls("register")
ConfigKept == config' = config /\ robots' = robots /\ KeepsCalls("config") /\ KeepsCalls("register")

\* A place that a step does not touch shows what it showed.
LEMMA Untouched ==
  ASSUME mount' = mount
  PROVE  /\ LlmPlace /\ LlmKept => LlmPlace'
         /\ SearchPlace /\ SearchKept => SearchPlace'
         /\ UploadPlace /\ UploadKept => UploadPlace'
         /\ DriverPlace /\ DriverKept => DriverPlace'
         /\ ConfigPlace /\ ConfigKept => ConfigPlace'
<1>1. ASSUME LlmPlace, LlmKept PROVE LlmPlace'
  <2>1. \A o \in LlmOps : WaitingHere(o) => WaitingHere(o)'
    BY <1>1 DEF LlmKept, KeepsCalls, WaitingHere, Here, Same
  <2>2. ASSUME NEW k \in DOMAIN calls', calls'[k].op \in LlmOps
        PROVE  \E j \in DOMAIN calls : Same(calls[j], calls'[k]) /\ (calls[j].crossed => calls'[k].crossed)
    BY <1>1, <2>2 DEF LlmKept, KeepsCalls
  <2>. QED
    BY <1>1, <2>1, <2>2 DEF LlmPlace, LlmKept, DoubtKept, Here, Same
<1>2. ASSUME SearchPlace, SearchKept PROVE SearchPlace'
  BY <1>2 DEF SearchPlace, SearchKept, DoubtKept, KeepsCalls, WaitingHere, Here, Same
<1>3. ASSUME UploadPlace, UploadKept PROVE UploadPlace'
  BY <1>3 DEF UploadPlace, UploadKept, DoubtKept, KeepsCalls, WaitingHere, Here, Same
<1>4. ASSUME DriverPlace, DriverKept PROVE DriverPlace'
  BY <1>4 DEF DriverPlace, DriverKept, DoubtKept, KeepsCalls, Here, Same
<1>5. ASSUME ConfigPlace, ConfigKept PROVE ConfigPlace'
  <2>1. Waiting("register") => Waiting("register")'
    BY <1>5 DEF ConfigKept, KeepsCalls, Waiting, Same
  <2>2. Waiting("config") => Waiting("config")'
    BY <1>5 DEF ConfigKept, KeepsCalls, Waiting, Same
  <2>3. ASSUME NEW k \in DOMAIN calls', calls'[k].op = "config", ~calls'[k].crossed
        PROVE  calls'[k].got \in {None, robots} \/ Waiting("register")
    BY <1>5, <2>3 DEF ConfigPlace, ConfigKept, KeepsCalls, Same
  <2>. QED
    BY <1>5, <2>1, <2>2, <2>3 DEF ConfigPlace, ConfigKept
<1>. QED
  BY <1>1, <1>2, <1>3, <1>4, <1>5

\* Sending one request keeps those of other kinds; it crosses those of its place.
LEMMA SendKeeps ==
  ASSUME PanelsTyped, PairsCross, NEW op \in Ops, NEW arg, calls' = With({op}, arg, mount),
         IF op = "register" THEN arg \in [shown : Nat, field : Field] ELSE arg \in Number
  PROVE  /\ PairsCross'
         /\ \A o \in Ops \ {op} : KeepsCalls(o)
         /\ \E k \in DOMAIN calls' : /\ calls'[k].op = op /\ calls'[k].mount = mount
                                     /\ calls'[k].arg = arg /\ calls'[k].got = None
                                     /\ \A l \in DOMAIN calls' \ {k} :
                                          /\ \E j \in DOMAIN calls : Same(calls[j], calls'[l])
                                          /\ Slot(calls'[l].op) = Slot(op) => calls'[l].crossed
<1>. DEFINE n == Len(calls) + 1
            W == With({op}, arg, mount)
<1>0. Sent(W, op, arg)
  BY SendOne
<1>W. calls' = W
  OBVIOUS
<1>. HIDE DEF n, W
<1>1. /\ DOMAIN calls' = DOMAIN calls \union {n} /\ n \notin DOMAIN calls
      /\ \A k \in DOMAIN calls :
           /\ Same(calls[k], calls'[k])
           /\ calls'[k].crossed <=> (calls[k].crossed \/ Slot(op) = Slot(calls[k].op))
      /\ calls'[n].op = op /\ calls'[n].mount = mount /\ calls'[n].arg = arg /\ calls'[n].got = None
      /\ calls'[n].crossed <=> Crossing(op)
  BY <1>0, <1>W DEF Sent, n
<1>2. ASSUME NEW o \in Ops \ {op} PROVE KeepsCalls(o)
  BY <1>1 DEF KeepsCalls
<1>3. PairsCross'
  BY <1>1 DEF PairsCross, Same, Crossing
<1>. QED
  BY <1>1, <1>2, <1>3 DEF Same

\* Removing one keeps those of other kinds.
LEMMA RemoveKeeps ==
  ASSUME PanelsTyped, PairsCross, NEW i \in DOMAIN calls, calls' = RemoveAt(calls, i)
  PROVE  /\ \A o \in Ops \ {calls[i].op} : KeepsCalls(o)
         /\ PairsCross'
         /\ \A k \in DOMAIN calls' : \E j \in DOMAIN calls \ {i} : calls'[k] = calls[j]
         /\ \A j \in DOMAIN calls \ {i} : \E k \in DOMAIN calls' : calls'[k] = calls[j]
<1>1. calls \in Seq(PanelCall)
  BY DEF PanelsTyped
<1>2. \A k \in DOMAIN calls' : Before(i, k) \in DOMAIN calls \ {i} /\ calls'[k] = calls[Before(i, k)]
  BY <1>1, RemoveAtProperties
<1>3. \A j \in DOMAIN calls \ {i} : \E k \in DOMAIN calls' : calls'[k] = calls[j]
  BY <1>1, RemoveAtKeeps
<1>4. \A k, l \in DOMAIN calls' : k # l => Before(i, k) # Before(i, l)
  BY <1>1, BeforeInjective
<1>5. PairsCross'
  BY <1>2, <1>4 DEF PairsCross
<1>6. ASSUME NEW o \in Ops \ {calls[i].op} PROVE KeepsCalls(o)
  BY <1>2, <1>3 DEF KeepsCalls, Same
<1>. QED
  BY <1>2, <1>3, <1>5, <1>6

\* Serving one keeps the others, and what it is.
LEMMA ServeKeeps ==
  ASSUME PanelsTyped, PairsCross, NEW i \in DOMAIN calls, PanelServed(i)
  PROVE  /\ PairsCross'
         /\ \A o \in Ops \ {calls[i].op} : KeepsCalls(o)
         /\ DOMAIN calls' = DOMAIN calls
         /\ \A k \in DOMAIN calls \ {i} : calls'[k] = calls[k]
         /\ calls'[i].op = calls[i].op /\ calls'[i].mount = calls[i].mount /\ calls'[i].arg = calls[i].arg
         /\ calls'[i].crossed = calls[i].crossed
         /\ Slot(calls[i].op) = "llm" => calls'[i].got = saved'
         /\ calls[i].op = "config" => calls'[i].got = robots
         /\ calls[i].op = "register" => calls'[i].got = calls[i].arg.shown
         /\ calls[i].op \in {"search", "upload"} /\ calls[i].arg # None => calls'[i].got = calls[i].arg
<1>1. PICK g \in Number :
        /\ calls' = [calls EXCEPT ![i] = [calls[i] EXCEPT !.got = g]]
        /\ Slot(calls[i].op) = "llm" => g = saved'
        /\ calls[i].op = "config" => g = robots
        /\ calls[i].op = "register" => g = calls[i].arg.shown
        /\ calls[i].op \in {"search", "upload"} /\ calls[i].arg # None => g = calls[i].arg
  BY ServedBrings
<1>2. /\ DOMAIN calls' = DOMAIN calls
      /\ \A k \in DOMAIN calls : /\ calls'[k].op = calls[k].op /\ calls'[k].mount = calls[k].mount
                                 /\ calls'[k].arg = calls[k].arg /\ calls'[k].crossed = calls[k].crossed
                                 /\ calls'[k].got = IF k = i THEN g ELSE calls[k].got
  BY <1>1, OthersStay
<1>3. \A k \in DOMAIN calls \ {i} : calls'[k] = calls[k]
  BY <1>1
<1>4. PairsCross'
  BY <1>2 DEF PairsCross
<1>5. ASSUME NEW o \in Ops \ {calls[i].op} PROVE KeepsCalls(o)
  BY <1>2, <1>3 DEF KeepsCalls, Same
<1>. QED
  BY <1>1, <1>2, <1>3, <1>4, <1>5

\* A file that is refused crosses the uploads under way; the other requests stay.
LEMMA RefusalCrosses ==
  ASSUME PanelsTyped, PairsCross, BeforeUpload
  PROVE  /\ PairsCross'
         /\ \A o \in Ops : KeepsCalls(o)
         /\ DOMAIN calls' = DOMAIN calls
         /\ \A k \in DOMAIN calls : /\ Same(calls[k], calls'[k])
                                    /\ calls[k].op = "upload" => calls'[k].crossed
<1>1. ASSUME NEW k \in DOMAIN calls
      PROVE  Same(calls[k], calls'[k]) /\ (calls'[k].crossed <=> (calls[k].crossed \/ calls[k].op = "upload"))
  <2>. DEFINE x == calls[k].crossed \/ calls[k].op = "upload"
  <2>1. calls'[k] = [calls[k] EXCEPT !.crossed = x] /\ calls[k] \in PanelCall
    BY DEF BeforeUpload, PanelsTyped
  <2>. HIDE DEF x
  <2>2. calls'[k].crossed = x /\ Same(calls[k], calls'[k])
    BY <2>1, CallFields DEF Same
  <2>. QED
    BY <2>2 DEF x
<1>2. DOMAIN calls' = DOMAIN calls
  BY DEF BeforeUpload
<1>3. PairsCross'
  BY <1>1, <1>2 DEF PairsCross, Same
<1>4. ASSUME NEW o \in Ops PROVE KeepsCalls(o)
  BY <1>1, <1>2 DEF KeepsCalls, Same
<1>. QED
  BY <1>1, <1>2, <1>3, <1>4

\* A failure takes one request away; those for the configuration are crossed by that of a
\* registration.
LEMMA FailureKeeps ==
  ASSUME PanelsTyped, PairsCross, NEW i \in DOMAIN calls, PanelCallFails(i)
  PROVE  /\ PairsCross'
         /\ \A o \in Ops \ {calls[i].op} : KeepsCalls(o)
         /\ \A k \in DOMAIN calls' :
              /\ \E j \in DOMAIN calls \ {i} : Same(calls[j], calls'[k]) /\ (calls[j].crossed => calls'[k].crossed)
              /\ calls[i].op = "register" /\ calls'[k].op = "config" => calls'[k].crossed
         /\ \A j \in DOMAIN calls \ {i} : \E k \in DOMAIN calls' : Same(calls[j], calls'[k])
<1>. DEFINE W == CrossedByFailure(calls[i])
<1>1. /\ W \in Seq(PanelCall) /\ DOMAIN W = DOMAIN calls
      /\ \A k \in DOMAIN calls :
           /\ Same(calls[k], W[k])
           /\ W[k].crossed <=> (calls[k].crossed \/ (calls[i].op = "register" /\ calls[k].op = "config"))
  BY CrossedByFailureProperties DEF PanelsTyped
<1>2. calls' = RemoveAt(W, i)
  BY DEF PanelCallFails, CrossedByFailure
<1>. HIDE DEF W
<1>3. \A k \in DOMAIN calls' : Before(i, k) \in DOMAIN W \ {i} /\ calls'[k] = W[Before(i, k)]
  BY <1>1, <1>2, RemoveAtProperties
<1>4. \A k, l \in DOMAIN calls' : k # l => Before(i, k) # Before(i, l)
  BY <1>1, <1>2, BeforeInjective
<1>5. \A j \in DOMAIN W \ {i} : \E k \in DOMAIN calls' : calls'[k] = W[j]
  BY <1>1, <1>2, RemoveAtKeeps
<1>6. PairsCross'
  BY <1>1, <1>3, <1>4 DEF PairsCross, Same
<1>7. \A k \in DOMAIN calls' :
        /\ \E j \in DOMAIN calls \ {i} : Same(calls[j], calls'[k]) /\ (calls[j].crossed => calls'[k].crossed)
        /\ calls[i].op = "register" /\ calls'[k].op = "config" => calls'[k].crossed
  BY <1>1, <1>3 DEF Same
<1>8. \A j \in DOMAIN calls \ {i} : \E k \in DOMAIN calls' : Same(calls[j], calls'[k])
  BY <1>1, <1>5
<1>9. ASSUME NEW o \in Ops \ {calls[i].op} PROVE KeepsCalls(o)
  BY <1>7, <1>8 DEF KeepsCalls, Same
<1>. QED
  BY <1>6, <1>7, <1>8, <1>9

\* Showing a page keeps what is shown: another page shows nothing yet.
LEMMA ShowKeepsPlaces ==
  ASSUME PanelsTyped, PairsCross, PlacesShowTheLatest, NEW p, Show(p),
         UNCHANGED <<serial, saved, robots, config>>
  PROVE  PairsCross' /\ PlacesShowTheLatest'
<1>1. CASE p = page
  <2>1. UNCHANGED <<mount, panel, calls>>
    BY <1>1 DEF Show
  <2>. QED
    BY <2>1 DEF PairsCross, PlacesShowTheLatest, LlmPlace, SearchPlace, UploadPlace, DriverPlace,
                ConfigPlace, Waiting, WaitingHere, Here
<1>2. CASE p # page
  <2>. DEFINE W == With(OnMount(p), None, mount + 1)
  <2>1. calls' = W /\ mount' = mount + 1 /\ panel' = Fresh
    BY <1>2 DEF Show
  <2>2. /\ DOMAIN calls \subseteq DOMAIN W
        /\ \A k \in DOMAIN calls :
             /\ Same(calls[k], W[k])
             /\ calls[k].crossed => W[k].crossed
             /\ \A l \in DOMAIN W \ DOMAIN calls :
                  Slot(W[l].op) = Slot(calls[k].op) => W[k].crossed /\ W[l].crossed
        /\ \A k \in DOMAIN W \ DOMAIN calls :
             /\ W[k].op \in {"check", "load"} /\ W[k].mount = mount + 1 /\ W[k].arg = None
             /\ W[k].got = None
        /\ \A k, l \in DOMAIN W \ DOMAIN calls : k # l => Slot(W[k].op) # Slot(W[l].op)
    BY SendOnMount
  <2>. HIDE DEF W
  <2>3. PairsCross'
    BY <2>1, <2>2 DEF PairsCross, Same
  <2>4. \A k \in DOMAIN calls : calls[k].mount # mount + 1
    <3>1. mount \in Nat /\ \A k \in DOMAIN calls : calls[k].mount \in Nat /\ calls[k].mount <= mount
      BY CallTyped DEF PanelsTyped
    <3>. QED
      BY <3>1
  <2>5. \A k \in DOMAIN calls' : Here(calls[k])' => calls'[k].op \in {"check", "load"}
    BY <2>1, <2>2, <2>4 DEF Here, Same
  <2>6. LlmPlace'
    <3>1. \A k \in DOMAIN calls' : calls'[k].op \in LlmOps /\ ~calls'[k].crossed => calls'[k].got \in {None, saved}
      BY <2>1, <2>2 DEF PlacesShowTheLatest, LlmPlace, Same
    <3>. QED
      BY <2>1, <3>1 DEF LlmPlace, Fresh
  <2>7. SearchPlace' /\ UploadPlace' /\ DriverPlace'
    BY <2>1, <2>5 DEF SearchPlace, UploadPlace, DriverPlace, Fresh
  <2>8. KeepsCalls("config") /\ KeepsCalls("register")
    BY <2>1, <2>2 DEF KeepsCalls
  <2>9. ConfigPlace'
    <3>1. Waiting("register") => Waiting("register")'
      BY <2>8 DEF KeepsCalls, Waiting, Same
    <3>2. Waiting("config") => Waiting("config")'
      BY <2>8 DEF KeepsCalls, Waiting, Same
    <3>3. ASSUME NEW k \in DOMAIN calls', calls'[k].op = "config", ~calls'[k].crossed
          PROVE  calls'[k].got \in {None, robots} \/ Waiting("register")
      BY <2>8, <3>3 DEF PlacesShowTheLatest, ConfigPlace, KeepsCalls, Same
    <3>. QED
      BY <3>1, <3>2, <3>3 DEF PlacesShowTheLatest, ConfigPlace
  <2>. QED
    BY <2>3, <2>6, <2>7, <2>9 DEF PlacesShowTheLatest
<1>. QED
  BY <1>1, <1>2

\* Once a registration is answered, the configuration is waited for, and what was asked of it
\* before is crossed.
LEMMA RegisteredKeeps ==
  ASSUME PanelsTyped, PairsCross, NEW i \in DOMAIN calls, Registered(i)
  PROVE  /\ PairsCross'
         /\ \A o \in Ops \ {"register", "config"} : KeepsCalls(o)
         /\ \A k \in DOMAIN calls' : calls'[k].op = "register" =>
              \E j \in DOMAIN calls \ {i} : Same(calls[j], calls'[k]) /\ (calls[j].crossed => calls'[k].crossed)
         /\ \A k \in DOMAIN calls' : calls'[k].op = "config" => calls'[k].got = None \/ calls'[k].crossed
         /\ Waiting("config")'
<1>. DEFINE W == With({"config"}, None, mount)
            n == Len(calls) + 1
<1>1. /\ "config" \in Ops
      /\ IF "config" = "register" THEN None \in [shown : Nat, field : Field] ELSE None \in Number
  BY DEF Ops, Asks, Number
<1>2. Sent(W, "config", None)
  BY <1>1, SendOne
<1>3. \A k \in DOMAIN calls : Slot("config") = Slot(calls[k].op) <=> calls[k].op = "config"
  <2>1. \A k \in DOMAIN calls : calls[k].op \in Ops
    BY CallTyped DEF PanelsTyped
  <2>. QED
    BY <2>1, <1>1, SlotValues DEF Places
<1>4. calls' = RemoveAt(W, i)
  BY DEF Registered
<1>. HIDE DEF W
<1>5. /\ W \in Seq(PanelCall) /\ DOMAIN W = DOMAIN calls \union {n} /\ n \notin DOMAIN calls
      /\ \A k \in DOMAIN calls :
           /\ Same(calls[k], W[k])
           /\ W[k].crossed <=> (calls[k].crossed \/ calls[k].op = "config")
      /\ W[n].op = "config" /\ W[n].got = None
      /\ W[n].crossed <=> Crossing("config")
  BY <1>2, <1>3 DEF Sent
<1>. HIDE DEF n
<1>6. \A k \in DOMAIN calls' : Before(i, k) \in DOMAIN W \ {i} /\ calls'[k] = W[Before(i, k)]
  BY <1>4, <1>5, RemoveAtProperties
<1>7. \A k, l \in DOMAIN calls' : k # l => Before(i, k) # Before(i, l)
  BY <1>4, <1>5, BeforeInjective
<1>8. \A j \in DOMAIN W \ {i} : \E k \in DOMAIN calls' : calls'[k] = W[j]
  BY <1>4, <1>5, RemoveAtKeeps
<1>9. ASSUME NEW a \in DOMAIN W, NEW b \in DOMAIN W, a # b, Slot(W[a].op) = Slot(W[b].op) PROVE W[a].crossed
  BY <1>3, <1>5, <1>9 DEF PairsCross, Same, Crossing
<1>10. PairsCross'
  BY <1>6, <1>7, <1>9 DEF PairsCross
<1>11. ASSUME NEW o \in Ops \ {"register", "config"} PROVE KeepsCalls(o)
  <2>1. calls[i].op = "register"
    BY DEF Registered
  <2>. QED
    BY <1>5, <1>6, <1>8, <2>1 DEF KeepsCalls, Same
<1>12. ASSUME NEW k \in DOMAIN calls', calls'[k].op = "register"
       PROVE  \E j \in DOMAIN calls \ {i} : Same(calls[j], calls'[k]) /\ (calls[j].crossed => calls'[k].crossed)
  BY <1>5, <1>6, <1>12
<1>13. \A k \in DOMAIN calls' : calls'[k].op = "config" => calls'[k].got = None \/ calls'[k].crossed
  BY <1>5, <1>6 DEF Same
<1>14. Waiting("config")'
  BY <1>5, <1>8 DEF Waiting
<1>. QED
  BY <1>10, <1>11, <1>12, <1>13, <1>14

PlacesInv == PairsCross /\ PlacesShowTheLatest

\* Places whose fields and requests stay keep showing what they showed.
LEMMA KeepsPlaces ==
  ASSUME PanelsTyped, PlacesShowTheLatest, mount' = mount, NEW ops, \A o \in Ops \ ops : KeepsCalls(o)
  PROVE  /\ panel'.llm = panel.llm /\ DoubtKept("llm") /\ saved' = saved /\ ops \intersect LlmOps = {} => LlmPlace'
         /\ panel'.found = panel.found /\ panel'.asked = panel.asked /\ DoubtKept("search") /\ "search" \notin ops
              => SearchPlace'
         /\ panel'.file = panel.file /\ panel'.about = panel.about /\ DoubtKept("upload") /\ "upload" \notin ops
              => UploadPlace'
         /\ panel'.driver = panel.driver /\ panel'.registered = panel.registered /\ DoubtKept("driver")
              /\ "register" \notin ops => DriverPlace'
         /\ config' = config /\ robots' = robots /\ "config" \notin ops /\ "register" \notin ops => ConfigPlace'
<1>. USE DEF PlacesShowTheLatest
<1>1. LlmOps \subseteq Ops /\ {"search", "upload", "register", "config"} \subseteq Ops
  BY DEF LlmOps, Ops, Asks
<1>2. ops \intersect LlmOps = {} => \A o \in LlmOps : KeepsCalls(o)
  BY <1>1
<1>3. \A o \in {"search", "upload", "register", "config"} : o \notin ops => KeepsCalls(o)
  BY <1>1
<1>. QED
  BY <1>2, <1>3, Untouched DEF LlmKept, SearchKept, UploadKept, DriverKept, ConfigKept

\* Sending one request keeps the other places, and crosses those of its own.
LEMMA SendKeepsPlaces ==
  ASSUME PanelsTyped, PlacesInv, NEW op \in Ops, NEW arg, Call(op, arg), UNCHANGED <<mount, saved, robots>>,
         IF op = "register" THEN arg \in [shown : Nat, field : Field] ELSE arg \in Number
  PROVE  /\ PairsCross'
         /\ panel'.llm = panel.llm /\ DoubtKept("llm") => LlmPlace'
         /\ op # "search" /\ panel'.found = panel.found /\ panel'.asked = panel.asked /\ DoubtKept("search")
              => SearchPlace'
         /\ op # "upload" /\ panel'.file = panel.file /\ panel'.about = panel.about /\ DoubtKept("upload")
              => UploadPlace'
         /\ op # "register" /\ panel'.driver = panel.driver /\ panel'.registered = panel.registered
              /\ DoubtKept("driver") => DriverPlace'
         /\ config' = config => ConfigPlace'
         /\ \E k \in DOMAIN calls' : /\ calls'[k].op = op /\ calls'[k].mount = mount
                                     /\ calls'[k].arg = arg /\ calls'[k].got = None
                                     /\ \A l \in DOMAIN calls' \ {k} : Slot(calls'[l].op) = Slot(op) => calls'[l].crossed
<1>1. calls' = With({op}, arg, mount)
  BY DEF Call
<1>2. /\ PairsCross'
      /\ \A o \in Ops \ {op} : KeepsCalls(o)
  BY <1>1, SendKeeps DEF PlacesInv
<1>3. PICK k \in DOMAIN calls' :
        /\ calls'[k].op = op /\ calls'[k].mount = mount /\ calls'[k].arg = arg /\ calls'[k].got = None
        /\ \A l \in DOMAIN calls' \ {k} :
             /\ \E j \in DOMAIN calls : Same(calls[j], calls'[l])
             /\ Slot(calls'[l].op) = Slot(op) => calls'[l].crossed
  BY <1>1, SendKeeps DEF PlacesInv
<1>. DEFINE ops == {op}
<1>4. \A o \in Ops \ ops : KeepsCalls(o)
  BY <1>2
<1>5. \A o : o \in ops <=> o = op
  OBVIOUS
<1>. HIDE DEF ops
<1>6. /\ panel'.llm = panel.llm /\ DoubtKept("llm") /\ op \notin LlmOps => LlmPlace'
      /\ op # "search" /\ panel'.found = panel.found /\ panel'.asked = panel.asked /\ DoubtKept("search")
           => SearchPlace'
      /\ op # "upload" /\ panel'.file = panel.file /\ panel'.about = panel.about /\ DoubtKept("upload")
           => UploadPlace'
      /\ op # "register" /\ panel'.driver = panel.driver /\ panel'.registered = panel.registered
           /\ DoubtKept("driver") => DriverPlace'
      /\ config' = config /\ op \notin {"config", "register"} => ConfigPlace'
  BY <1>4, <1>5, KeepsPlaces DEF PlacesInv
<1>7. ASSUME op \in LlmOps, panel'.llm = panel.llm, DoubtKept("llm") PROVE LlmPlace'
  <2>1. Slot(op) = "llm" /\ \A o \in LlmOps : Slot(o) = "llm"
    BY <1>7 DEF LlmOps, Slot
  <2>2. \A l \in DOMAIN calls' : calls'[l].op \in LlmOps /\ ~calls'[l].crossed => calls'[l].got = None
    BY <1>3, <2>1
  <2>3. \E o \in LlmOps : WaitingHere(o)'
    BY <1>3, <1>7 DEF WaitingHere, Here
  <2>4. ASSUME NEW l \in DOMAIN calls', calls'[l].op \in LlmOps, ~Here(calls[l])'
        PROVE  panel.llm = None \/ "llm" \in panel.doubt
    <3>1. l # k
      BY <1>3, <2>4 DEF Here
    <3>. QED
      BY <1>3, <2>4, <3>1 DEF PlacesInv, PlacesShowTheLatest, LlmPlace, Here, Same
  <2>. QED
    BY <1>7, <2>2, <2>3, <2>4 DEF LlmPlace, DoubtKept
<1>8. ASSUME op = "register", config' = config PROVE ConfigPlace'
  BY <1>3, <1>8 DEF ConfigPlace, Waiting
<1>9. ASSUME op = "config", config' = config PROVE ConfigPlace'
  BY <1>3, <1>9 DEF ConfigPlace, Waiting
<1>. QED
  BY <1>2, <1>3, <1>6, <1>7, <1>8, <1>9

\* Serving a request keeps what is shown, and what an uncrossed answer brings is the latest.
LEMMA ServeKeepsPlaces ==
  ASSUME PanelsTyped, PlacesInv, NEW i \in DOMAIN calls, PanelServed(i)
  PROVE  PlacesInv'
<1>. DEFINE op == calls[i].op
<1>. USE DEF PlacesInv, PlacesShowTheLatest
<1>1. /\ PairsCross'
      /\ \A o \in Ops \ {op} : KeepsCalls(o)
      /\ DOMAIN calls' = DOMAIN calls
      /\ \A k \in DOMAIN calls \ {i} : calls'[k] = calls[k]
      /\ calls'[i].op = op /\ calls'[i].mount = calls[i].mount /\ calls'[i].arg = calls[i].arg
      /\ calls'[i].crossed = calls[i].crossed
      /\ Slot(op) = "llm" => calls'[i].got = saved'
      /\ op = "config" => calls'[i].got = robots
      /\ op = "register" => calls'[i].got = calls[i].arg.shown
      /\ op \in {"search", "upload"} /\ calls[i].arg # None => calls'[i].got = calls[i].arg
  BY ServeKeeps
<1>. DEFINE ops == {op}
<1>2. (\A o \in Ops \ ops : KeepsCalls(o)) /\ (\A o : o \in ops <=> o = op)
  BY <1>1
<1>. HIDE DEF ops
<1>3. /\ UNCHANGED <<mount, panel, config>>
      /\ op # "save" => saved' = saved
      /\ op # "register" => robots' = robots
  BY DEF PanelServed
<1>4. /\ op \notin LlmOps => LlmPlace'
      /\ op # "search" => SearchPlace'
      /\ op # "upload" => UploadPlace'
      /\ op # "register" => DriverPlace'
      /\ op \notin {"config", "register"} => ConfigPlace'
  <2>1. /\ panel'.llm = panel.llm /\ DoubtKept("llm")
        /\ panel'.found = panel.found /\ panel'.asked = panel.asked /\ DoubtKept("search")
        /\ panel'.file = panel.file /\ panel'.about = panel.about /\ DoubtKept("upload")
        /\ panel'.driver = panel.driver /\ panel'.registered = panel.registered /\ DoubtKept("driver")
    BY <1>3 DEF DoubtKept
  <2>2. op \notin LlmOps => saved' = saved
    BY <1>3 DEF LlmOps
  <2>. QED
    BY <1>2, <1>3, <2>1, <2>2, KeepsPlaces
<1>5. ASSUME op \in LlmOps PROVE LlmPlace'
  <2>1. Slot(op) = "llm" /\ \A o \in LlmOps : Slot(o) = "llm"
    BY <1>5 DEF LlmOps, Slot
  <2>2. ASSUME NEW k \in DOMAIN calls', calls'[k].op \in LlmOps, ~calls'[k].crossed
        PROVE  calls'[k].got = saved'
    <3>1. k = i
      BY <1>1, <2>1, <2>2 DEF PairsCross
    <3>. QED
      BY <1>1, <2>1, <3>1
  <2>3. \A o \in LlmOps : WaitingHere(o) => WaitingHere(o)'
    BY <1>1, <1>3 DEF WaitingHere, Here
  <2>4. panel.llm \in {None, saved} \/ "llm" \in panel.doubt \/ \E o \in LlmOps : WaitingHere(o)
    BY DEF LlmPlace
  <2>5. CASE Here(calls[i])
    <3>1. WaitingHere(op)
      BY <2>5 DEF WaitingHere
    <3>2. ASSUME NEW k \in DOMAIN calls', calls'[k].op \in LlmOps, ~Here(calls[k])'
          PROVE  panel.llm = None \/ "llm" \in panel.doubt
      BY <1>1, <1>3, <3>2 DEF LlmPlace, Here
    <3>. QED
      BY <1>3, <1>5, <2>2, <2>3, <3>1, <3>2 DEF LlmPlace
  <2>6. CASE ~Here(calls[i])
    <3>1. panel.llm = None \/ "llm" \in panel.doubt
      BY <1>5, <2>6 DEF LlmPlace
    <3>. QED
      BY <1>3, <2>2, <3>1 DEF LlmPlace
  <2>. QED
    BY <2>5, <2>6
<1>6. ASSUME op = "search" PROVE SearchPlace'
  BY <1>1, <1>3, <1>6 DEF SearchPlace, WaitingHere, Here
<1>7. ASSUME op = "upload" PROVE UploadPlace'
  BY <1>1, <1>3, <1>7 DEF UploadPlace, WaitingHere, Here
<1>8. ASSUME op = "register" PROVE DriverPlace' /\ ConfigPlace'
  <2>1. Waiting("register")'
    BY <1>1, <1>8 DEF Waiting
  <2>2. DriverPlace'
    BY <1>1, <1>3, <1>8 DEF DriverPlace, Here
  <2>. QED
    BY <2>1, <2>2 DEF ConfigPlace
<1>9. ASSUME op = "config" PROVE ConfigPlace'
  <2>1. Waiting("config")' /\ (Waiting("register") => Waiting("register")')
    BY <1>1, <1>9 DEF Waiting
  <2>2. ASSUME NEW k \in DOMAIN calls', calls'[k].op = "config", ~calls'[k].crossed
        PROVE  calls'[k].got \in {None, robots} \/ Waiting("register")
    BY <1>1, <2>2 DEF ConfigPlace
  <2>3. robots' = robots
    BY <1>3, <1>9
  <2>. QED
    BY <2>1, <2>2, <2>3 DEF ConfigPlace
<1>. QED
  BY <1>1, <1>4, <1>5, <1>6, <1>7, <1>8, <1>9

\* The places of another kind than that of c keep their doubts when c is answered.
LEMMA AnsweredElsewhere ==
  ASSUME panel \in PanelState, NEW c \in PanelCall, NEW said \in Alerts, NEW s \in Places \ {Slot(c.op)}
  PROVE  s \in Answered(c, said).doubt <=> s \in panel.doubt
  BY AnsweredProperties

\* An answer that is removed keeps the places it does not show in, and leaves in its own place
\* only requests that it crossed.
LEMMA AnswerKeepsPlaces ==
  ASSUME PanelsTyped, PlacesInv, NEW i \in DOMAIN calls, calls' = RemoveAt(calls, i),
         UNCHANGED <<mount, saved, robots>>
  PROVE  /\ PairsCross'
         /\ \A k \in DOMAIN calls' : \E j \in DOMAIN calls \ {i} : calls'[k] = calls[j]
         /\ \A k \in DOMAIN calls' : Slot(calls'[k].op) = Slot(calls[i].op) => calls[i].crossed /\ calls'[k].crossed
         /\ \A j \in DOMAIN calls \ {i} : \E k \in DOMAIN calls' : calls'[k] = calls[j]
         /\ panel'.llm = panel.llm /\ DoubtKept("llm") /\ calls[i].op \notin LlmOps => LlmPlace'
         /\ panel'.found = panel.found /\ panel'.asked = panel.asked /\ DoubtKept("search")
              /\ calls[i].op # "search" => SearchPlace'
         /\ panel'.file = panel.file /\ panel'.about = panel.about /\ DoubtKept("upload")
              /\ calls[i].op # "upload" => UploadPlace'
         /\ panel'.driver = panel.driver /\ panel'.registered = panel.registered /\ DoubtKept("driver")
              => DriverPlace'
         /\ config' = config /\ calls[i].op \notin {"config", "register"} => ConfigPlace'
         /\ ~Here(calls[i]) /\ panel' = panel => LlmPlace' /\ SearchPlace' /\ UploadPlace' /\ DriverPlace'
<1>. USE DEF PlacesInv, PlacesShowTheLatest
<1>1. /\ PairsCross'
      /\ \A o \in Ops \ {calls[i].op} : KeepsCalls(o)
      /\ \A k \in DOMAIN calls' : \E j \in DOMAIN calls \ {i} : calls'[k] = calls[j]
      /\ \A j \in DOMAIN calls \ {i} : \E k \in DOMAIN calls' : calls'[k] = calls[j]
  BY RemoveKeeps
<1>2. \A k \in DOMAIN calls' : Slot(calls'[k].op) = Slot(calls[i].op) => calls[i].crossed /\ calls'[k].crossed
  BY <1>1 DEF PairsCross
<1>. DEFINE ops == {calls[i].op}
<1>3. (\A o \in Ops \ ops : KeepsCalls(o)) /\ (\A o : o \in ops <=> o = calls[i].op)
  BY <1>1
<1>. HIDE DEF ops
<1>4. /\ panel'.llm = panel.llm /\ DoubtKept("llm") /\ calls[i].op \notin LlmOps => LlmPlace'
      /\ panel'.found = panel.found /\ panel'.asked = panel.asked /\ DoubtKept("search")
           /\ calls[i].op # "search" => SearchPlace'
      /\ panel'.file = panel.file /\ panel'.about = panel.about /\ DoubtKept("upload")
           /\ calls[i].op # "upload" => UploadPlace'
      /\ config' = config /\ calls[i].op \notin {"config", "register"} => ConfigPlace'
  BY <1>3, KeepsPlaces
<1>5. ASSUME panel'.driver = panel.driver, panel'.registered = panel.registered, DoubtKept("driver")
      PROVE  DriverPlace'
  <2>1. ASSUME NEW k \in DOMAIN calls', calls'[k].op = "register", Here(calls[k])', ~calls'[k].crossed
        PROVE  calls'[k].arg.shown = panel.driver /\ calls'[k].got \in {None, calls'[k].arg.shown}
    BY <1>1, <2>1 DEF DriverPlace, Here
  <2>. QED
    BY <1>5, <2>1 DEF DriverPlace, DoubtKept
<1>6. ASSUME ~Here(calls[i]), panel' = panel PROVE LlmPlace' /\ SearchPlace' /\ UploadPlace' /\ DriverPlace'
  <2>1. \A o : WaitingHere(o) => WaitingHere(o)'
    BY <1>1, <1>6 DEF WaitingHere, Here
  <2>2. ASSUME NEW k \in DOMAIN calls' PROVE \E j \in DOMAIN calls : calls'[k] = calls[j] /\ (Here(calls[k])' <=> Here(calls[j]))
    BY <1>1 DEF Here
  <2>3. LlmPlace'
    <3>1. \A k \in DOMAIN calls' : calls'[k].op \in LlmOps /\ ~calls'[k].crossed => calls'[k].got \in {None, saved}
      BY <2>2 DEF LlmPlace
    <3>2. panel.llm \in {None, saved} \/ "llm" \in panel.doubt \/ \E o \in LlmOps : WaitingHere(o)'
      BY <2>1 DEF LlmPlace
    <3>3. (\E k \in DOMAIN calls' : calls'[k].op \in LlmOps /\ ~Here(calls[k])') =>
             panel.llm = None \/ "llm" \in panel.doubt
      BY <2>2 DEF LlmPlace
    <3>. QED
      BY <1>6, <3>1, <3>2, <3>3 DEF LlmPlace
  <2>4. SearchPlace'
    BY <1>6, <2>1, <2>2 DEF SearchPlace
  <2>5. UploadPlace'
    BY <1>6, <2>1, <2>2 DEF UploadPlace
  <2>6. DriverPlace'
    BY <1>5, <1>6 DEF DoubtKept
  <2>. QED
    BY <2>3, <2>4, <2>5, <2>6
<1>. QED
  BY <1>1, <1>2, <1>4, <1>5, <1>6

\* The answer about the settings.
LEMMA SettingsKeepPlaces ==
  ASSUME PanelsTyped, PlacesInv, NEW i \in DOMAIN calls, SettingsAnswered(i)
  PROVE  PlacesInv'
<1>. DEFINE c == calls[i]
<1>1. /\ calls' = RemoveAt(calls, i) /\ UNCHANGED <<mount, saved, robots, config>>
      /\ c.got # None /\ Slot(c.op) = "llm"
  BY DEF SettingsAnswered, Finishes
<1>2. c \in PanelCall /\ panel \in PanelState /\ panel.say["llm"] \in Alerts
  BY DEF PanelsTyped, PanelState, Places
<1>3. c.op \in LlmOps
  BY <1>1, <1>2, CallTyped, SlotValues DEF LlmOps
<1>4. /\ PairsCross'
      /\ \A k \in DOMAIN calls' : \E j \in DOMAIN calls \ {i} : calls'[k] = calls[j]
      /\ \A k \in DOMAIN calls' : Slot(calls'[k].op) = "llm" => c.crossed /\ calls'[k].crossed
      /\ panel'.found = panel.found /\ panel'.asked = panel.asked /\ DoubtKept("search") => SearchPlace'
      /\ panel'.file = panel.file /\ panel'.about = panel.about /\ DoubtKept("upload") => UploadPlace'
      /\ panel'.driver = panel.driver /\ panel'.registered = panel.registered /\ DoubtKept("driver") => DriverPlace'
      /\ ConfigPlace'
      /\ ~Here(c) /\ panel' = panel => LlmPlace' /\ SearchPlace' /\ UploadPlace' /\ DriverPlace'
  <2>1. c.op # "search" /\ c.op # "upload" /\ c.op # "config" /\ c.op # "register"
    BY <1>3 DEF LlmOps
  <2>. HIDE DEF c
  <2>2. /\ PairsCross'
        /\ \A k \in DOMAIN calls' : \E j \in DOMAIN calls \ {i} : calls'[k] = calls[j]
        /\ \A k \in DOMAIN calls' : Slot(calls'[k].op) = Slot(c.op) => c.crossed /\ calls'[k].crossed
        /\ panel'.found = panel.found /\ panel'.asked = panel.asked /\ DoubtKept("search") => SearchPlace'
        /\ panel'.file = panel.file /\ panel'.about = panel.about /\ DoubtKept("upload") => UploadPlace'
        /\ panel'.driver = panel.driver /\ panel'.registered = panel.registered /\ DoubtKept("driver") => DriverPlace'
        /\ ConfigPlace'
        /\ ~Here(c) /\ panel' = panel => LlmPlace' /\ SearchPlace' /\ UploadPlace' /\ DriverPlace'
    BY <1>1, <2>1, AnswerKeepsPlaces DEF c
  <2>. QED
    BY <1>1, <2>2
<1>5. CASE ~Here(c)
  <2>1. panel' = panel
    BY <1>5 DEF SettingsAnswered
  <2>. QED
    BY <1>4, <1>5, <2>1 DEF PlacesInv, PlacesShowTheLatest
<1>6. CASE Here(c)
  <2>1. PICK said \in Alerts : \E w : panel' = [Answered(c, said) EXCEPT !.llm = c.got, !.form = w]
    BY <1>2, <1>6 DEF SettingsAnswered, Alerts
  <2>. DEFINE q == Answered(c, said)
  <2>2. /\ q \in PanelState
        /\ q.driver = panel.driver /\ q.registered = panel.registered /\ q.asked = panel.asked
        /\ q.found = panel.found /\ q.file = panel.file /\ q.about = panel.about
        /\ q.doubt = IF c.crossed THEN panel.doubt \union {"llm"} ELSE panel.doubt \ {"llm"}
    <3>. HIDE DEF c
    <3>1. \A x \in Alerts :
            /\ Answered(c, x) \in PanelState
            /\ Answered(c, x).driver = panel.driver /\ Answered(c, x).registered = panel.registered
            /\ Answered(c, x).asked = panel.asked /\ Answered(c, x).found = panel.found
            /\ Answered(c, x).file = panel.file /\ Answered(c, x).about = panel.about
            /\ Answered(c, x).doubt =
                 IF c.crossed THEN panel.doubt \union {Slot(c.op)} ELSE panel.doubt \ {Slot(c.op)}
      BY <1>2, AnsweredProperties
    <3>. QED
      BY <1>1, <2>1, <3>1
  <2>3. \E w : panel' = [q EXCEPT !.llm = c.got, !.form = w]
    BY <2>1
  <2>. HIDE DEF q
  <2>4. /\ panel'.llm = c.got /\ panel'.doubt = q.doubt
        /\ panel'.driver = q.driver /\ panel'.registered = q.registered /\ panel'.asked = q.asked
        /\ panel'.found = q.found /\ panel'.file = q.file /\ panel'.about = q.about
    BY <2>2, <2>3 DEF PanelState
  <2>5. SearchPlace' /\ UploadPlace' /\ DriverPlace'
    BY <1>4, <2>2, <2>4 DEF DoubtKept
  <2>6. LlmPlace'
    <3>1. \A k \in DOMAIN calls' : calls'[k].op \in LlmOps => Slot(calls'[k].op) = "llm"
      BY DEF LlmOps, Slot
    <3>2. ~c.crossed => c.got = saved
      BY <1>1, <1>3 DEF PlacesInv, PlacesShowTheLatest, LlmPlace
    <3>. QED
      BY <1>1, <1>4, <2>2, <2>4, <3>1, <3>2 DEF LlmPlace
  <2>. QED
    BY <1>4, <2>5, <2>6 DEF PlacesInv, PlacesShowTheLatest
<1>. QED
  BY <1>5, <1>6

\* The reports show in places of their own.
LEMMA ReportKeepsPlaces ==
  ASSUME PanelsTyped, PlacesInv, NEW i \in DOMAIN calls, ReportAnswered(i)
  PROVE  PlacesInv'
<1>. DEFINE c == calls[i]
            q == Answered(c, "success")
<1>1. /\ calls' = RemoveAt(calls, i) /\ UNCHANGED <<mount, saved, robots, config>>
      /\ c.op \in {"check", "audit", "wipe"}
      /\ panel' = panel \/ \E w : panel' = [q EXCEPT !.check = w]
  BY DEF ReportAnswered, Finishes
<1>2. c \in PanelCall /\ panel \in PanelState /\ "success" \in Alerts
  BY DEF PanelsTyped, Alerts
<1>3. c.op \notin LlmOps /\ c.op \notin {"search", "upload", "config", "register"} /\ Slot(c.op) = c.op
  BY <1>1 DEF LlmOps, Slot
<1>4. /\ q \in PanelState
      /\ q.llm = panel.llm /\ q.driver = panel.driver /\ q.registered = panel.registered /\ q.asked = panel.asked
      /\ q.found = panel.found /\ q.file = panel.file /\ q.about = panel.about
      /\ q.doubt = IF c.crossed THEN panel.doubt \union {c.op} ELSE panel.doubt \ {c.op}
  BY <1>2, <1>3, AnsweredProperties
<1>. HIDE DEF q
<1>5. /\ panel'.llm = panel.llm /\ panel'.driver = panel.driver /\ panel'.registered = panel.registered
      /\ panel'.asked = panel.asked /\ panel'.found = panel.found /\ panel'.file = panel.file
      /\ panel'.about = panel.about /\ (panel' = panel \/ panel'.doubt = q.doubt)
  BY <1>1, <1>4 DEF PanelState
<1>6. DoubtKept("llm") /\ DoubtKept("search") /\ DoubtKept("upload") /\ DoubtKept("driver")
  BY <1>1, <1>4, <1>5 DEF DoubtKept
<1>. HIDE DEF c
<1>. QED
  BY <1>1, <1>3, <1>5, <1>6, AnswerKeepsPlaces DEF PlacesInv, PlacesShowTheLatest, c

\* The result of an integration.
LEMMA IntegratedKeepsPlaces ==
  ASSUME PanelsTyped, PlacesInv, NEW i \in DOMAIN calls, Integrated(i)
  PROVE  PlacesInv'
<1>. DEFINE c == calls[i]
            q == Answered(c, "success")
<1>1. /\ calls' = RemoveAt(calls, i) /\ UNCHANGED <<mount, saved, robots, config>>
      /\ c.op = "integrate"
      /\ panel' = IF Here(c) THEN Refill(q, c.got) ELSE panel
  BY DEF Integrated, Finishes
<1>2. c \in PanelCall /\ panel \in PanelState /\ "success" \in Alerts /\ c.got \in Number
  BY CallTyped DEF PanelsTyped, Alerts
<1>3. c.op \notin LlmOps /\ c.op \notin {"search", "upload", "config", "register"} /\ Slot(c.op) = "driver"
  BY <1>1 DEF LlmOps, Slot
<1>4. /\ q \in PanelState
      /\ q.llm = panel.llm /\ q.asked = panel.asked
      /\ q.found = panel.found /\ q.file = panel.file /\ q.about = panel.about
      /\ q.doubt = IF c.crossed THEN panel.doubt \union {"driver"} ELSE panel.doubt \ {"driver"}
  BY <1>2, <1>3, AnsweredProperties
<1>. HIDE DEF q
<1>5. /\ panel'.llm = panel.llm
      /\ panel'.asked = panel.asked /\ panel'.found = panel.found /\ panel'.file = panel.file
      /\ panel'.about = panel.about /\ (panel' = panel \/ (panel'.doubt = q.doubt /\ panel'.registered = None))
  BY <1>1, <1>2, <1>4, RefillProperties
<1>6. DoubtKept("llm") /\ DoubtKept("search") /\ DoubtKept("upload")
  BY <1>4, <1>5 DEF DoubtKept
<1>. HIDE DEF c
<1>7. /\ PairsCross' /\ LlmPlace' /\ SearchPlace' /\ UploadPlace' /\ ConfigPlace'
      /\ panel' = panel => DriverPlace'
      /\ \A k \in DOMAIN calls' : Slot(calls'[k].op) = "driver" => calls'[k].crossed
  BY <1>1, <1>3, <1>5, <1>6, AnswerKeepsPlaces DEF c, DoubtKept
<1>8. ASSUME panel'.registered = None PROVE DriverPlace'
  <2>1. Slot("register") = "driver"
    BY DEF Slot
  <2>. QED
    BY <1>7, <1>8, <2>1 DEF DriverPlace
<1>. QED
  BY <1>5, <1>7, <1>8 DEF PlacesInv, PlacesShowTheLatest

\* What a search found.
LEMMA FoundKeepsPlaces ==
  ASSUME PanelsTyped, PlacesInv, NEW i \in DOMAIN calls, Found(i)
  PROVE  PlacesInv'
<1>. DEFINE c == calls[i]
            q == Answered(c, "none")
<1>1. /\ calls' = RemoveAt(calls, i) /\ UNCHANGED <<mount, saved, robots, config>>
      /\ c.op = "search" /\ c.got # None
      /\ panel' = IF Here(c) THEN [q EXCEPT !.found = c.got] ELSE panel
  BY DEF Found, Finishes
<1>2. c \in PanelCall /\ panel \in PanelState /\ "none" \in Alerts
  BY DEF PanelsTyped, Alerts
<1>3. c.op \notin LlmOps /\ c.op \notin {"upload", "config", "register"} /\ Slot(c.op) = "search"
  BY <1>1 DEF LlmOps, Slot
<1>4. /\ q \in PanelState
      /\ q.llm = panel.llm /\ q.asked = panel.asked /\ q.driver = panel.driver /\ q.registered = panel.registered
      /\ q.file = panel.file /\ q.about = panel.about
      /\ q.doubt = IF c.crossed THEN panel.doubt \union {"search"} ELSE panel.doubt \ {"search"}
  BY <1>2, <1>3, AnsweredProperties
<1>. HIDE DEF q
<1>5. /\ panel'.llm = panel.llm /\ panel'.driver = panel.driver /\ panel'.registered = panel.registered
      /\ panel'.asked = panel.asked /\ panel'.file = panel.file /\ panel'.about = panel.about
      /\ Here(c) => panel'.found = c.got /\ panel'.doubt = q.doubt
      /\ ~Here(c) => panel' = panel
  BY <1>1, <1>4 DEF PanelState
<1>6. DoubtKept("llm") /\ DoubtKept("driver") /\ DoubtKept("upload")
  BY <1>4, <1>5 DEF DoubtKept
<1>. HIDE DEF c
<1>7. /\ PairsCross' /\ LlmPlace' /\ DriverPlace' /\ UploadPlace' /\ ConfigPlace'
      /\ ~Here(c) => SearchPlace'
      /\ \A k \in DOMAIN calls' : Slot(calls'[k].op) = "search" => calls'[k].crossed
  BY <1>1, <1>3, <1>5, <1>6, AnswerKeepsPlaces DEF c
<1>8. ASSUME Here(c) PROVE SearchPlace'
  <2>1. Slot("search") = "search"
    BY DEF Slot
  <2>2. ~c.crossed => c.got = panel.asked
    BY <1>1, <1>8 DEF c, PlacesInv, PlacesShowTheLatest, SearchPlace
  <2>. QED
    BY <1>4, <1>5, <1>7, <1>8, <2>1, <2>2 DEF SearchPlace
<1>. QED
  BY <1>7, <1>8 DEF PlacesInv, PlacesShowTheLatest

\* What is known of the file that was uploaded.
LEMMA UploadedKeepsPlaces ==
  ASSUME PanelsTyped, PlacesInv, NEW i \in DOMAIN calls, Uploaded(i)
  PROVE  PlacesInv'
<1>. DEFINE c == calls[i]
            q == Answered(c, "success")
<1>1. /\ calls' = RemoveAt(calls, i) /\ UNCHANGED <<mount, saved, robots, config>>
      /\ c.op = "upload" /\ c.got # None
      /\ panel' = IF Here(c) THEN [q EXCEPT !.about = c.got] ELSE panel
  BY DEF Uploaded, Finishes
<1>2. c \in PanelCall /\ panel \in PanelState /\ "success" \in Alerts
  BY DEF PanelsTyped, Alerts
<1>3. c.op \notin LlmOps /\ c.op \notin {"search", "config", "register"} /\ Slot(c.op) = "upload"
  BY <1>1 DEF LlmOps, Slot
<1>4. /\ q \in PanelState
      /\ q.llm = panel.llm /\ q.asked = panel.asked /\ q.driver = panel.driver /\ q.registered = panel.registered
      /\ q.file = panel.file /\ q.found = panel.found
      /\ q.doubt = IF c.crossed THEN panel.doubt \union {"upload"} ELSE panel.doubt \ {"upload"}
  BY <1>2, <1>3, AnsweredProperties
<1>. HIDE DEF q
<1>5. /\ panel'.llm = panel.llm /\ panel'.driver = panel.driver /\ panel'.registered = panel.registered
      /\ panel'.asked = panel.asked /\ panel'.file = panel.file /\ panel'.found = panel.found
      /\ Here(c) => panel'.about = c.got /\ panel'.doubt = q.doubt
      /\ ~Here(c) => panel' = panel
  BY <1>1, <1>4 DEF PanelState
<1>6. DoubtKept("llm") /\ DoubtKept("driver") /\ DoubtKept("search")
  BY <1>4, <1>5 DEF DoubtKept
<1>. HIDE DEF c
<1>7. /\ PairsCross' /\ LlmPlace' /\ DriverPlace' /\ SearchPlace' /\ ConfigPlace'
      /\ ~Here(c) => UploadPlace'
      /\ \A k \in DOMAIN calls' : Slot(calls'[k].op) = "upload" => calls'[k].crossed
  BY <1>1, <1>3, <1>5, <1>6, AnswerKeepsPlaces DEF c
<1>8. ASSUME Here(c) PROVE UploadPlace'
  <2>1. Slot("upload") = "upload"
    BY DEF Slot
  <2>2. ~c.crossed => c.got = panel.file
    BY <1>1, <1>8 DEF c, PlacesInv, PlacesShowTheLatest, UploadPlace
  <2>. QED
    BY <1>4, <1>5, <1>7, <1>8, <2>1, <2>2 DEF UploadPlace
<1>. QED
  BY <1>7, <1>8 DEF PlacesInv, PlacesShowTheLatest

\* The configuration that came.
LEMMA ConfigLoadedKeepsPlaces ==
  ASSUME PanelsTyped, PlacesInv, NEW i \in DOMAIN calls, ConfigLoaded(i)
  PROVE  PlacesInv'
<1>. DEFINE c == calls[i]
<1>1. /\ calls' = RemoveAt(calls, i) /\ UNCHANGED <<mount, saved, robots, panel>>
      /\ c.op = "config" /\ c.got # None
      /\ config'.shown = c.got /\ config'.doubt = c.crossed
  BY DEF ConfigLoaded, Finishes
<1>2. c.op \notin LlmOps /\ c.op \notin {"search", "upload", "register"}
  BY <1>1 DEF LlmOps
<1>3. DoubtKept("llm") /\ DoubtKept("driver") /\ DoubtKept("search") /\ DoubtKept("upload")
  BY <1>1 DEF DoubtKept
<1>. HIDE DEF c
<1>4. /\ PairsCross' /\ LlmPlace' /\ DriverPlace' /\ SearchPlace' /\ UploadPlace'
      /\ \A k \in DOMAIN calls' : \E j \in DOMAIN calls \ {i} : calls'[k] = calls[j]
      /\ \A j \in DOMAIN calls \ {i} : \E k \in DOMAIN calls' : calls'[k] = calls[j]
  BY <1>1, <1>2, <1>3, AnswerKeepsPlaces DEF c
<1>5. Waiting("register") => Waiting("register")'
  BY <1>1, <1>4 DEF Waiting, c
<1>6. ConfigPlace'
  <2>1. ~c.crossed => c.got = robots \/ Waiting("register")
    BY <1>1 DEF c, PlacesInv, PlacesShowTheLatest, ConfigPlace
  <2>2. ASSUME NEW k \in DOMAIN calls', calls'[k].op = "config", ~calls'[k].crossed
        PROVE  calls'[k].got \in {None, robots} \/ Waiting("register")
    BY <1>4, <2>2 DEF PlacesInv, PlacesShowTheLatest, ConfigPlace
  <2>3. config'.shown = robots \/ config'.doubt \/ Waiting("register")
    BY <1>1, <2>1
  <2>. QED
    BY <1>1, <1>5, <2>2, <2>3 DEF ConfigPlace
<1>. QED
  BY <1>4, <1>6 DEF PlacesInv, PlacesShowTheLatest

\* A registration that is answered: its place shows it, and the configuration is waited for.
LEMMA RegisteredKeepsPlaces ==
  ASSUME PanelsTyped, PlacesInv, NEW i \in DOMAIN calls, Registered(i)
  PROVE  PlacesInv'
<1>. DEFINE c == calls[i]
            q == Answered(c, panel.say["driver"])
<1>1. /\ UNCHANGED <<mount, saved, robots>>
      /\ c.op = "register" /\ c.got # None
      /\ panel' = IF Here(c) THEN [q EXCEPT !.registered = c.got] ELSE panel
  BY DEF Registered
<1>2. c \in PanelCall /\ panel \in PanelState /\ panel.say["driver"] \in Alerts
  BY DEF PanelsTyped, PanelState, Places
<1>3. Slot(c.op) = "driver"
  BY <1>1 DEF Slot
<1>4. /\ q \in PanelState
      /\ q.llm = panel.llm /\ q.asked = panel.asked /\ q.driver = panel.driver /\ q.found = panel.found
      /\ q.file = panel.file /\ q.about = panel.about
      /\ q.doubt = IF c.crossed THEN panel.doubt \union {"driver"} ELSE panel.doubt \ {"driver"}
  BY <1>2, <1>3, AnsweredProperties
<1>. HIDE DEF q
<1>5. /\ panel'.llm = panel.llm /\ panel'.driver = panel.driver
      /\ panel'.asked = panel.asked /\ panel'.file = panel.file /\ panel'.found = panel.found
      /\ panel'.about = panel.about
      /\ Here(c) => panel'.registered = c.got /\ panel'.doubt = q.doubt
      /\ ~Here(c) => panel' = panel
  BY <1>1, <1>4 DEF PanelState
<1>6. DoubtKept("llm") /\ DoubtKept("upload") /\ DoubtKept("search")
  BY <1>4, <1>5 DEF DoubtKept
<1>7. /\ PairsCross'
      /\ \A o \in Ops \ {"register", "config"} : KeepsCalls(o)
      /\ \A k \in DOMAIN calls' : calls'[k].op = "register" =>
           \E j \in DOMAIN calls \ {i} : Same(calls[j], calls'[k]) /\ (calls[j].crossed => calls'[k].crossed)
      /\ \A k \in DOMAIN calls' : calls'[k].op = "config" => calls'[k].got = None \/ calls'[k].crossed
      /\ Waiting("config")'
  BY RegisteredKeeps DEF PlacesInv
<1>8. LlmPlace' /\ SearchPlace' /\ UploadPlace'
  <2>. DEFINE ops == {"register", "config"}
  <2>1. /\ \A o \in Ops \ ops : KeepsCalls(o)
        /\ ops \intersect LlmOps = {} /\ "search" \notin ops /\ "upload" \notin ops
    BY <1>7 DEF LlmOps
  <2>. HIDE DEF ops
  <2>. QED
    BY <1>1, <1>5, <1>6, <2>1, KeepsPlaces DEF PlacesInv
<1>9. ConfigPlace'
  BY <1>7 DEF ConfigPlace
<1>10. DriverPlace'
  <2>1. ASSUME NEW k \in DOMAIN calls', calls'[k].op = "register", Here(calls[k])', ~calls'[k].crossed
        PROVE  calls'[k].arg.shown = panel.driver /\ calls'[k].got \in {None, calls'[k].arg.shown}
    BY <1>1, <1>7, <2>1 DEF PlacesInv, PlacesShowTheLatest, DriverPlace, Here, Same
  <2>2. CASE ~Here(c)
    BY <1>5, <2>1, <2>2 DEF PlacesInv, PlacesShowTheLatest, DriverPlace
  <2>3. CASE Here(c)
    <3>1. ~c.crossed => c.got = panel.driver
      BY <1>1, <2>3 DEF PlacesInv, PlacesShowTheLatest, DriverPlace
    <3>. QED
      BY <1>4, <1>5, <2>1, <2>3, <3>1 DEF DriverPlace
  <2>. QED
    BY <2>2, <2>3
<1>. QED
  BY <1>7, <1>8, <1>9, <1>10 DEF PlacesInv, PlacesShowTheLatest

\* A failure leaves its place in doubt, and that of a registration the configuration as well.
LEMMA FailureKeepsPlaces ==
  ASSUME PanelsTyped, PlacesInv, NEW i \in DOMAIN calls, PanelCallFails(i)
  PROVE  PlacesInv'
<1>. USE DEF PlacesInv, PlacesShowTheLatest
<1>. DEFINE c == calls[i]
            q == Answered(c, "error")
<1>1. /\ UNCHANGED <<mount, saved, robots>>
      /\ config'.shown = config.shown
      /\ config'.doubt <=> (config.doubt \/ c.op \in {"config", "register"})
      /\ panel' = IF Here(c) /\ c.op # "config"
                  THEN [q EXCEPT !.doubt = @ \union {Slot(c.op)}, !.about = IF c.op = "upload" THEN c.arg ELSE @]
                  ELSE panel
  BY DEF PanelCallFails, PanelsTyped
<1>2. c \in PanelCall /\ panel \in PanelState /\ "error" \in Alerts
  BY DEF PanelsTyped, Alerts
<1>3. /\ c.op \in Ops /\ Slot(c.op) \in Places
      /\ Slot(c.op) = "llm" <=> c.op \in LlmOps
      /\ Slot(c.op) = "driver" <=> c.op \in {"integrate", "register"}
      /\ Slot(c.op) = "search" <=> c.op = "search"
      /\ Slot(c.op) = "upload" <=> c.op = "upload"
  BY <1>2, CallTyped, SlotValues DEF LlmOps, Places
<1>4. /\ q \in PanelState
      /\ q.llm = panel.llm /\ q.asked = panel.asked /\ q.driver = panel.driver /\ q.registered = panel.registered
      /\ q.file = panel.file /\ q.found = panel.found /\ q.about = panel.about
      /\ \A s \in Places \ {Slot(c.op)} : s \in q.doubt <=> s \in panel.doubt
  BY <1>2, AnsweredProperties
<1>. DEFINE d == q.doubt \union {Slot(c.op)}
            a == IF c.op = "upload" THEN c.arg ELSE q.about
<1>5. panel' = IF Here(c) /\ c.op # "config" THEN [q EXCEPT !.doubt = d, !.about = a] ELSE panel
  BY <1>1
<1>6. (\A s \in Places \ {Slot(c.op)} : s \in d <=> s \in panel.doubt) /\ Slot(c.op) \in d
      /\ (c.op # "upload" => a = panel.about)
  BY <1>4
<1>. HIDE DEF q, d, a
<1>7. /\ panel'.llm = panel.llm /\ panel'.driver = panel.driver /\ panel'.registered = panel.registered
      /\ panel'.asked = panel.asked /\ panel'.file = panel.file /\ panel'.found = panel.found
      /\ c.op # "upload" => panel'.about = panel.about
      /\ \A s \in Places \ {Slot(c.op)} : DoubtKept(s)
      /\ Here(c) /\ c.op # "config" => Slot(c.op) \in panel'.doubt
      /\ ~Here(c) => panel' = panel
  BY <1>4, <1>5, <1>6 DEF PanelState, DoubtKept
<1>8. /\ PairsCross'
      /\ \A o \in Ops \ {c.op} : KeepsCalls(o)
      /\ \A k \in DOMAIN calls' :
           /\ \E j \in DOMAIN calls \ {i} : Same(calls[j], calls'[k]) /\ (calls[j].crossed => calls'[k].crossed)
           /\ c.op = "register" /\ calls'[k].op = "config" => calls'[k].crossed
      /\ \A j \in DOMAIN calls \ {i} : \E k \in DOMAIN calls' : Same(calls[j], calls'[k])
  BY FailureKeeps
<1>. DEFINE ops == {c.op}
<1>9. (\A o \in Ops \ ops : KeepsCalls(o)) /\ (\A o : o \in ops <=> o = c.op)
  BY <1>8
<1>. HIDE DEF c, ops
<1>10. /\ c.op \notin LlmOps => LlmPlace'
       /\ c.op # "search" => SearchPlace'
       /\ c.op # "upload" => UploadPlace'
       /\ c.op \notin {"integrate", "register"} => DriverPlace'
  <2>1. /\ c.op \notin LlmOps => DoubtKept("llm")
        /\ c.op # "search" => DoubtKept("search")
        /\ c.op # "upload" => DoubtKept("upload")
        /\ c.op \notin {"integrate", "register"} => DoubtKept("driver")
    BY <1>3, <1>7 DEF Places
  <2>2. ops \intersect LlmOps = {} <=> c.op \notin LlmOps
    BY <1>9
  <2>. QED
    BY <1>1, <1>7, <1>9, <2>1, <2>2, KeepsPlaces
<1>11. ASSUME c.op \in LlmOps PROVE LlmPlace'
  <2>1. \A k \in DOMAIN calls' : calls'[k].op \in LlmOps /\ ~calls'[k].crossed => calls'[k].got \in {None, saved}
    BY <1>8 DEF LlmPlace, Same
  <2>2. CASE Here(c)
    <3>1. "llm" \in panel'.doubt
      BY <1>3, <1>7, <1>11, <2>2 DEF LlmOps
    <3>. QED
      BY <1>1, <2>1, <3>1 DEF LlmPlace
  <2>3. CASE ~Here(c)
    <3>1. panel' = panel /\ (panel.llm = None \/ "llm" \in panel.doubt)
      BY <1>7, <1>11, <2>3 DEF LlmPlace, c
    <3>. QED
      BY <1>1, <2>1, <3>1 DEF LlmPlace
  <2>. QED
    BY <2>2, <2>3
<1>12. ASSUME c.op = "search" PROVE SearchPlace'
  <2>1. ASSUME NEW k \in DOMAIN calls', calls'[k].op = "search", Here(calls[k])', ~calls'[k].crossed
        PROVE  calls'[k].arg = panel.asked /\ calls'[k].arg # None /\ calls'[k].got \in {None, calls'[k].arg}
    BY <1>1, <1>8, <2>1 DEF SearchPlace, Here, Same
  <2>2. CASE Here(c)
    BY <1>3, <1>7, <1>12, <2>1, <2>2 DEF SearchPlace
  <2>3. CASE ~Here(c)
    <3>1. WaitingHere("search") => WaitingHere("search")'
      BY <1>1, <1>8, <2>3 DEF WaitingHere, Here, Same, c
    <3>. QED
      BY <1>7, <2>1, <2>3, <3>1 DEF SearchPlace
  <2>. QED
    BY <2>2, <2>3
<1>13. ASSUME c.op = "upload" PROVE UploadPlace'
  <2>1. ASSUME NEW k \in DOMAIN calls', calls'[k].op = "upload", Here(calls[k])', ~calls'[k].crossed
        PROVE  calls'[k].arg = panel.file /\ calls'[k].arg # None /\ calls'[k].got \in {None, calls'[k].arg}
    BY <1>1, <1>8, <2>1 DEF UploadPlace, Here, Same
  <2>2. CASE Here(c)
    BY <1>3, <1>7, <1>13, <2>1, <2>2 DEF UploadPlace
  <2>3. CASE ~Here(c)
    <3>1. WaitingHere("upload") => WaitingHere("upload")'
      BY <1>1, <1>8, <2>3 DEF WaitingHere, Here, Same, c
    <3>. QED
      BY <1>7, <2>1, <2>3, <3>1 DEF UploadPlace
  <2>. QED
    BY <2>2, <2>3
<1>14. ASSUME c.op \in {"integrate", "register"} PROVE DriverPlace'
  <2>1. ASSUME NEW k \in DOMAIN calls', calls'[k].op = "register", Here(calls[k])', ~calls'[k].crossed
        PROVE  calls'[k].arg.shown = panel.driver /\ calls'[k].got \in {None, calls'[k].arg.shown}
    BY <1>1, <1>8, <2>1 DEF DriverPlace, Here, Same
  <2>2. CASE Here(c)
    BY <1>3, <1>7, <1>14, <2>1, <2>2 DEF DriverPlace
  <2>3. CASE ~Here(c)
    BY <1>7, <2>1, <2>3 DEF DriverPlace
  <2>. QED
    BY <2>2, <2>3
<1>15. ConfigPlace'
  <2>1. CASE c.op = "register"
    <3>1. \A k \in DOMAIN calls' : calls'[k].op = "config" => calls'[k].crossed
      BY <1>8, <2>1
    <3>. QED
      BY <1>1, <2>1, <3>1 DEF ConfigPlace
  <2>2. CASE c.op # "register"
    <3>1. Waiting("register") => Waiting("register")'
      BY <1>8, <2>2 DEF Waiting, Same, c
    <3>2. ASSUME NEW k \in DOMAIN calls', calls'[k].op = "config", ~calls'[k].crossed
          PROVE  calls'[k].got \in {None, robots} \/ Waiting("register")
      BY <1>8, <3>2 DEF ConfigPlace, Same
    <3>3. config.doubt \/ c.op = "config" => config'.doubt
      BY <1>1
    <3>4. c.op # "config" => (Waiting("config") => Waiting("config")')
      BY <1>8 DEF Waiting, Same, c
    <3>. QED
      BY <1>1, <3>1, <3>2, <3>3, <3>4 DEF ConfigPlace
  <2>. QED
    BY <2>1, <2>2
<1>. QED
  BY <1>8, <1>10, <1>11, <1>12, <1>13, <1>14, <1>15

\* What each place of a panel shows is the answer to the last request for it, unless that
\* failed or crossed another one: whatever pages are left and shown again, and whatever
\* answers come back late, in whichever order.  The answer to a request of a page that was
\* left is shown nowhere, but it may save settings behind the new page's back: the load of
\* the new page is then crossed, and its place is in doubt.
THEOREM PanelsShowTheLatestHolds == PanelSpec => []PanelsShowTheLatest
<1>1. PanelInit => PlacesInv
  <2>. SUFFICES ASSUME PanelInit PROVE PlacesInv
    OBVIOUS
  <2>. DEFINE asked == IF page = "hardware" THEN {"config"} ELSE OnMount(page)
  <2>1. /\ IsFiniteSet(asked) /\ asked \subseteq {"config", "check", "load"}
        /\ page = "hardware" => asked = {"config"}
    BY MountSends, FS_Singleton
  <2>2. calls = [n \in 1 .. Cardinality(asked) |-> FirstCall(SetToSeq(asked)[n])]
    BY DEF PanelInit
  <2>. HIDE DEF asked
  <2>3. /\ Cardinality(asked) \in Nat
        /\ \A n \in 1 .. Cardinality(asked) : SetToSeq(asked)[n] \in asked
        /\ \A n, m \in 1 .. Cardinality(asked) : SetToSeq(asked)[n] = SetToSeq(asked)[m] => n = m
    BY <2>1, SetToSeqProperties
  <2>4. \A k \in DOMAIN calls : calls[k].op \in asked /\ calls[k].got = None /\ Here(calls[k])
    <3>1. \A k \in DOMAIN calls : k \in 1 .. Cardinality(asked) /\ calls[k] = FirstCall(SetToSeq(asked)[k])
      BY <2>2
    <3>2. mount = 0
      BY DEF PanelInit
    <3>. QED
      BY <2>3, <3>1, <3>2 DEF FirstCall, Here
  <2>5. \A k, l \in DOMAIN calls : calls[k].op = calls[l].op => k = l
    BY <2>2, <2>3 DEF FirstCall
  <2>6. PairsCross
    <3>1. \A o, u \in asked : Slot(o) = Slot(u) => o = u
      BY <2>1 DEF Slot
    <3>. QED
      BY <2>4, <2>5, <3>1 DEF PairsCross
  <2>7. page = "hardware" => Waiting("config")
    <3>. SUFFICES ASSUME page = "hardware" PROVE Waiting("config")
      OBVIOUS
    <3>1. Cardinality(asked) = 1
      BY <2>1, FS_Singleton
    <3>. QED
      BY <2>1, <2>2, <2>3, <2>4, <3>1 DEF Waiting
  <2>8. LlmPlace /\ SearchPlace /\ UploadPlace /\ DriverPlace
    BY <2>1, <2>4 DEF PanelInit, Fresh, LlmPlace, SearchPlace, UploadPlace, DriverPlace
  <2>9. ConfigPlace
    BY <2>4, <2>7 DEF PanelInit, ConfigPlace
  <2>. QED
    BY <2>6, <2>8, <2>9 DEF PlacesInv, PlacesShowTheLatest
<1>2. ASSUME PanelsTyped, PlacesInv, [PanelNext]_<<panelVars, left>> PROVE PlacesInv'
  <2>. USE DEF PlacesInv, PlacesShowTheLatest
  <2>1. ASSUME NEW p \in Pages, Navigate(p) PROVE PlacesInv'
    BY <1>2, <2>1, ShowKeepsPlaces DEF Navigate
  <2>2. ASSUME NEW e \in DOMAIN urls, PopState(e) PROVE PlacesInv'
    BY <1>2, <2>2, ShowKeepsPlaces DEF PopState
  <2>3. panel \in PanelState
    BY <1>2 DEF PanelsTyped
  <2>4. CASE TypeSettings
    <3>1. \A o \in Ops : KeepsCalls(o)
      BY <2>4 DEF TypeSettings, KeepsCalls, Same
    <3>2. UNCHANGED <<mount, saved, robots, config, calls>>
      BY <2>4 DEF TypeSettings, Stays
    <3>3. /\ panel'.llm = panel.llm /\ panel'.driver = panel.driver /\ panel'.registered = panel.registered
          /\ panel'.asked = panel.asked /\ panel'.file = panel.file /\ panel'.found = panel.found
          /\ panel'.about = panel.about /\ panel'.doubt = panel.doubt
      BY <2>3, <2>4 DEF TypeSettings, PanelState
    <3>4. PairsCross'
      BY <1>2, <3>2 DEF PairsCross
    <3>. DEFINE ops == {}
    <3>5. (\A o \in Ops \ ops : KeepsCalls(o)) /\ \A o : o \notin ops
      BY <3>1
    <3>. HIDE DEF ops
    <3>. QED
      BY <1>2, <3>2, <3>3, <3>4, <3>5, KeepsPlaces DEF DoubtKept
  <2>5. CASE HandleSave \/ HandleTest \/ \E op \in {"audit", "wipe"} : HandleExport(op)
    <3>1. PICK op \in {"save", "test", "audit", "wipe"}, arg \in Number, s \in Places :
            /\ Call(op, arg) /\ Stays
            /\ panel' = [panel EXCEPT !.spin = @ \union {op}, !.say[s] = "none"]
      BY <2>3, <2>5 DEF HandleSave, HandleTest, HandleExport, PanelState, Number, Places
    <3>2. /\ panel'.llm = panel.llm /\ panel'.driver = panel.driver /\ panel'.registered = panel.registered
          /\ panel'.asked = panel.asked /\ panel'.file = panel.file /\ panel'.found = panel.found
          /\ panel'.about = panel.about /\ panel'.doubt = panel.doubt
      BY <2>3, <3>1 DEF PanelState
    <3>3. UNCHANGED <<mount, saved, robots, config>> /\ op \in Ops /\ op # "register" /\ op # "search" /\ op # "upload"
      BY <3>1 DEF Stays, Ops, Asks
    <3>. QED
      BY <1>2, <3>1, <3>2, <3>3, SendKeepsPlaces DEF DoubtKept
  <2>6. CASE HandleIntegrate
    <3>. DEFINE arg == serial'
    <3>1. /\ panel'.llm = panel.llm /\ panel'.driver = None
          /\ panel'.asked = panel.asked /\ panel'.file = panel.file /\ panel'.found = panel.found
          /\ panel'.about = panel.about /\ panel'.doubt = panel.doubt
      BY <2>3, <2>6 DEF HandleIntegrate, PanelState
    <3>2. UNCHANGED <<mount, saved, robots, config>> /\ Call("integrate", arg) /\ arg \in Number
      BY <1>2, <2>6 DEF HandleIntegrate, Stays, Enter, PanelsTyped, Number
    <3>. HIDE DEF arg
    <3>3. /\ PairsCross' /\ LlmPlace' /\ SearchPlace' /\ UploadPlace' /\ ConfigPlace'
          /\ \E k \in DOMAIN calls' :
               /\ calls'[k].op = "integrate"
               /\ \A l \in DOMAIN calls' \ {k} : Slot(calls'[l].op) = Slot("integrate") => calls'[l].crossed
      <4>1. "integrate" \in Ops
        BY DEF Ops, Asks
      <4>. QED
        BY <1>2, <3>1, <3>2, <4>1, SendKeepsPlaces DEF DoubtKept
    <3>4. Slot("register") = Slot("integrate")
      BY DEF Slot
    <3>. QED
      BY <3>1, <3>3, <3>4 DEF DriverPlace
  <2>7. CASE HandleRegister
    <3>. DEFINE arg == [shown |-> panel.driver, field |-> panel.field]
    <3>1. /\ panel'.llm = panel.llm /\ panel'.driver = panel.driver /\ panel'.registered = None
          /\ panel'.asked = panel.asked /\ panel'.file = panel.file /\ panel'.found = panel.found
          /\ panel'.about = panel.about /\ panel'.doubt = panel.doubt
      BY <2>3, <2>7 DEF HandleRegister, PanelState
    <3>2. /\ UNCHANGED <<mount, saved, robots, config>> /\ Call("register", arg)
          /\ arg \in [shown : Nat, field : Field] /\ arg.shown = panel.driver
      BY <2>3, <2>7 DEF HandleRegister, RegisterForm, Stays, PanelState, Number
    <3>. HIDE DEF arg
    <3>3. /\ PairsCross' /\ LlmPlace' /\ SearchPlace' /\ UploadPlace' /\ ConfigPlace'
          /\ \E k \in DOMAIN calls' :
               /\ calls'[k].op = "register" /\ calls'[k].arg = arg /\ calls'[k].got = None
               /\ \A l \in DOMAIN calls' \ {k} : Slot(calls'[l].op) = Slot("register") => calls'[l].crossed
      <4>1. "register" \in Ops
        BY DEF Ops
      <4>. QED
        BY <1>2, <3>1, <3>2, <4>1, SendKeepsPlaces DEF DoubtKept
    <3>. QED
      BY <3>1, <3>2, <3>3 DEF DriverPlace
  <2>8. CASE RunSearch
    <3>. DEFINE arg == serial'
    <3>1. /\ panel'.llm = panel.llm /\ panel'.driver = panel.driver /\ panel'.registered = panel.registered
          /\ panel'.asked = arg /\ panel'.file = panel.file /\ panel'.about = panel.about
          /\ panel'.doubt = panel.doubt
      BY <2>3, <2>8 DEF RunSearch, PanelState
    <3>2. /\ UNCHANGED <<mount, saved, robots, config>> /\ Call("search", arg) /\ arg \in Number
          /\ arg # None
      <4>1. arg \in Nat
        BY <1>2, <2>8 DEF RunSearch, Enter, PanelsTyped
      <4>. QED
        BY <2>8, <4>1, WebPanelsAssumption DEF RunSearch, Stays, Number
    <3>. HIDE DEF arg
    <3>3. /\ PairsCross' /\ LlmPlace' /\ DriverPlace' /\ UploadPlace' /\ ConfigPlace'
          /\ \E k \in DOMAIN calls' :
               /\ calls'[k].op = "search" /\ calls'[k].mount = mount /\ calls'[k].arg = arg /\ calls'[k].got = None
               /\ \A l \in DOMAIN calls' \ {k} : Slot(calls'[l].op) = Slot("search") => calls'[l].crossed
      <4>1. "search" \in Ops
        BY DEF Ops, Asks
      <4>. QED
        BY <1>2, <3>1, <3>2, <4>1, SendKeepsPlaces DEF DoubtKept
    <3>. QED
      BY <3>1, <3>2, <3>3 DEF SearchPlace, WaitingHere, Here
  <2>9. CASE BeforeUpload
    <3>1. /\ panel'.llm = panel.llm /\ panel'.driver = panel.driver /\ panel'.registered = panel.registered
          /\ panel'.asked = panel.asked /\ panel'.found = panel.found /\ panel'.file = panel'.about
          /\ \A s : s # "upload" => DoubtKept(s)
      BY <2>3, <2>9 DEF BeforeUpload, PanelState, DoubtKept
    <3>2. UNCHANGED <<mount, saved, robots, config>>
      BY <2>9 DEF BeforeUpload, Stays
    <3>3. /\ PairsCross'
          /\ \A o \in Ops : KeepsCalls(o)
          /\ DOMAIN calls' = DOMAIN calls
          /\ \A k \in DOMAIN calls : /\ Same(calls[k], calls'[k])
                                     /\ calls[k].op = "upload" => calls'[k].crossed
      BY <1>2, <2>9, RefusalCrosses
    <3>4. LlmPlace' /\ SearchPlace' /\ DriverPlace' /\ ConfigPlace'
      <4>. DEFINE ops == {}
      <4>1. (\A o \in Ops \ ops : KeepsCalls(o)) /\ \A o : o \notin ops
        BY <3>3
      <4>. HIDE DEF ops
      <4>2. DoubtKept("llm") /\ DoubtKept("search") /\ DoubtKept("driver")
        BY <3>1
      <4>. QED
        BY <1>2, <3>1, <3>2, <4>1, <4>2, KeepsPlaces
    <3>5. UploadPlace'
      BY <3>1, <3>3 DEF UploadPlace, Same
    <3>. QED
      BY <3>3, <3>4, <3>5
  <2>10. CASE CustomRequest
    <3>. DEFINE arg == serial'
    <3>1. /\ panel'.llm = panel.llm /\ panel'.driver = panel.driver /\ panel'.registered = panel.registered
          /\ panel'.asked = panel.asked /\ panel'.found = panel.found /\ panel'.file = arg
          /\ panel'.doubt = panel.doubt
      BY <2>3, <2>10 DEF CustomRequest, PanelState
    <3>2. /\ UNCHANGED <<mount, saved, robots, config>> /\ Call("upload", arg) /\ arg \in Number
          /\ arg # None
      <4>1. arg \in Nat
        BY <1>2, <2>10 DEF CustomRequest, Enter, PanelsTyped
      <4>. QED
        BY <2>10, <4>1, WebPanelsAssumption DEF CustomRequest, Stays, Number
    <3>. HIDE DEF arg
    <3>3. /\ PairsCross' /\ LlmPlace' /\ DriverPlace' /\ SearchPlace' /\ ConfigPlace'
          /\ \E k \in DOMAIN calls' :
               /\ calls'[k].op = "upload" /\ calls'[k].mount = mount /\ calls'[k].arg = arg /\ calls'[k].got = None
               /\ \A l \in DOMAIN calls' \ {k} : Slot(calls'[l].op) = Slot("upload") => calls'[l].crossed
      <4>1. "upload" \in Ops
        BY DEF Ops, Asks
      <4>. QED
        BY <1>2, <3>1, <3>2, <4>1, SendKeepsPlaces DEF DoubtKept
    <3>. QED
      BY <3>1, <3>2, <3>3 DEF UploadPlace, WaitingHere, Here
  <2>11. CASE LoadConfiguration
    <3>1. /\ UNCHANGED <<mount, saved, robots, panel>> /\ Call("config", None) /\ None \in Number
          /\ "config" \in Ops
      BY <2>11 DEF LoadConfiguration, Number, Ops, Asks
    <3>2. /\ PairsCross' /\ LlmPlace' /\ DriverPlace' /\ SearchPlace' /\ UploadPlace'
          /\ \E k \in DOMAIN calls' :
               /\ calls'[k].op = "config" /\ calls'[k].got = None
               /\ \A l \in DOMAIN calls' \ {k} : Slot(calls'[l].op) = Slot("config") => calls'[l].crossed
      BY <1>2, <3>1, SendKeepsPlaces DEF DoubtKept
    <3>. QED
      BY <3>2 DEF ConfigPlace, Waiting
  <2>12. ASSUME NEW i \in DOMAIN calls,
                \/ PanelServed(i) \/ SettingsAnswered(i) \/ ReportAnswered(i) \/ Integrated(i)
                \/ Registered(i) \/ Found(i) \/ Uploaded(i) \/ ConfigLoaded(i) \/ PanelCallFails(i)
         PROVE  PlacesInv'
    BY <1>2, <2>12, ServeKeepsPlaces, SettingsKeepPlaces, ReportKeepsPlaces, IntegratedKeepsPlaces,
       RegisteredKeepsPlaces, FoundKeepsPlaces, UploadedKeepsPlaces, ConfigLoadedKeepsPlaces, FailureKeepsPlaces
  <2>13. CASE UNCHANGED <<panelVars, left>>
    BY <1>2, <2>13 DEF panelVars, PairsCross, LlmPlace, SearchPlace, UploadPlace, DriverPlace, ConfigPlace,
                       Waiting, WaitingHere, Here
  <2>. QED
    BY <1>2, <2>1, <2>2, <2>4, <2>5, <2>6, <2>7, <2>8, <2>9, <2>10, <2>11, <2>12, <2>13 DEF PanelNext
<1>3. PlacesInv => PanelsShowTheLatest
  <2>. SUFFICES ASSUME PlacesInv PROVE PanelsShowTheLatest
    OBVIOUS
  <2>1. /\ Slot("load") = "llm" /\ \A o \in LlmOps : Slot(o) = Slot("load")
        /\ Slot("search") = "search" /\ Slot("upload") = "upload" /\ Slot("register") = "driver"
    BY DEF Slot, LlmOps
  <2>2. ~Crossing("load") => \A o \in LlmOps : ~WaitingHere(o)
    BY <2>1 DEF Crossing, WaitingHere
  <2>3. \A o : ~Crossing(o) => ~WaitingHere(o) /\ ~Waiting(o)
    BY DEF Crossing, WaitingHere, Waiting
  <2>. QED
    BY <2>1, <2>2, <2>3 DEF PlacesInv, PlacesShowTheLatest, LlmPlace, SearchPlace, UploadPlace, DriverPlace,
                            ConfigPlace, PanelsShowTheLatest, Undoubted
<1>. QED
  BY <1>1, <1>2, <1>3, PanelsTypedHolds, PTL DEF PanelSpec
=============================================================================
