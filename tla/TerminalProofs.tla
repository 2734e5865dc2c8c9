---------------------------- MODULE TerminalProofs ----------------------------
(***************************************************************************)
(* Theorems about the terminal client: an outcome is announced once and    *)
(* under a key of its own, what is shown as active is followed, and the    *)
(* transcript has each message of the chat once, whatever states overtake  *)
(* each other and for every number of actions, requests and chat turns;    *)
(* and what its views show beside each other agrees, whatever answers      *)
(* overtake each other in the server.                                      *)
(***************************************************************************)
EXTENDS TerminalClient, TerminalViews, ListLemmas

TermSpec == TermInit /\ [][TermNext]_<<termVars, left>>

----------------------------------------------------------------------------
(* The invariants. *)

RequestState == [op : Commands, got : State \union {None}]
TalkState == [at : {"off", "sent", "heard", "replied", "over"}, frame : State \union {None}]
TrackerState == [initialized : BOOLEAN, generation : Nat, active : SUBSET Ids, closed : SUBSET Ids]
Outcomes == {"completed", "rejected", "failed"}
Entries == [generation : Nat, gen : Nat, id : Ids, outcome : Outcomes]

\* A record of the diary's kind; what the chat adds to it is left open.
IsDiary(d) ==
    /\ d = [tracker |-> d.tracker, since |-> d.since, said |-> d.said, seen |-> d.seen,
            pending |-> d.pending, shown |-> d.shown]
    /\ d.tracker \in TrackerState /\ d.since \in Nat /\ d.said \in Seq(Entries)

TermTyped ==
    /\ srv \in State
    /\ reads \in Seq(RequestState)
    /\ talk \in [ChatTurns -> TalkState]
    /\ \A c \in ChatTurns : talk[c].at = "replied" => talk[c].frame \in State
    /\ screen # None => screen \in State
    /\ rendered \in BOOLEAN /\ (~rendered => screen \in State)
    /\ IsDiary(diary)

\* Every entry has a key of its own: what the present tracker has announced it has closed.
OwnKeys(d) ==
    /\ \A k \in DOMAIN d.said :
         /\ d.said[k].generation <= d.tracker.generation
         /\ d.said[k].generation = d.tracker.generation => d.said[k].id \in d.tracker.closed
    /\ \A i, j \in DOMAIN d.said :
         d.said[i].generation = d.said[j].generation /\ d.said[i].id = d.said[j].id => i = j

\* What an earlier tracker announced is of an earlier workspace.
OwnWorkspaces(d) ==
    /\ \A k \in DOMAIN d.said : d.said[k].generation < d.tracker.generation => d.said[k].gen < d.since
    /\ \A i, j \in DOMAIN d.said : d.said[i].gen = d.said[j].gen /\ d.said[i].id = d.said[j].id => i = j

\* Unless the two sides of a reset have crossed.
InTime == "older" \notin missed
ScreenInTime == InTime /\ ~rendered => screen.gen >= diary.since
SaidInTime == InTime /\ "ahead" \notin missed => OwnWorkspaces(diary)

AnnouncedInv == TermTyped /\ OwnKeys(diary) /\ ScreenInTime /\ SaidInTime

\* A state of the server that was read: it is not ahead of the server, and what had ended in this
\* workspace has ended.
Past(s) ==
    /\ s.gen <= srv.gen
    /\ s.gen = srv.gen => \A a \in Ids : s.act[a] \in Terminal => srv.act[a] \in Terminal
AllPast ==
    /\ screen # None => Past(screen)
    /\ \A i \in DOMAIN reads : reads[i].got # None => Past(reads[i].got)
    /\ \A c \in ChatTurns : talk[c].at = "replied" => Past(talk[c].frame)

\* As long as nobody else resets the workspace: the tracker is of the server's workspace, or the
\* answer of the reset that made it is under way; what it has closed has ended; what is shown
\* as active it follows or has closed.
NoRemote == "remote" \in DOMAIN left /\ left["remote"] = 0
ResetUnderWay == \E i \in DOMAIN reads :
                    reads[i].op = "reset" /\ reads[i].got # None /\ reads[i].got.gen = srv.gen
ClosedHasEnded == \A a \in diary.tracker.closed : srv.act[a] \in Terminal
Noticed == rendered /\ screen # None =>
             \A a \in Ids : screen.act[a] = "active" =>
                             a \in diary.tracker.active \union diary.tracker.closed
FollowInv ==
    /\ NoRemote
    /\ diary.since <= srv.gen
    /\ InTime => diary.since = srv.gen \/ ResetUnderWay
    /\ InTime /\ diary.since = srv.gen => ClosedHasEnded
    /\ Noticed

----------------------------------------------------------------------------
(* What the effects do to the diary. *)

\* What the tracker announces was followed, is not closed, and has its outcome; it is closed
\* with it, and nothing that was closed is open again.
LEMMA ActivityProperties ==
  ASSUME NEW t \in TrackerState, NEW s \in State
  PROVE  LET a == Activity(t, s) IN
         /\ a.tracker \in TrackerState /\ a.tracker.generation = t.generation
         /\ a.told \in SUBSET Ids /\ a.told \cap t.closed = {} /\ a.told \subseteq a.tracker.closed
         /\ \A id \in a.told : TerminalOutcome(s, id) \in Outcomes
         /\ t.closed \subseteq a.tracker.closed
         /\ \A id \in a.tracker.closed \ t.closed : s.act[id] \in Terminal
         /\ \A id \in Ids : s.act[id] = "active" => id \in a.tracker.active \union a.tracker.closed
<1>. DEFINE ended == {id \in Ids : s.act[id] \in Terminal}
            live == {id \in Ids : s.act[id] = "active"}
            unknown == ended \ (t.closed \union t.active)
            told == {id \in ended \cap t.active : TerminalOutcome(s, id) # None} \ t.closed
            first == [t EXCEPT !.initialized = TRUE, !.closed = @ \union ended,
                               !.active = (@ \ ended) \union (live \ t.closed)]
            next == [t EXCEPT !.closed = @ \union unknown \union told,
                              !.active = (@ \union (live \ t.closed)) \ told]
<1>1. Activity(t, s) = IF ~t.initialized THEN [tracker |-> first, told |-> {}]
                                         ELSE [tracker |-> next, told |-> told]
  BY DEF Activity
<1>2. /\ first \in TrackerState /\ first.generation = t.generation
      /\ first.closed = t.closed \union ended /\ first.active = (t.active \ ended) \union (live \ t.closed)
  BY DEF TrackerState
<1>3. /\ next \in TrackerState /\ next.generation = t.generation
      /\ next.closed = t.closed \union unknown \union told
      /\ next.active = (t.active \union (live \ t.closed)) \ told
  BY DEF TrackerState
<1>4. \A id \in told : TerminalOutcome(s, id) \in Outcomes
  BY DEF TerminalOutcome, Outcomes, Terminal
<1>5. live \cap told = {} /\ live \subseteq Ids /\ told \subseteq Ids
  BY DEF Terminal
<1>6. CASE ~t.initialized
  <2>1. Activity(t, s).tracker = first /\ Activity(t, s).told = {}
    BY <1>1, <1>6
  <2>. HIDE DEF first
  <2>. QED
    BY <1>2, <2>1
<1>7. CASE t.initialized
  <2>1. Activity(t, s).tracker = next /\ Activity(t, s).told = told
    BY <1>1, <1>7
  <2>. HIDE DEF next
  <2>. QED
    BY <1>3, <1>4, <1>5, <2>1
<1>. QED
  BY <1>6, <1>7 DEF TrackerState

\* What is announced, listed.
News(t, s, told) == SetToSeq({Announcement(t, s, id) : id \in told})

\* A list of announcements has each action once, of this tracker and this state.
LEMMA NewsProperties ==
  ASSUME NEW t \in TrackerState, NEW s \in State, NEW told \in SUBSET Ids,
         \A id \in told : TerminalOutcome(s, id) \in Outcomes
  PROVE  LET news == News(t, s, told) IN
         /\ news \in Seq(Entries)
         /\ \A k \in DOMAIN news : news[k].generation = t.generation /\ news[k].gen = s.gen /\ news[k].id \in told
         /\ \A i, j \in DOMAIN news : news[i].id = news[j].id => i = j
<1>. DEFINE all == {Announcement(t, s, id) : id \in told}
<1>1. IsFiniteSet(told)
  BY TerminalAssumption, FS_Subset
<1>2. IsFiniteSet(all)
  <2>. DEFINE f == [id \in told |-> Announcement(t, s, id)]
  <2>1. f \in Surjection(told, all)
    BY DEF Surjection
  <2>. QED
    BY <1>1, <2>1, FS_Surjection, Zenon
<1>3. \A x \in all : /\ x \in Entries
                     /\ x.generation = t.generation /\ x.gen = s.gen /\ x.id \in told
                     /\ x = Announcement(t, s, x.id)
  BY DEF Announcement, Entries, TrackerState, State
<1>. HIDE DEF all
<1>4. /\ Cardinality(all) \in Nat /\ SetToSeq(all) \in Seq(all) /\ Len(SetToSeq(all)) = Cardinality(all)
      /\ \A n, m \in 1 .. Cardinality(all) : SetToSeq(all)[n] = SetToSeq(all)[m] => n = m
  BY <1>2, SetToSeqProperties
<1>5. \A k \in DOMAIN SetToSeq(all) : SetToSeq(all)[k] \in all
  BY <1>4
<1>6. SetToSeq(all) \in Seq(Entries)
  BY <1>3, <1>4
<1>7. ASSUME NEW i \in DOMAIN SetToSeq(all), NEW j \in DOMAIN SetToSeq(all),
             SetToSeq(all)[i].id = SetToSeq(all)[j].id
      PROVE  i = j
  <2>1. SetToSeq(all)[i] = SetToSeq(all)[j]
    BY <1>3, <1>5, <1>7
  <2>. QED
    BY <1>4, <2>1
<1>8. /\ SetToSeq(all) \in Seq(Entries)
      /\ \A k \in DOMAIN SetToSeq(all) : SetToSeq(all)[k].generation = t.generation
                                         /\ SetToSeq(all)[k].gen = s.gen /\ SetToSeq(all)[k].id \in told
      /\ \A i, j \in DOMAIN SetToSeq(all) : SetToSeq(all)[i].id = SetToSeq(all)[j].id => i = j
  BY <1>3, <1>5, <1>6, <1>7
<1>. QED
  BY <1>8 DEF all, News

\* What the effects leave of the diary, and what they add to it.
LEMMA EffectsProperties ==
  ASSUME NEW d, IsDiary(d), NEW s \in State
  PROVE  LET e == Effects(d, s) IN
         /\ IsDiary(e) /\ e.since = d.since /\ e.tracker.generation = d.tracker.generation
         /\ d.tracker.closed \subseteq e.tracker.closed
         /\ \A id \in e.tracker.closed \ d.tracker.closed : s.act[id] \in Terminal
         /\ \A id \in Ids : s.act[id] = "active" => id \in e.tracker.active \union e.tracker.closed
         /\ OwnKeys(d) => OwnKeys(e)
         /\ OwnKeys(d) /\ OwnWorkspaces(d) /\ s.gen >= d.since => OwnWorkspaces(e)
<1>. DEFINE a == Activity(d.tracker, s)
            news == News(d.tracker, s, a.told)
            e == Effects(d, s)
<1>1. d.tracker \in TrackerState /\ d.since \in Nat /\ d.said \in Seq(Entries)
  BY DEF IsDiary
<1>2. /\ a.tracker \in TrackerState /\ a.tracker.generation = d.tracker.generation
      /\ a.told \in SUBSET Ids /\ a.told \cap d.tracker.closed = {} /\ a.told \subseteq a.tracker.closed
      /\ \A id \in a.told : TerminalOutcome(s, id) \in Outcomes
      /\ d.tracker.closed \subseteq a.tracker.closed
      /\ \A id \in a.tracker.closed \ d.tracker.closed : s.act[id] \in Terminal
      /\ \A id \in Ids : s.act[id] = "active" => id \in a.tracker.active \union a.tracker.closed
  BY <1>1, ActivityProperties
<1>3. /\ e.tracker = a.tracker /\ e.since = d.since /\ e.said = d.said \o news
      /\ e = [tracker |-> e.tracker, since |-> e.since, said |-> e.said, seen |-> e.seen,
              pending |-> e.pending, shown |-> e.shown]
  BY DEF Effects, News
<1>. HIDE DEF a, e
<1>4. /\ news \in Seq(Entries)
      /\ \A k \in DOMAIN news : news[k].generation = d.tracker.generation /\ news[k].gen = s.gen /\ news[k].id \in a.told
      /\ \A i, j \in DOMAIN news : news[i].id = news[j].id => i = j
  BY <1>1, <1>2, NewsProperties
<1>. HIDE DEF news
<1>5. /\ e.said \in Seq(Entries)
      /\ Len(d.said) \in Nat /\ Len(news) \in Nat
      /\ DOMAIN d.said = 1 .. Len(d.said) /\ DOMAIN news = 1 .. Len(news)
      /\ DOMAIN e.said = 1 .. Len(d.said) + Len(news)
  BY <1>1, <1>3, <1>4
<1>6. \A k \in DOMAIN e.said : /\ k <= Len(d.said) => k \in DOMAIN d.said /\ e.said[k] = d.said[k]
                               /\ ~(k <= Len(d.said)) => /\ k - Len(d.said) \in DOMAIN news
                                                         /\ e.said[k] = news[k - Len(d.said)]
  BY <1>1, <1>3, <1>4, <1>5
<1>7. IsDiary(e)
  BY <1>1, <1>2, <1>3, <1>5 DEF IsDiary
<1>7a. \A k \in DOMAIN e.said : e.said[k] \in Entries
  BY <1>5
<1>7b. \A x \in Entries : x.generation \in Nat /\ x.gen \in Nat
  BY DEF Entries
<1>7c. e.tracker.generation \in Nat /\ e.tracker.generation = d.tracker.generation
  BY <1>2, <1>3 DEF TrackerState
<1>8. \A k \in DOMAIN e.said : /\ e.said[k].generation \in Nat /\ e.said[k].gen \in Nat
                               /\ e.tracker.generation \in Nat
  BY <1>7a, <1>7b, <1>7c
<1>9. ASSUME OwnKeys(d) PROVE OwnKeys(e)
  <2>1. ASSUME NEW k \in DOMAIN e.said
        PROVE  /\ e.said[k].generation <= e.tracker.generation
               /\ e.said[k].generation = e.tracker.generation => e.said[k].id \in e.tracker.closed
    <3>1. CASE k <= Len(d.said)
      BY <1>2, <1>3, <1>6, <1>7c, <1>9, <3>1 DEF OwnKeys
    <3>2. CASE ~(k <= Len(d.said))
      BY <1>2, <1>3, <1>4, <1>6, <1>7c, <1>8, <3>2
    <3>. QED
      BY <3>1, <3>2
  <2>2. ASSUME NEW i \in DOMAIN e.said, NEW j \in DOMAIN e.said,
               e.said[i].generation = e.said[j].generation, e.said[i].id = e.said[j].id
        PROVE  i = j
    <3>1. CASE i <= Len(d.said) /\ j <= Len(d.said)
      BY <1>6, <1>9, <2>2, <3>1 DEF OwnKeys
    <3>2. CASE ~(i <= Len(d.said)) /\ ~(j <= Len(d.said))
      <4>1. i - Len(d.said) = j - Len(d.said)
        BY <1>4, <1>6, <2>2, <3>2
      <4>. QED
        BY <1>5, <4>1
    <3>3. CASE i <= Len(d.said) /\ ~(j <= Len(d.said))
      BY <1>2, <1>4, <1>6, <1>9, <2>2, <3>3 DEF OwnKeys
    <3>4. CASE ~(i <= Len(d.said)) /\ j <= Len(d.said)
      BY <1>2, <1>4, <1>6, <1>9, <2>2, <3>4 DEF OwnKeys
    <3>. QED
      BY <3>1, <3>2, <3>3, <3>4
  <2>. QED
    BY <2>1, <2>2 DEF OwnKeys
<1>10. ASSUME OwnKeys(d), OwnWorkspaces(d), s.gen >= d.since PROVE OwnWorkspaces(e)
  <2>0. s.gen \in Nat /\ d.since \in Nat /\ d.tracker.generation \in Nat
    BY <1>1 DEF State, TrackerState
  <2>1. ASSUME NEW k \in DOMAIN e.said, e.said[k].generation < e.tracker.generation
        PROVE  e.said[k].gen < e.since
    <3>1. k <= Len(d.said)
      BY <1>2, <1>3, <1>4, <1>6, <2>0, <2>1
    <3>. QED
      BY <1>2, <1>3, <1>6, <1>10, <2>1, <3>1 DEF OwnWorkspaces
  <2>2. ASSUME NEW i \in DOMAIN d.said, NEW j \in DOMAIN news, d.said[i].gen = news[j].gen, d.said[i].id = news[j].id
        PROVE  FALSE
    <3>1. d.said[i].gen >= d.since /\ d.said[i].gen \in Nat
      BY <1>4, <1>10, <2>0, <2>2
    <3>2. ~(d.said[i].generation < d.tracker.generation)
      BY <1>10, <2>0, <3>1 DEF OwnWorkspaces
    <3>3. d.said[i].generation <= d.tracker.generation /\ d.said[i].generation \in Nat
      <4>1. d.said[i] \in Entries
        BY <1>1
      <4>. QED
        BY <1>7b, <1>10, <4>1 DEF OwnKeys
    <3>4. d.said[i].generation = d.tracker.generation
      BY <2>0, <3>2, <3>3
    <3>5. d.said[i].id \in d.tracker.closed
      BY <1>10, <3>4 DEF OwnKeys
    <3>. QED
      BY <1>2, <1>4, <2>2, <3>5
  <2>3. ASSUME NEW i \in DOMAIN e.said, NEW j \in DOMAIN e.said,
               e.said[i].gen = e.said[j].gen, e.said[i].id = e.said[j].id
        PROVE  i = j
    <3>1. CASE i <= Len(d.said) /\ j <= Len(d.said)
      BY <1>6, <1>10, <2>3, <3>1 DEF OwnWorkspaces
    <3>2. CASE ~(i <= Len(d.said)) /\ ~(j <= Len(d.said))
      <4>1. i - Len(d.said) = j - Len(d.said)
        BY <1>4, <1>6, <2>3, <3>2
      <4>. QED
        BY <1>5, <4>1
    <3>3. CASE i <= Len(d.said) /\ ~(j <= Len(d.said))
      BY <1>6, <2>2, <2>3, <3>3
    <3>4. CASE ~(i <= Len(d.said)) /\ j <= Len(d.said)
      BY <1>6, <2>2, <2>3, <3>4
    <3>. QED
      BY <3>1, <3>2, <3>3, <3>4
  <2>. QED
    BY <2>1, <2>3 DEF OwnWorkspaces
<1>11. /\ IsDiary(e) /\ e.since = d.since /\ e.tracker.generation = d.tracker.generation
       /\ d.tracker.closed \subseteq e.tracker.closed
       /\ \A id \in e.tracker.closed \ d.tracker.closed : s.act[id] \in Terminal
       /\ \A id \in Ids : s.act[id] = "active" => id \in e.tracker.active \union e.tracker.closed
  BY <1>2, <1>3, <1>7
<1>. QED
  BY <1>9, <1>10, <1>11 DEF e

\* What is said here changes nothing but what the transcript waits for.
LEMMA LocalProperties ==
  ASSUME NEW d, IsDiary(d), NEW role, NEW said
  PROVE  LET e == Local(d, role, said) IN
         IsDiary(e) /\ e.tracker = d.tracker /\ e.since = d.since /\ e.said = d.said
<1>. DEFINE e == Local(d, role, said)
            full == [tracker |-> d.tracker, since |-> d.since, said |-> d.said, seen |-> d.seen,
                     pending |-> d.pending, shown |-> d.shown]
<1>1. d = full
  BY DEF IsDiary
<1>2. DOMAIN d = {"tracker", "since", "said", "seen", "pending", "shown"}
  BY <1>1
<1>. HIDE DEF full
<1>3. /\ e.tracker = d.tracker /\ e.since = d.since /\ e.said = d.said /\ e.seen = d.seen
      /\ DOMAIN e = DOMAIN d
      /\ e = [x \in DOMAIN e |-> e[x]]
  BY <1>2 DEF Local
<1>. HIDE DEF e
<1>4. e = [tracker |-> e.tracker, since |-> e.since, said |-> e.said, seen |-> e.seen,
           pending |-> e.pending, shown |-> e.shown]
  BY <1>2, <1>3
<1>5. IsDiary(e)
  BY <1>3, <1>4 DEF IsDiary
<1>. QED
  BY <1>3, <1>5 DEF e

\* A reset's answer starts the tracker anew.
LEMMA ResetProperties ==
  ASSUME NEW d, IsDiary(d), NEW g \in Nat
  PROVE  LET e == [d EXCEPT !.tracker = ResetTracker(@), !.since = g] IN
         /\ IsDiary(e) /\ e.since = g /\ e.said = d.said
         /\ e.tracker.generation = d.tracker.generation + 1
         /\ e.tracker.initialized = FALSE /\ e.tracker.active = {} /\ e.tracker.closed = {}
<1>. DEFINE e == [d EXCEPT !.tracker = ResetTracker(@), !.since = g]
            t == ResetTracker(d.tracker)
<1>1. DOMAIN d = {"tracker", "since", "said", "seen", "pending", "shown"} /\ d.tracker.generation \in Nat
  BY DEF IsDiary, TrackerState
<1>2. /\ t.generation = d.tracker.generation + 1 /\ t.initialized = FALSE /\ t.active = {} /\ t.closed = {}
      /\ t \in TrackerState
  <2>1. /\ Tracker \in TrackerState
        /\ Tracker.initialized = FALSE /\ Tracker.active = {} /\ Tracker.closed = {}
    BY DEF Tracker, TrackerState
  <2>2. t = [Tracker EXCEPT !.generation = d.tracker.generation + 1]
    BY DEF ResetTracker
  <2>. HIDE DEF t
  <2>. QED
    BY <1>1, <2>1, <2>2 DEF TrackerState
<1>. HIDE DEF t
<1>3. /\ e.tracker = t /\ e.since = g /\ e.said = d.said
      /\ DOMAIN e = DOMAIN d
      /\ e = [x \in DOMAIN e |-> e[x]]
  BY <1>1 DEF t
<1>. HIDE DEF e
<1>4. e = [tracker |-> e.tracker, since |-> e.since, said |-> e.said, seen |-> e.seen,
           pending |-> e.pending, shown |-> e.shown]
  BY <1>1, <1>3
<1>5. IsDiary(e)
  BY <1>2, <1>3, <1>4 DEF IsDiary
<1>. QED
  BY <1>2, <1>3, <1>5 DEF e

----------------------------------------------------------------------------
(* Types, and what is past. *)

\* The server's state goes on: what has ended stays so, until the workspace is emptied.
Grows ==
    /\ srv' \in State
    /\ \/ srv'.gen = srv.gen /\ \A a \in Ids : srv.act[a] \in Terminal => srv'.act[a] \in Terminal
       \/ srv'.gen > srv.gen

\* An action moves on, and not back from its end.
LEMMA ActGrows ==
  ASSUME TermTyped, NEW a \in Ids, NEW to \in Statuses, srv.act[a] \notin Terminal \/ to \in Terminal,
         srv' = [srv EXCEPT !.act[a] = to]
  PROVE  Grows /\ srv'.gen = srv.gen
<1>1. srv \in State /\ srv.act \in [Ids -> Statuses]
  BY DEF TermTyped, State
<1>2. srv' \in State /\ srv'.gen = srv.gen /\ srv'.act = [srv.act EXCEPT ![a] = to]
  BY <1>1 DEF State
<1>3. \A b \in Ids : srv'.act[b] = IF b = a THEN to ELSE srv.act[b]
  BY <1>1, <1>2
<1>. QED
  BY <1>2, <1>3 DEF Grows

\* What the server does on its own is such a step.
LEMMA ServerGrows ==
  ASSUME TermTyped
  PROVE  /\ \A a \in Ids : ActionMoves(a) => Grows /\ srv'.gen = srv.gen
         /\ ResetElsewhere \/ ChatElsewhere => Grows
         /\ \A c \in ChatTurns : ChatHeard(c) \/ ChatReplied(c) => Grows /\ srv'.gen = srv.gen
         /\ ChatElsewhere => srv'.gen = srv.gen
<1>0. srv \in State
  BY DEF TermTyped
<1>1. /\ srv.gen \in Nat /\ srv.act \in [Ids -> Statuses] /\ srv.chat \in Seq(Messages)
      /\ \A a \in Ids : srv.act[a] \in Statuses
  BY <1>0 DEF State
<1>2. Emptied \in State /\ Emptied.gen > srv.gen
  BY <1>1 DEF Emptied, State, Statuses
<1>3. ASSUME NEW a \in Ids, NEW to \in Statuses, srv.act[a] \notin Terminal \/ to \in Terminal,
             srv' = [srv EXCEPT !.act[a] = to]
      PROVE  Grows /\ srv'.gen = srv.gen
  BY <1>3, ActGrows
<1>4. ASSUME NEW role \in Roles, NEW of \in DOMAIN TextOf, Says(role, of)
      PROVE  Grows /\ srv'.gen = srv.gen
  <2>1. TextOf[of] \in Texts
    BY DEF Texts
  <2>2. Message(role, of) \in Messages
    BY <1>1, <2>1 DEF Message, Messages
  <2>3. Append(srv.chat, Message(role, of)) \in Seq(Messages)
    BY <1>1, <2>2
  <2>4. srv' = [srv EXCEPT !.chat = Append(srv.chat, Message(role, of))]
    BY <1>4 DEF Says
  <2>5. srv' \in State /\ srv'.gen = srv.gen /\ srv'.act = srv.act
    BY <1>0, <2>3, <2>4 DEF State
  <2>. QED
    BY <2>5 DEF Grows
<1>5. ASSUME NEW a \in Ids, ActionMoves(a) PROVE Grows /\ srv'.gen = srv.gen
  <2>1. PICK to \in Moves[srv.act[a]] : srv' = [srv EXCEPT !.act[a] = to]
    BY <1>5 DEF ActionMoves
  <2>2. to \in Statuses /\ (srv.act[a] \notin Terminal \/ to \in Terminal)
    BY <1>1, <2>1 DEF Moves, Statuses, Terminal
  <2>. QED
    BY <1>3, <2>1, <2>2
<1>6. ASSUME ResetElsewhere PROVE Grows
  BY <1>2, <1>6 DEF ResetElsewhere, Grows
<1>7. ASSUME ChatElsewhere PROVE Grows /\ srv'.gen = srv.gen
  BY <1>4, <1>7, TerminalAssumption DEF ChatElsewhere, Roles
<1>8. ASSUME NEW c \in ChatTurns, ChatHeard(c) \/ ChatReplied(c) PROVE Grows /\ srv'.gen = srv.gen
  BY <1>4, <1>8, TerminalAssumption DEF ChatHeard, ChatReplied, Roles
<1>. QED
  BY <1>5, <1>6, <1>7, <1>8

\* So is what it does for a request; of these only a reset empties the workspace.
LEMMA EffectGrows ==
  ASSUME TermTyped, NEW op \in Commands, srv' \in Effect(op)
  PROVE  Grows /\ (op # "reset" => srv'.gen = srv.gen) /\ (op = "reset" => srv'.gen > srv.gen)
<1>0. srv \in State
  BY DEF TermTyped
<1>1. /\ srv.gen \in Nat /\ srv.act \in [Ids -> Statuses] /\ srv.chat \in Seq(Messages)
      /\ \A a \in Ids : srv.act[a] \in Statuses
  BY <1>0 DEF State
<1>2. Emptied \in State /\ Emptied.gen > srv.gen
  BY <1>1 DEF Emptied, State, Statuses
<1>3. ASSUME NEW a \in Ids, NEW to \in Statuses, srv.act[a] \notin Terminal \/ to \in Terminal,
             srv' = [srv EXCEPT !.act[a] = to]
      PROVE  Grows /\ srv'.gen = srv.gen
  BY <1>3, ActGrows
<1>4. CASE op = "reset"
  BY <1>2, <1>4 DEF Effect, Grows
<1>5. CASE op = "task"
  <2>1. PICK a \in Ids : srv.act[a] = "none" /\ srv' = [srv EXCEPT !.act[a] = "active"]
    BY <1>5 DEF Effect
  <2>. QED
    BY <1>3, <1>5, <2>1 DEF Statuses, Terminal
<1>6. CASE op = "reject"
  <2>1. PICK a \in Ids : srv.act[a] = "active" /\ srv' = [srv EXCEPT !.act[a] = "rejected"]
    BY <1>6 DEF Effect
  <2>. QED
    BY <1>3, <1>6, <2>1 DEF Statuses, Terminal
<1>7. CASE op \notin {"reset", "task", "reject"}
  BY <1>0, <1>7 DEF Effect, Grows
<1>. QED
  BY <1>4, <1>5, <1>6, <1>7

NowPast(s) ==
    /\ s.gen <= srv'.gen
    /\ s.gen = srv'.gen => \A a \in Ids : s.act[a] \in Terminal => srv'.act[a] \in Terminal

\* What is past stays past.
LEMMA PastStays ==
  ASSUME srv \in State, Grows \/ srv' = srv
  PROVE  /\ \A s \in State : Past(s) => NowPast(s)
         /\ NowPast(srv')
<1>1. srv' \in State
  BY DEF Grows
<1>2. srv.gen \in Nat /\ srv'.gen \in Nat /\ \A s \in State : s.gen \in Nat
  BY <1>1 DEF State
<1>3. ASSUME NEW s \in State, Past(s) PROVE NowPast(s)
  BY <1>2, <1>3 DEF Past, NowPast, Grows
<1>. QED
  BY <1>2, <1>3 DEF NowPast

Carried == \A k \in DOMAIN reads' : reads'[k].got # None => \E j \in DOMAIN reads : reads'[k] = reads[j]

\* A request that is sent has no answer yet, and the others stay.
LEMMA ReadsSent ==
  ASSUME reads \in Seq(RequestState), NEW op \in Commands, reads' = Append(reads, Get(op))
  PROVE  /\ reads' \in Seq(RequestState) /\ Carried
         /\ \A j \in DOMAIN reads : \E k \in DOMAIN reads' : reads'[k] = reads[j]
<1>1. Get(op) \in RequestState /\ Get(op).got = None
  BY DEF Get, RequestState
<1>2. /\ reads' \in Seq(RequestState)
      /\ DOMAIN reads' = DOMAIN reads \union {Len(reads) + 1}
      /\ \A k \in DOMAIN reads : reads'[k] = reads[k]
      /\ reads'[Len(reads) + 1] = Get(op)
  BY <1>1, AppendProperties
<1>. QED
  BY <1>1, <1>2 DEF Carried

\* So do they when one is removed.
LEMMA ReadsGone ==
  ASSUME reads \in Seq(RequestState), NEW i \in DOMAIN reads, reads' = RemoveAt(reads, i)
  PROVE  /\ reads' \in Seq(RequestState) /\ Carried
         /\ \A j \in DOMAIN reads \ {i} : \E k \in DOMAIN reads' : reads'[k] = reads[j]
<1>1. /\ reads' \in Seq(RequestState)
      /\ \A k \in DOMAIN reads' : Before(i, k) \in DOMAIN reads \ {i} /\ reads'[k] = reads[Before(i, k)]
  BY RemoveAtProperties
<1>2. \A j \in DOMAIN reads \ {i} : \E k \in DOMAIN reads' : reads'[k] = reads[j]
  BY RemoveAtKeeps
<1>. QED
  BY <1>1, <1>2 DEF Carried

\* Serving a request gives it an answer, and changes no other.
LEMMA ReadsServed ==
  ASSUME reads \in Seq(RequestState), srv' \in State, NEW i \in DOMAIN reads,
         reads' = [reads EXCEPT ![i].got = srv']
  PROVE  /\ reads' \in Seq(RequestState) /\ DOMAIN reads' = DOMAIN reads
         /\ \A k \in DOMAIN reads \ {i} : reads'[k] = reads[k]
         /\ reads'[i].op = reads[i].op /\ reads'[i].got = srv'
<1>. DEFINE r == [reads[i] EXCEPT !.got = srv']
<1>1. reads[i] \in RequestState
  OBVIOUS
<1>2. r \in RequestState /\ r.op = reads[i].op /\ r.got = srv'
  BY <1>1 DEF RequestState
<1>3. reads' = [reads EXCEPT ![i] = r]
  OBVIOUS
<1>. HIDE DEF r
<1>. QED
  BY <1>2, <1>3, UpdateProperties

\* Whatever is shown, whichever of the two forms what the effects start from has.
LEMMA ApplyTyped ==
  ASSUME TermTyped, NEW s \in State, NEW d, IsDiary(d), Apply(s, d)
  PROVE  /\ screen' = s /\ rendered' = FALSE /\ IsDiary(diary') /\ diary'.since = d.since
         /\ missed \subseteq missed'
<1>1. ~rendered => screen \in State
  BY DEF TermTyped
<1>2. IsDiary(Flushed(d)) /\ Flushed(d).since = d.since
  BY <1>1, EffectsProperties DEF Flushed
<1>. QED
  BY <1>2 DEF Apply

\* The diary that an answer, or the end of a chat, starts from.
LEMMA StartTyped ==
  ASSUME TermTyped
  PROVE  /\ IsDiary(diary)
         /\ \A g \in Nat : IsDiary([diary EXCEPT !.tracker = ResetTracker(@), !.since = g])
         /\ \A role, said : IsDiary(Local(diary, role, said))
<1>1. IsDiary(diary)
  BY DEF TermTyped
<1>2. ASSUME NEW g \in Nat PROVE IsDiary([diary EXCEPT !.tracker = ResetTracker(@), !.since = g])
  BY <1>1, ResetProperties
<1>3. ASSUME NEW role, NEW said PROVE IsDiary(Local(diary, role, said))
  BY <1>1, LocalProperties
<1>. QED
  BY <1>1, <1>2, <1>3

\* The diary that the answer of a request starts from.
Start(i) == IF reads[i].op = "reset"
            THEN [diary EXCEPT !.tracker = ResetTracker(@), !.since = reads[i].got.gen] ELSE diary

\* An answer applies a state of the server to such a diary.
LEMMA AnswerApplies ==
  ASSUME TermTyped, NEW i \in DOMAIN reads, ReadAnswered(i)
  PROVE  /\ reads[i].got \in State /\ reads[i].got # None /\ IsDiary(Start(i)) /\ Apply(reads[i].got, Start(i))
         /\ reads' = RemoveAt(reads, i) /\ UNCHANGED <<srv, talk, left>>
<1>1. reads[i] \in RequestState /\ reads[i].got # None
  BY DEF TermTyped, ReadAnswered
<1>2. reads[i].got \in State /\ (reads[i].got).gen \in Nat
  BY <1>1 DEF RequestState, State
<1>3. IsDiary(Start(i))
  BY <1>2, StartTyped DEF Start
<1>. QED
  BY <1>1, <1>2, <1>3 DEF ReadAnswered, Start

\* What an answered request, or a chat that is done, leaves of the types.
LEMMA ShownTyped ==
  ASSUME TermTyped, AllPast, NEW s \in State, Past(s), NEW d, IsDiary(d), Apply(s, d), srv' = srv,
         reads' \in Seq(RequestState), Carried,
         talk' \in [ChatTurns -> TalkState],
         \A c \in ChatTurns : talk'[c].at = "replied" => talk'[c] = talk[c]
  PROVE  TermTyped' /\ AllPast'
<1>1. screen' = s /\ rendered' = FALSE /\ IsDiary(diary')
  BY ApplyTyped
<1>2. s # None => Past(s)
  OBVIOUS
<1>2a. srv \in State /\ srv' \in State /\ \A c \in ChatTurns : talk'[c].at = "replied" => talk'[c].frame \in State
  BY DEF TermTyped
<1>3. TermTyped'
  BY <1>1, <1>2a DEF TermTyped
<1>4. \A x \in State : Past(x) => NowPast(x)
  BY PastStays DEF TermTyped
<1>5. screen' # None => NowPast(screen')
  BY <1>1, <1>4
<1>6. ASSUME NEW k \in DOMAIN reads', reads'[k].got # None PROVE NowPast(reads'[k].got)
  <2>1. PICK j \in DOMAIN reads : reads'[k] = reads[j]
    BY <1>6 DEF Carried
  <2>2. reads[j] \in RequestState /\ reads[j].got # None
    BY <1>6, <2>1 DEF TermTyped
  <2>3. reads[j].got \in State /\ Past(reads[j].got)
    BY <2>2 DEF RequestState, AllPast
  <2>. QED
    BY <1>4, <2>1, <2>3
<1>7. ASSUME NEW c \in ChatTurns, talk'[c].at = "replied" PROVE NowPast(talk'[c].frame)
  BY <1>4, <1>7 DEF TermTyped, AllPast
<1>. QED
  BY <1>3, <1>5, <1>6, <1>7 DEF AllPast, Past, NowPast

\* A step that shows nothing new.
LEMMA UnshownTyped ==
  ASSUME TermTyped, AllPast, screen' = screen, rendered' \in BOOLEAN, rendered => rendered', IsDiary(diary'),
         Grows \/ srv' = srv,
         reads' \in Seq(RequestState),
         \A k \in DOMAIN reads' : \/ reads'[k].got \in {None, srv'}
                                  \/ \E j \in DOMAIN reads : reads'[k] = reads[j],
         talk' \in [ChatTurns -> TalkState],
         \A c \in ChatTurns : talk'[c].at = "replied" => talk'[c] = talk[c] \/ talk'[c].frame = srv'
  PROVE  TermTyped' /\ AllPast'
<1>1. srv \in State /\ srv' \in State
  BY DEF TermTyped, Grows
<1>2. TermTyped'
  BY <1>1 DEF TermTyped
<1>3. (\A x \in State : Past(x) => NowPast(x)) /\ NowPast(srv')
  BY <1>1, PastStays
<1>4. screen' # None => NowPast(screen')
  BY <1>3 DEF TermTyped, AllPast
<1>5. ASSUME NEW k \in DOMAIN reads', reads'[k].got # None PROVE NowPast(reads'[k].got)
  <2>1. CASE reads'[k].got = srv'
    BY <1>3, <2>1
  <2>2. CASE \E j \in DOMAIN reads : reads'[k] = reads[j]
    <3>1. PICK j \in DOMAIN reads : reads'[k] = reads[j]
      BY <2>2
    <3>2. reads[j] \in RequestState /\ reads[j].got # None
      BY <1>5, <3>1 DEF TermTyped
    <3>3. reads[j].got \in State /\ Past(reads[j].got)
      BY <3>2 DEF RequestState, AllPast
    <3>. QED
      BY <1>3, <3>1, <3>3
  <2>. QED
    BY <1>5, <2>1, <2>2
<1>6. ASSUME NEW c \in ChatTurns, talk'[c].at = "replied" PROVE NowPast(talk'[c].frame)
  BY <1>3, <1>6 DEF TermTyped, AllPast
<1>. QED
  BY <1>2, <1>4, <1>5, <1>6 DEF AllPast, Past, NowPast

\* Every step keeps the types, and what is past.
LEMMA TypedStep ==
  ASSUME TermTyped, AllPast, [TermNext]_<<termVars, left>>
  PROVE  TermTyped' /\ AllPast'
<1>. DEFINE SameReads == reads' = reads
            SameTalk == talk' = talk
<1>1. /\ srv \in State /\ IsDiary(diary) /\ rendered \in BOOLEAN
      /\ reads \in Seq(RequestState) /\ talk \in [ChatTurns -> TalkState]
  BY DEF TermTyped
<1>2. ASSUME Grows \/ srv' = srv, UNCHANGED <<screen, rendered, diary, reads, talk>>
      PROVE  TermTyped' /\ AllPast'
  BY <1>1, <1>2, UnshownTyped
<1>3. ASSUME NEW a \in Ids, ActionMoves(a) PROVE TermTyped' /\ AllPast'
  BY <1>1, <1>2, <1>3, ServerGrows DEF ActionMoves
<1>4. ASSUME ResetElsewhere \/ ChatElsewhere PROVE TermTyped' /\ AllPast'
  BY <1>1, <1>2, <1>4, ServerGrows DEF ResetElsewhere, ChatElsewhere
<1>5. ASSUME RunEffects PROVE TermTyped' /\ AllPast'
  <2>1. screen \in State /\ IsDiary(Effects(diary, screen))
    BY <1>1, <1>5, EffectsProperties DEF TermTyped, RunEffects
  <2>. QED
    BY <1>1, <1>5, <2>1, UnshownTyped DEF RunEffects
<1>6. ASSUME NEW op \in Commands, reads' = Append(reads, Get(op)), UNCHANGED <<srv, screen, rendered, diary, talk>>
      PROVE  TermTyped' /\ AllPast'
  <2>1. reads' \in Seq(RequestState) /\ Carried
    BY <1>1, <1>6, ReadsSent
  <2>. QED
    BY <1>1, <1>6, <2>1, UnshownTyped DEF Carried
<1>7. ASSUME Poll \/ EventArrives \/ \E op \in Commands : HandleSubmit(op) PROVE TermTyped' /\ AllPast'
  BY <1>6, <1>7 DEF Poll, EventArrives, HandleSubmit, Refresh, Commands
<1>8. ASSUME StreamCloses PROVE TermTyped' /\ AllPast'
  BY <1>2, <1>8 DEF StreamCloses
<1>9. ASSUME NEW i \in DOMAIN reads, ReadServed(i) PROVE TermTyped' /\ AllPast'
  <2>0. reads[i] \in RequestState
    BY <1>1
  <2>1. reads[i].op \in Commands /\ srv' \in Effect(reads[i].op)
    BY <1>9, <2>0 DEF RequestState, ReadServed
  <2>2. PICK op \in Commands : srv' \in Effect(op)
    BY <2>1
  <2>2a. Grows
    BY <2>2, EffectGrows
  <2>3. /\ reads' \in Seq(RequestState) /\ DOMAIN reads' = DOMAIN reads
        /\ \A k \in DOMAIN reads \ {i} : reads'[k] = reads[k]
        /\ reads'[i].op = reads[i].op /\ reads'[i].got = srv'
    BY <1>1, <1>9, <2>2a, ReadsServed DEF ReadServed, Grows
  <2>4. UNCHANGED <<screen, rendered, diary, talk>>
    BY <1>9 DEF ReadServed
  <2>. QED
    BY <1>1, <2>2a, <2>3, <2>4, UnshownTyped
<1>10. ASSUME NEW i \in DOMAIN reads, ReadRefused(i) \/ ReadFails(i) PROVE TermTyped' /\ AllPast'
  <2>1. reads' = RemoveAt(reads, i) /\ UNCHANGED <<srv, screen, rendered, diary, talk>>
    BY <1>10 DEF ReadRefused, ReadFails
  <2>2. reads' \in Seq(RequestState) /\ Carried
    BY <1>1, <2>1, ReadsGone
  <2>. QED
    BY <1>1, <2>1, <2>2, UnshownTyped DEF Carried
<1>11. ASSUME NEW i \in DOMAIN reads, ReadAnswered(i) PROVE TermTyped' /\ AllPast'
  <2>1. /\ reads[i].got \in State /\ reads[i].got # None /\ IsDiary(Start(i)) /\ Apply(reads[i].got, Start(i))
        /\ reads' = RemoveAt(reads, i) /\ UNCHANGED <<srv, talk>>
    BY <1>11, AnswerApplies
  <2>2. Past(reads[i].got)
    BY <2>1 DEF AllPast
  <2>3. reads' \in Seq(RequestState) /\ Carried
    BY <1>1, <2>1, ReadsGone
  <2>. QED
    BY <1>1, <2>1, <2>2, <2>3, ShownTyped
<1>12. ASSUME NEW c \in ChatTurns, RunChat(c) PROVE TermTyped' /\ AllPast'
  <2>1. IsDiary(diary')
    BY <1>1, <1>12, LocalProperties DEF RunChat
  <2>2. talk' = [talk EXCEPT ![c].at = "sent"] /\ UNCHANGED <<srv, reads, screen, rendered>>
    BY <1>12 DEF RunChat
  <2>3. talk' \in [ChatTurns -> TalkState] /\ \A b \in ChatTurns : talk'[b].at = "replied" => talk'[b] = talk[b]
    BY <1>1, <2>2 DEF TalkState
  <2>. QED
    BY <1>1, <2>1, <2>2, <2>3, UnshownTyped
<1>13. ASSUME NEW c \in ChatTurns, ChatHeard(c) PROVE TermTyped' /\ AllPast'
  <2>1. Grows
    BY <1>13, ServerGrows
  <2>2. talk' = [talk EXCEPT ![c].at = "heard"] /\ UNCHANGED <<reads, screen, rendered, diary>>
    BY <1>13 DEF ChatHeard
  <2>3. talk' \in [ChatTurns -> TalkState] /\ \A b \in ChatTurns : talk'[b].at = "replied" => talk'[b] = talk[b]
    BY <1>1, <2>2 DEF TalkState
  <2>. QED
    BY <1>1, <2>1, <2>2, <2>3, UnshownTyped
<1>14. ASSUME NEW c \in ChatTurns, ChatReplied(c) PROVE TermTyped' /\ AllPast'
  <2>1. Grows /\ srv' \in State
    BY <1>14, ServerGrows DEF Grows
  <2>2. talk' = [talk EXCEPT ![c] = [at |-> "replied", frame |-> srv']] /\ UNCHANGED <<reads, screen, rendered, diary>>
    BY <1>14 DEF ChatReplied
  <2>3. talk' \in [ChatTurns -> TalkState] /\ \A b \in ChatTurns : talk'[b] = talk[b] \/ talk'[b].frame = srv'
    BY <1>1, <2>1, <2>2 DEF TalkState
  <2>. QED
    BY <1>1, <2>1, <2>2, <2>3, UnshownTyped
<1>15. ASSUME NEW c \in ChatTurns, ChatDone(c) PROVE TermTyped' /\ AllPast'
  <2>1. /\ talk[c].frame \in State /\ Past(talk[c].frame)
    BY <1>15 DEF ChatDone, TermTyped, AllPast
  <2>2. IsDiary(Local(diary, "assistant", TextOf[c]))
    BY <1>1, LocalProperties
  <2>3. /\ talk' = [talk EXCEPT ![c] = [at |-> "over", frame |-> None]] /\ UNCHANGED <<srv, reads>>
        /\ Apply(talk[c].frame, Local(diary, "assistant", TextOf[c]))
    BY <1>15 DEF ChatDone
  <2>4. talk' \in [ChatTurns -> TalkState] /\ \A b \in ChatTurns : talk'[b].at = "replied" => talk'[b] = talk[b]
    BY <1>1, <2>3 DEF TalkState
  <2>. QED
    BY <1>1, <2>1, <2>2, <2>3, <2>4, ShownTyped DEF Carried
<1>16. ASSUME NEW c \in ChatTurns, ChatFails(c) PROVE TermTyped' /\ AllPast'
  <2>1. talk' = [talk EXCEPT ![c] = [at |-> "over", frame |-> None]] /\ UNCHANGED <<srv, reads, screen, rendered, diary>>
    BY <1>16 DEF ChatFails
  <2>2. talk' \in [ChatTurns -> TalkState] /\ \A b \in ChatTurns : talk'[b].at = "replied" => talk'[b] = talk[b]
    BY <1>1, <2>1 DEF TalkState
  <2>. QED
    BY <1>1, <2>1, <2>2, UnshownTyped
<1>17. CASE UNCHANGED <<termVars, left>>
  BY <1>2, <1>17 DEF termVars
<1>. QED
  BY <1>3, <1>4, <1>5, <1>7, <1>8, <1>9, <1>10, <1>11, <1>12, <1>13, <1>14, <1>15, <1>16, <1>17 DEF TermNext

----------------------------------------------------------------------------
(* An outcome is announced once. *)

\* The diary that an answer starts from keeps the entries: under an earlier tracker, if it is a
\* reset's.
LEMMA StartKeeps ==
  ASSUME TermTyped, OwnKeys(diary), NEW i \in DOMAIN reads, ReadAnswered(i)
  PROVE  /\ Start(i).said = diary.said /\ OwnKeys(Start(i))
         /\ reads[i].op # "reset" => Start(i) = diary
         /\ reads[i].op = "reset" => Start(i).since = reads[i].got.gen /\ Start(i).tracker.closed = {}
<1>1. IsDiary(diary) /\ reads[i].got \in State
  BY AnswerApplies DEF TermTyped
<1>2. CASE reads[i].op # "reset"
  BY <1>2 DEF Start
<1>3. CASE reads[i].op = "reset"
  <2>. DEFINE g == reads[i].got.gen
              d == [diary EXCEPT !.tracker = ResetTracker(@), !.since = g]
  <2>1. Start(i) = d /\ g \in Nat
    BY <1>1, <1>3 DEF Start, State
  <2>. HIDE DEF g
  <2>2. /\ d.since = g /\ d.said = diary.said /\ d.tracker.closed = {}
        /\ d.tracker.generation = diary.tracker.generation + 1
    BY <1>1, <2>1, ResetProperties
  <2>. HIDE DEF d
  <2>3. diary.tracker.generation \in Nat /\ \A k \in DOMAIN diary.said : diary.said[k] \in Entries
    BY <1>1 DEF IsDiary, TrackerState
  <2>4. \A k \in DOMAIN diary.said : diary.said[k].generation \in Nat
    BY <2>3 DEF Entries
  <2>5. OwnKeys(d)
    BY <2>2, <2>3, <2>4 DEF OwnKeys
  <2>. QED
    BY <1>3, <2>1, <2>2, <2>5 DEF g
<1>. QED
  BY <1>2, <1>3

\* Whatever is shown, nothing is announced twice.
LEMMA ApplyKeeps ==
  ASSUME AnnouncedInv, NEW s \in State, NEW d, IsDiary(d), OwnKeys(d), d.said = diary.said,
         d.since \in {diary.since, s.gen}, Apply(s, d)
  PROVE  OwnKeys(diary') /\ ScreenInTime' /\ SaidInTime'
<1>1. TermTyped /\ screen' = s /\ diary'.since = d.since /\ missed \subseteq missed'
  BY ApplyTyped DEF AnnouncedInv
<1>2. /\ d.tracker.generation \in Nat /\ d.since \in Nat /\ diary.since \in Nat /\ s.gen \in Nat
      /\ \A k \in DOMAIN d.said : d.said[k] \in Entries
      /\ ~rendered => screen \in State
  BY <1>1 DEF IsDiary, TrackerState, TermTyped, State
<1>3. /\ \A k \in DOMAIN d.said : d.said[k].gen \in Nat /\ d.said[k].generation \in Nat
      /\ ~rendered => screen.gen \in Nat
  BY <1>2 DEF Entries, State
<1>4. diary' = IF rendered THEN d ELSE Effects(d, screen)
  BY DEF Apply, Flushed
<1>5. OwnKeys(diary')
  BY <1>2, <1>4, EffectsProperties
<1>6. ASSUME InTime' PROVE InTime /\ s.gen >= diary.since /\ (~rendered => screen.gen >= d.since)
  <2>1. ~Older(s, d)
    BY <1>6 DEF InTime, Apply
  <2>. QED
    BY <1>1, <1>2, <1>3, <1>6, <2>1 DEF Older, InTime
<1>7. ScreenInTime'
  BY <1>1, <1>2, <1>6 DEF ScreenInTime
<1>8. ASSUME InTime', "ahead" \notin missed' PROVE OwnWorkspaces(diary')
  <2>1. OwnWorkspaces(diary)
    BY <1>1, <1>6, <1>8 DEF AnnouncedInv, SaidInTime
  <2>2. ~Ahead(d)
    BY <1>8 DEF Apply
  <2>3. \A k \in DOMAIN d.said : d.said[k].generation < d.tracker.generation => d.said[k].gen < d.since
    BY <1>2, <1>3, <2>2 DEF Ahead
  <2>4. OwnWorkspaces(d)
    BY <2>1, <2>3 DEF OwnWorkspaces
  <2>. QED
    BY <1>2, <1>4, <1>6, <1>8, <2>4, EffectsProperties
<1>. QED
  BY <1>5, <1>7, <1>8 DEF SaidInTime

\* Every step keeps it.
LEMMA AnnouncedStep ==
  ASSUME AnnouncedInv, AllPast, [TermNext]_<<termVars, left>>
  PROVE  AnnouncedInv'
<1>0. TermTyped /\ OwnKeys(diary) /\ TermTyped' /\ IsDiary(diary)
  BY TypedStep DEF AnnouncedInv, TermTyped
<1>1. ASSUME UNCHANGED <<screen, rendered, diary>>, missed \subseteq missed' PROVE AnnouncedInv'
  BY <1>0, <1>1 DEF AnnouncedInv, ScreenInTime, SaidInTime, InTime
<1>2. ASSUME NEW a \in Ids, ActionMoves(a) PROVE AnnouncedInv'
  BY <1>1, <1>2 DEF ActionMoves
<1>3. ASSUME ResetElsewhere \/ ChatElsewhere \/ Poll \/ EventArrives \/ StreamCloses PROVE AnnouncedInv'
  BY <1>1, <1>3 DEF ResetElsewhere, ChatElsewhere, Poll, EventArrives, StreamCloses
<1>4. ASSUME RunEffects PROVE AnnouncedInv'
  <2>1. /\ screen \in State /\ diary' = Effects(diary, screen) /\ missed' = missed /\ rendered' = TRUE
        /\ ~rendered
    BY <1>0, <1>4 DEF RunEffects, TermTyped
  <2>2. OwnKeys(diary')
    BY <1>0, <2>1, EffectsProperties
  <2>3. ScreenInTime'
    BY <2>1 DEF ScreenInTime
  <2>4. ASSUME InTime, "ahead" \notin missed PROVE OwnWorkspaces(diary')
    BY <1>0, <2>1, <2>4, EffectsProperties DEF AnnouncedInv, ScreenInTime, SaidInTime
  <2>5. SaidInTime'
    BY <2>1, <2>4 DEF SaidInTime, InTime
  <2>. QED
    BY <1>0, <2>2, <2>3, <2>5 DEF AnnouncedInv
<1>5. ASSUME NEW i \in DOMAIN reads, ReadServed(i) \/ ReadRefused(i) \/ ReadFails(i) PROVE AnnouncedInv'
  BY <1>1, <1>5 DEF ReadServed, ReadRefused, ReadFails
<1>6. ASSUME NEW op \in Commands, HandleSubmit(op) PROVE AnnouncedInv'
  BY <1>1, <1>6 DEF HandleSubmit
<1>7. ASSUME NEW c \in ChatTurns, ChatHeard(c) \/ ChatReplied(c) \/ ChatFails(c) PROVE AnnouncedInv'
  BY <1>1, <1>7 DEF ChatHeard, ChatReplied, ChatFails
<1>8. ASSUME NEW i \in DOMAIN reads, ReadAnswered(i) PROVE AnnouncedInv'
  <2>1. reads[i].got \in State /\ IsDiary(Start(i)) /\ Apply(reads[i].got, Start(i))
    BY <1>0, <1>8, AnswerApplies
  <2>2. OwnKeys(Start(i)) /\ Start(i).said = diary.said /\ Start(i).since \in {diary.since, reads[i].got.gen}
    BY <1>0, <1>8, StartKeeps
  <2>. QED
    BY <1>0, <2>1, <2>2, ApplyKeeps DEF AnnouncedInv
<1>9. ASSUME NEW c \in ChatTurns, RunChat(c) PROVE AnnouncedInv'
  <2>1. /\ diary'.tracker = diary.tracker /\ diary'.since = diary.since /\ diary'.said = diary.said
        /\ UNCHANGED <<screen, rendered, missed>>
    BY <1>0, <1>9, LocalProperties DEF RunChat
  <2>2. OwnKeys(diary') /\ (OwnWorkspaces(diary) => OwnWorkspaces(diary'))
    BY <1>0, <2>1 DEF OwnKeys, OwnWorkspaces
  <2>. QED
    BY <1>0, <2>1, <2>2 DEF AnnouncedInv, ScreenInTime, SaidInTime, InTime
<1>10. ASSUME NEW c \in ChatTurns, ChatDone(c) PROVE AnnouncedInv'
  <2>. DEFINE d == Local(diary, "assistant", TextOf[c])
  <2>1. talk[c].frame \in State /\ Apply(talk[c].frame, d)
    BY <1>0, <1>10 DEF ChatDone, TermTyped
  <2>2. IsDiary(d) /\ d.tracker = diary.tracker /\ d.since = diary.since /\ d.said = diary.said
    BY <1>0, LocalProperties
  <2>. HIDE DEF d
  <2>3. OwnKeys(d)
    BY <1>0, <2>2 DEF OwnKeys
  <2>. QED
    BY <1>0, <2>1, <2>2, <2>3, ApplyKeeps DEF AnnouncedInv
<1>11. CASE UNCHANGED <<termVars, left>>
  BY <1>1, <1>11 DEF termVars
<1>. QED
  BY <1>2, <1>3, <1>4, <1>5, <1>6, <1>7, <1>8, <1>9, <1>10, <1>11 DEF TermNext

\* Nothing is announced, shown or asked for but the first state.
LEMMA TermStarts ==
  ASSUME TermInit
  PROVE  /\ AnnouncedInv /\ AllPast
         /\ NoRemote => FollowInv
<1>1. srv.gen = 0 /\ srv \in State
  <2>1. PICK a \in [Ids -> {"none", "active"}] : srv = [gen |-> 0, act |-> a, chat |-> <<>>]
    BY DEF TermInit
  <2>2. a \in [Ids -> Statuses] /\ <<>> \in Seq(Messages)
    BY DEF Statuses
  <2>. QED
    BY <2>1, <2>2 DEF State
<1>2. reads \in Seq(RequestState) /\ \A i \in DOMAIN reads : reads[i].got = None
  BY DEF TermInit, RequestState, Commands
<1>3. talk \in [ChatTurns -> TalkState] /\ \A c \in ChatTurns : talk[c].at # "replied"
  BY DEF TermInit, TalkState
<1>4. screen = None /\ rendered = TRUE
  BY DEF TermInit
<1>5. Tracker \in TrackerState /\ Tracker.closed = {}
  BY DEF Tracker, TrackerState
<1>6. diary.tracker = Tracker /\ diary.since = 0 /\ diary.said = <<>>
  BY DEF TermInit
<1>7. IsDiary(diary)
  <2>1. diary = [tracker |-> diary.tracker, since |-> diary.since, said |-> diary.said, seen |-> diary.seen,
                 pending |-> diary.pending, shown |-> diary.shown]
    BY DEF TermInit
  <2>. QED
    BY <1>5, <1>6, <2>1 DEF IsDiary
<1>8. TermTyped
  BY <1>1, <1>2, <1>3, <1>4, <1>7 DEF TermTyped
<1>9. OwnKeys(diary) /\ OwnWorkspaces(diary)
  BY <1>6 DEF OwnKeys, OwnWorkspaces
<1>10. AnnouncedInv
  BY <1>4, <1>8, <1>9 DEF AnnouncedInv, ScreenInTime, SaidInTime
<1>11. AllPast
  BY <1>2, <1>3, <1>4 DEF AllPast
<1>12. ASSUME NoRemote PROVE FollowInv
  BY <1>1, <1>4, <1>5, <1>6, <1>12 DEF FollowInv, ClosedHasEnded, Noticed
<1>. QED
  BY <1>10, <1>11, <1>12

\* However states overtake each other, the terminal announces of an action only an outcome, and
\* under a key of its own; and no outcome twice, unless a reset was crossed.
THEOREM AnnouncedOnceHolds == TermSpec => []AnnouncedOnce
<1>1. TermInit => AnnouncedInv /\ AllPast
  BY TermStarts
<1>2. AnnouncedInv /\ AllPast /\ [TermNext]_<<termVars, left>> => AnnouncedInv' /\ AllPast'
  BY AnnouncedStep, TypedStep DEF AnnouncedInv
<1>3. AnnouncedInv => AnnouncedOnce
  <2>. SUFFICES ASSUME AnnouncedInv PROVE AnnouncedOnce
    OBVIOUS
  <2>1. \A k \in DOMAIN diary.said : diary.said[k] \in Entries
    BY DEF AnnouncedInv, TermTyped, IsDiary
  <2>2. \A k \in DOMAIN diary.said : diary.said[k].outcome \in {"completed", "rejected", "failed"}
    BY <2>1 DEF Entries, Outcomes
  <2>. QED
    BY <2>2 DEF AnnouncedInv, AnnouncedOnce, OwnKeys, OwnWorkspaces, SaidInTime, InTime
<1>. QED
  BY <1>1, <1>2, <1>3, PTL DEF TermSpec

----------------------------------------------------------------------------
(* What is shown as active is followed. *)

\* Nobody else resets the workspace, whatever else is spent.
LEMMA NobodyElse ==
  ASSUME NoRemote, [TermNext]_<<termVars, left>>
  PROVE  NoRemote' /\ ~ResetElsewhere
<1>1. ASSUME NEW what, what # "remote", Spend(what) PROVE NoRemote'
  BY <1>1 DEF NoRemote, Spend
<1>2. ASSUME UNCHANGED left PROVE NoRemote'
  BY <1>2 DEF NoRemote
<1>3. ~ResetElsewhere
  BY DEF NoRemote, ResetElsewhere, Left
<1>4. ASSUME NEW a \in Ids, ActionMoves(a) PROVE NoRemote'
  BY <1>1, <1>4 DEF ActionMoves
<1>5. ASSUME ChatElsewhere \/ StreamCloses PROVE NoRemote'
  BY <1>1, <1>5 DEF ChatElsewhere, StreamCloses
<1>6. ASSUME RunEffects \/ Poll \/ EventArrives PROVE NoRemote'
  BY <1>2, <1>6 DEF RunEffects, Poll, EventArrives
<1>7. ASSUME NEW i \in DOMAIN reads, ReadServed(i) \/ ReadRefused(i) \/ ReadAnswered(i) PROVE NoRemote'
  BY <1>2, <1>7 DEF ReadServed, ReadRefused, ReadAnswered
<1>8. ASSUME NEW i \in DOMAIN reads, ReadFails(i) PROVE NoRemote'
  BY <1>1, <1>8 DEF ReadFails
<1>9. ASSUME NEW op \in Commands, HandleSubmit(op) PROVE NoRemote'
  BY <1>1, <1>9 DEF HandleSubmit
<1>10. ASSUME NEW c \in ChatTurns, RunChat(c) \/ ChatFails(c) PROVE NoRemote'
  BY <1>1, <1>10 DEF RunChat, ChatFails
<1>11. ASSUME NEW c \in ChatTurns, ChatHeard(c) \/ ChatReplied(c) \/ ChatDone(c) PROVE NoRemote'
  BY <1>2, <1>11 DEF ChatHeard, ChatReplied, ChatDone
<1>12. ASSUME UNCHANGED <<termVars, left>> PROVE NoRemote'
  BY <1>2, <1>12
<1>13. NoRemote'
  BY <1>3, <1>4, <1>5, <1>6, <1>7, <1>8, <1>9, <1>10, <1>11, <1>12 DEF TermNext
<1>. QED
  BY <1>3, <1>13

\* What the effects close has ended on the server too, if the tracker is of its workspace and
\* the screen is no older.
LEMMA ClosedStays ==
  ASSUME TermTyped, AllPast, NEW d, IsDiary(d), d.since = srv.gen,
         ~rendered => screen.gen >= d.since,
         \A a \in d.tracker.closed : srv.act[a] \in Terminal
  PROVE  \A a \in Flushed(d).tracker.closed : srv.act[a] \in Terminal
<1>1. CASE rendered
  BY <1>1 DEF Flushed
<1>2. CASE ~rendered
  <2>1. screen \in State /\ Past(screen) /\ screen.gen >= srv.gen
    BY <1>2, StateAssumption DEF TermTyped, AllPast
  <2>3. srv.gen \in Nat /\ screen.gen \in Nat
    BY <2>1 DEF TermTyped, State
  <2>4. /\ d.tracker.closed \subseteq Effects(d, screen).tracker.closed
        /\ \A a \in Effects(d, screen).tracker.closed \ d.tracker.closed : screen.act[a] \in Terminal
        /\ Effects(d, screen).tracker.closed \subseteq Ids
    BY <2>1, EffectsProperties DEF IsDiary, TrackerState
  <2>. QED
    BY <1>2, <2>1, <2>3, <2>4 DEF Flushed, Past
<1>. QED
  BY <1>1, <1>2

\* Who waits for a reset's answer still does, until it comes.
LEMMA ResetStays ==
  ASSUME TermTyped, ResetUnderWay, srv'.gen = srv.gen,
         \A j \in DOMAIN reads :
           reads[j].op = "reset" /\ reads[j].got # None /\ reads[j].got.gen = srv.gen
             => \E k \in DOMAIN reads' : reads'[k] = reads[j]
  PROVE  ResetUnderWay'
<1>1. PICK j \in DOMAIN reads : reads[j].op = "reset" /\ reads[j].got # None /\ reads[j].got.gen = srv.gen
  BY DEF ResetUnderWay
<1>2. PICK k \in DOMAIN reads' : reads'[k] = reads[j]
  BY <1>1
<1>. QED
  BY <1>1, <1>2 DEF ResetUnderWay

\* A step in which the server stays in its workspace, and that leaves the tracker and what is
\* shown alone.
LEMMA FollowKept ==
  ASSUME FollowInv, TermTyped, NoRemote', UNCHANGED <<screen, rendered>>, missed \subseteq missed',
         diary'.tracker = diary.tracker, diary'.since = diary.since,
         srv' = srv \/ (Grows /\ srv'.gen = srv.gen),
         InTime' /\ ResetUnderWay => ResetUnderWay'
  PROVE  FollowInv'
<1>1. srv'.gen = srv.gen /\ (InTime' => InTime)
  BY DEF InTime
<1>2. diary.tracker.closed \in SUBSET Ids
  BY DEF TermTyped, IsDiary, TrackerState
<1>3. \A a \in Ids : srv.act[a] \in Terminal => srv'.act[a] \in Terminal
  BY <1>1 DEF Grows, TermTyped, State
<1>4. ClosedHasEnded => ClosedHasEnded'
  BY <1>2, <1>3 DEF ClosedHasEnded
<1>5. Noticed'
  BY DEF FollowInv, Noticed
<1>. QED
  BY <1>1, <1>4, <1>5 DEF FollowInv

\* What is shown is not followed before the effects have run for it; what they close for the
\* last render has ended.
LEMMA FollowShown ==
  ASSUME FollowInv, AnnouncedInv, AllPast, NoRemote', srv' = srv, NEW s \in State, NEW d, IsDiary(d), Apply(s, d),
         d.since <= srv.gen,
         \/ d.since = diary.since /\ d.tracker.closed = diary.tracker.closed
         \/ d.since = s.gen /\ d.tracker.closed = {},
         InTime' => d.since = srv.gen \/ ResetUnderWay'
  PROVE  FollowInv'
<1>0. TermTyped /\ (~rendered => screen \in State)
  BY DEF AnnouncedInv, TermTyped
<1>1. screen' = s /\ rendered' = FALSE /\ diary'.since = d.since /\ missed \subseteq missed' /\ diary' = Flushed(d)
  BY <1>0, ApplyTyped DEF Apply
<1>2. ASSUME InTime' PROVE InTime /\ (~rendered => screen.gen >= d.since)
  <2>1. ~Older(s, d) /\ InTime
    BY <1>1, <1>2 DEF InTime, Apply
  <2>2. d.since \in Nat /\ (~rendered => screen.gen \in Nat)
    BY <1>0 DEF IsDiary, State
  <2>. QED
    BY <2>1, <2>2 DEF Older
<1>3. ASSUME InTime', d.since = srv.gen PROVE \A a \in diary'.tracker.closed : srv.act[a] \in Terminal
  <2>1. \A a \in d.tracker.closed : srv.act[a] \in Terminal
    BY <1>2, <1>3 DEF FollowInv, ClosedHasEnded
  <2>. QED
    BY <1>0, <1>1, <1>2, <1>3, <2>1, ClosedStays
<1>4. Noticed'
  BY <1>1 DEF Noticed
<1>. QED
  BY <1>1, <1>3, <1>4 DEF FollowInv, ClosedHasEnded

\* Every step keeps it.
LEMMA FollowStep ==
  ASSUME FollowInv, AnnouncedInv, AllPast, [TermNext]_<<termVars, left>>
  PROVE  FollowInv'
<1>0. /\ TermTyped /\ IsDiary(diary) /\ srv \in State /\ reads \in Seq(RequestState) /\ srv.gen \in Nat
      /\ diary.since \in Nat /\ diary.since <= srv.gen
  BY DEF AnnouncedInv, TermTyped, IsDiary, State, FollowInv
<1>1. NoRemote' /\ ~ResetElsewhere
  BY NobodyElse DEF FollowInv
<1>2. ASSUME UNCHANGED <<screen, rendered, diary, reads>>, missed \subseteq missed',
             srv' = srv \/ (Grows /\ srv'.gen = srv.gen)
      PROVE  FollowInv'
  <2>1. ResetUnderWay => ResetUnderWay'
    BY <1>2 DEF ResetUnderWay
  <2>. QED
    BY <1>0, <1>1, <1>2, <2>1, FollowKept
<1>3. ASSUME NEW a \in Ids, ActionMoves(a) PROVE FollowInv'
  <2>1. Grows /\ srv'.gen = srv.gen
    BY <1>0, <1>3, ServerGrows
  <2>. QED
    BY <1>2, <1>3, <2>1 DEF ActionMoves
<1>4. ASSUME ChatElsewhere PROVE FollowInv'
  <2>1. Grows /\ srv'.gen = srv.gen
    BY <1>0, <1>4, ServerGrows
  <2>. QED
    BY <1>2, <1>4, <2>1 DEF ChatElsewhere
<1>5. ASSUME RunEffects PROVE FollowInv'
  <2>1. /\ screen \in State /\ diary' = Effects(diary, screen) /\ ~rendered
        /\ UNCHANGED <<srv, reads, screen, missed>>
    BY <1>0, <1>5 DEF RunEffects, TermTyped
  <2>2. /\ IsDiary(diary') /\ diary'.since = diary.since
        /\ \A a \in Ids : screen.act[a] = "active" => a \in diary'.tracker.active \union diary'.tracker.closed
    BY <1>0, <2>1, EffectsProperties
  <2>3. Noticed'
    BY <2>1, <2>2 DEF Noticed
  <2>4. ASSUME InTime, diary.since = srv.gen PROVE \A a \in diary'.tracker.closed : srv.act[a] \in Terminal
    <3>1. /\ \A a \in diary.tracker.closed : srv.act[a] \in Terminal
          /\ screen.gen >= diary.since
      BY <2>1, <2>4 DEF FollowInv, ClosedHasEnded, AnnouncedInv, ScreenInTime
    <3>2. \A a \in Flushed(diary).tracker.closed : srv.act[a] \in Terminal
      BY <1>0, <2>4, <3>1, ClosedStays
    <3>. QED
      BY <2>1, <3>2 DEF Flushed
  <2>5. ResetUnderWay => ResetUnderWay'
    BY <2>1 DEF ResetUnderWay
  <2>. QED
    BY <1>1, <2>1, <2>2, <2>3, <2>4, <2>5 DEF FollowInv, InTime, ClosedHasEnded
<1>6. ASSUME NEW op \in Commands, reads' = Append(reads, Get(op)),
             UNCHANGED <<srv, screen, rendered, diary, missed>>
      PROVE  FollowInv'
  <2>1. \A j \in DOMAIN reads : \E k \in DOMAIN reads' : reads'[k] = reads[j]
    BY <1>0, <1>6, ReadsSent
  <2>2. ResetUnderWay => ResetUnderWay'
    BY <1>0, <1>6, <2>1, ResetStays
  <2>. QED
    BY <1>0, <1>1, <1>6, <2>2, FollowKept
<1>7. ASSUME Poll \/ EventArrives \/ \E op \in Commands : HandleSubmit(op) PROVE FollowInv'
  BY <1>6, <1>7 DEF Poll, EventArrives, HandleSubmit, Refresh, Commands
<1>8. ASSUME StreamCloses PROVE FollowInv'
  BY <1>2, <1>8 DEF StreamCloses
<1>9. ASSUME NEW i \in DOMAIN reads, ReadServed(i) PROVE FollowInv'
  <2>1. reads[i].op \in Commands /\ srv' \in Effect(reads[i].op) /\ reads[i].got = None
        /\ UNCHANGED <<screen, rendered, diary, missed>> /\ reads' = [reads EXCEPT ![i].got = srv']
    <3>1. reads[i] \in RequestState
      BY <1>0
    <3>. QED
      BY <1>9, <3>1 DEF RequestState, ReadServed
  <2>2. PICK op \in Commands : op = reads[i].op /\ srv' \in Effect(op)
    BY <2>1
  <2>3. Grows /\ (op # "reset" => srv'.gen = srv.gen) /\ (op = "reset" => srv'.gen > srv.gen)
    BY <1>0, <2>2, EffectGrows
  <2>4. /\ reads' \in Seq(RequestState) /\ DOMAIN reads' = DOMAIN reads
        /\ \A k \in DOMAIN reads \ {i} : reads'[k] = reads[k]
        /\ reads'[i].op = op /\ reads'[i].got = srv'
    BY <1>0, <2>1, <2>2, <2>3, ReadsServed DEF Grows
  <2>5. CASE op # "reset"
    <3>1. \A j \in DOMAIN reads : reads[j].got # None => j # i
      BY <2>1
    <3>2. ResetUnderWay => ResetUnderWay'
      BY <1>0, <2>3, <2>4, <2>5, <3>1, ResetStays
    <3>. QED
      BY <1>0, <1>1, <2>1, <2>3, <2>5, <3>2, FollowKept
  <2>6. CASE op = "reset"
    <3>1. srv'.gen \in Nat /\ srv'.gen > srv.gen /\ srv' # None
      BY <2>3, <2>6, StateAssumption DEF Grows, State
    <3>2. diary'.since < srv'.gen
      BY <1>0, <2>1, <3>1
    <3>3. Noticed'
      BY <2>1 DEF FollowInv, Noticed
    <3>4. ResetUnderWay'
      BY <2>3, <2>4, <2>6, <3>1 DEF ResetUnderWay
    <3>. QED
      BY <1>0, <1>1, <2>1, <3>1, <3>2, <3>3, <3>4 DEF FollowInv
  <2>. QED
    BY <2>5, <2>6
<1>10. ASSUME NEW i \in DOMAIN reads, ReadRefused(i) \/ ReadFails(i) PROVE FollowInv'
  <2>1. reads' = RemoveAt(reads, i) /\ UNCHANGED <<srv, screen, rendered, diary>> /\ missed \subseteq missed'
    BY <1>10 DEF ReadRefused, ReadFails
  <2>2. InTime' => reads[i].op # "reset" \/ reads[i].got = None
    BY <1>10 DEF ReadRefused, ReadFails, InTime
  <2>3. \A j \in DOMAIN reads \ {i} : \E k \in DOMAIN reads' : reads'[k] = reads[j]
    BY <1>0, <2>1, ReadsGone
  <2>4. InTime' /\ ResetUnderWay => ResetUnderWay'
    BY <1>0, <2>1, <2>2, <2>3, ResetStays
  <2>. QED
    BY <1>0, <1>1, <2>1, <2>4, FollowKept
<1>11. ASSUME NEW i \in DOMAIN reads, ReadAnswered(i) PROVE FollowInv'
  <2>. DEFINE s == reads[i].got
              d == Start(i)
  <2>1. /\ s \in State /\ s # None /\ IsDiary(d) /\ Apply(s, d)
        /\ reads' = RemoveAt(reads, i) /\ srv' = srv
    BY <1>0, <1>11, AnswerApplies
  <2>2. s.gen <= srv.gen /\ s.gen \in Nat
    BY <2>1 DEF AllPast, Past, State
  <2>3. /\ reads[i].op # "reset" => d = diary
        /\ reads[i].op = "reset" => d.since = s.gen /\ d.tracker.closed = {}
    BY <1>0, <1>11, StartKeeps DEF AnnouncedInv
  <2>4. \A j \in DOMAIN reads \ {i} : \E k \in DOMAIN reads' : reads'[k] = reads[j]
    BY <1>0, <2>1, ReadsGone
  <2>. HIDE DEF d
  <2>5. ASSUME InTime' PROVE d.since = srv.gen \/ ResetUnderWay'
    <3>1. InTime /\ s.gen >= diary.since
      <4>1. ~Older(s, d) /\ InTime
        BY <2>1, <2>5 DEF Apply, InTime
      <4>. QED
        BY <1>0, <2>2, <4>1 DEF Older
    <3>2. CASE reads[i].op # "reset" \/ s.gen # srv.gen
      <4>1. ResetUnderWay => ResetUnderWay'
        BY <1>0, <2>1, <2>4, <3>2, ResetStays
      <4>2. reads[i].op = "reset" => diary.since # srv.gen
        BY <1>0, <2>2, <3>1, <3>2
      <4>. QED
        BY <2>3, <3>1, <4>1, <4>2 DEF FollowInv
    <3>3. CASE reads[i].op = "reset" /\ s.gen = srv.gen
      BY <2>3, <3>3
    <3>. QED
      BY <3>2, <3>3
  <2>. HIDE DEF s
  <2>. QED
    BY <1>0, <1>1, <2>1, <2>2, <2>3, <2>5, FollowShown
<1>12. ASSUME NEW op \in Commands, HandleSubmit(op) PROVE FollowInv'
  BY <1>7, <1>12
<1>13. ASSUME NEW c \in ChatTurns, RunChat(c) PROVE FollowInv'
  <2>1. /\ diary'.tracker = diary.tracker /\ diary'.since = diary.since
        /\ UNCHANGED <<srv, reads, screen, rendered, missed>>
    BY <1>0, <1>13, LocalProperties DEF RunChat
  <2>2. ResetUnderWay => ResetUnderWay'
    BY <2>1 DEF ResetUnderWay
  <2>. QED
    BY <1>0, <1>1, <2>1, <2>2, FollowKept
<1>14. ASSUME NEW c \in ChatTurns, ChatHeard(c) \/ ChatReplied(c) PROVE FollowInv'
  <2>1. Grows /\ srv'.gen = srv.gen
    BY <1>0, <1>14, ServerGrows
  <2>. QED
    BY <1>2, <1>14, <2>1 DEF ChatHeard, ChatReplied
<1>15. ASSUME NEW c \in ChatTurns, ChatFails(c) PROVE FollowInv'
  BY <1>2, <1>15 DEF ChatFails
<1>16. ASSUME NEW c \in ChatTurns, ChatDone(c) PROVE FollowInv'
  <2>. DEFINE d == Local(diary, "assistant", TextOf[c])
  <2>1. talk[c].frame \in State /\ Apply(talk[c].frame, d) /\ UNCHANGED <<srv, reads>>
    BY <1>0, <1>16 DEF ChatDone, TermTyped
  <2>2. IsDiary(d) /\ d.tracker = diary.tracker /\ d.since = diary.since
    BY <1>0, LocalProperties
  <2>. HIDE DEF d
  <2>3. ResetUnderWay => ResetUnderWay'
    BY <2>1 DEF ResetUnderWay
  <2>4. InTime' => d.since = srv.gen \/ ResetUnderWay'
    BY <2>1, <2>2, <2>3 DEF FollowInv, InTime, Apply
  <2>. QED
    BY <1>0, <1>1, <2>1, <2>2, <2>4, FollowShown
<1>17. CASE UNCHANGED <<termVars, left>>
  BY <1>2, <1>17 DEF termVars
<1>. QED
  BY <1>1, <1>3, <1>4, <1>5, <1>7, <1>8, <1>9, <1>10, <1>11, <1>12, <1>13, <1>14, <1>15, <1>16, <1>17 DEF TermNext

\* As long as nobody else resets the workspace, what is active and shown as such is followed
\* by the effects, also under an identifier from before a reset of one's own.
THEOREM ActiveIsFollowedHolds == TermSpec /\ NoRemote => []ActiveIsFollowed
<1>. DEFINE Inv == FollowInv /\ AnnouncedInv /\ AllPast
<1>1. TermInit /\ NoRemote => Inv
  BY TermStarts
<1>2. Inv /\ [TermNext]_<<termVars, left>> => Inv'
  BY FollowStep, AnnouncedStep, TypedStep DEF AnnouncedInv
<1>3. Inv => ActiveIsFollowed
  <2>. SUFFICES ASSUME Inv, screen # None /\ rendered /\ InTime, \A i \in DOMAIN reads : reads[i].op # "reset",
                       NEW a \in Ids, screen.act[a] = "active", srv.act[a] = "active"
                PROVE  a \in diary.tracker.active
    BY DEF ActiveIsFollowed, InTime
  <2>1. ClosedHasEnded
    BY DEF FollowInv, ResetUnderWay
  <2>. QED
    BY <2>1 DEF FollowInv, Noticed, ClosedHasEnded, Terminal
<1>. QED
  BY <1>1, <1>2, <1>3, PTL DEF TermSpec

----------------------------------------------------------------------------
(* The transcript. *)

\* Of the messages of a chat with this role and text: those the transcript has met, and those
\* that it has not, nor is kept from.
Of(chat, r, x) == {i \in DOMAIN chat : chat[i].role = r /\ chat[i].text = x}
Met(d, chat, r, x) == {i \in Of(chat, r, x) : chat[i].key \in d.seen}
Unmet(d, chat, held, r, x) == {i \in Of(chat, r, x) \ held : chat[i].key \notin d.seen}

\* What is shown was met, or was said here and is waited for.
Balanced(d, chat) == \A r \in Roles, x \in Texts :
    d.shown[r][x] = Cardinality(Met(d, chat, r, x)) + Cardinality(Spots(d.pending, <<r, x>>))

\* No more is waited for than is still to be met, or still to be stored (w).
Covered(d, chat, held, r, w) == \A x \in Texts :
    Cardinality(Spots(d.pending, <<r, x>>)) <= Cardinality(Unmet(d, chat, held, r, x)) + w[x]

\* What a message is, and that a list of them is a part of the server's.
Keyed(chat) == \A i \in DOMAIN chat : chat[i].key = <<0, i - 1>> /\ chat[i].text = TextOf[chat[i].of]
Begun(s, chat) == Len(s) <= Len(chat) /\ \A i \in DOMAIN s : s[i] = chat[i]

Replies(c) == {i \in DOMAIN srv.chat : srv.chat[i].role = "assistant" /\ srv.chat[i].of = c}
Sending == {c \in ChatTurns : talk[c].at = "sent"}
\* The replies whose `done' has not come.
Held == UNION {Replies(c) : c \in {b \in ChatTurns : talk[b].at = "replied"}}
None_stored == [x \in Texts |-> 0]
To_store == [x \in Texts |-> Cardinality({c \in Sending : TextOf[c] = x})]

Books == [tracker : TrackerState, since : Nat, said : Seq(Entries), seen : SUBSET (Nat \X Nat),
          pending : Seq(Roles \X Texts), shown : [Roles -> [Texts -> Nat]]]

\* What was read of the chat is how it began.
AllBegun ==
    /\ screen # None => Begun(screen.chat, srv.chat)
    /\ \A i \in DOMAIN reads : reads[i].got # None => Begun((reads[i].got).chat, srv.chat)
    /\ \A c \in ChatTurns : talk[c].at = "replied" => Begun(talk[c].frame.chat, srv.chat)

TurnReplies == \A c \in ChatTurns :
    /\ talk[c].at \in {"off", "sent", "heard"} => Replies(c) = {}
    /\ talk[c].at = "replied" => Replies(c) # {}

\* Unless a reply came before its `done', those that are held are not on the screen.
HeldBack == \A i \in Held : srv.chat[i].key \notin diary.seen /\ (screen # None => Len(screen.chat) < i)

ChatInv ==
    /\ Keyed(srv.chat) /\ AllBegun /\ TurnReplies
    /\ diary.seen \subseteq {srv.chat[i].key : i \in DOMAIN srv.chat}
    /\ rendered /\ screen # None => \A i \in DOMAIN screen.chat : screen.chat[i].key \in diary.seen
    /\ Balanced(diary, srv.chat)
    /\ "early" \notin missed => HeldBack /\ Covered(diary, srv.chat, Held, "assistant", None_stored)
    /\ "unheard" \notin missed => Covered(diary, srv.chat, {}, "user", To_store)

TranscriptInv == diary \in Books /\ IsFiniteSet(Sending) /\ (srv.gen = 0 => ChatInv)

----------------------------------------------------------------------------

\* A book is a diary; what the parts of one are.
LEMMA BookParts ==
  ASSUME NEW d \in Books
  PROVE  /\ IsDiary(d) /\ d.seen \in SUBSET (Nat \X Nat) /\ d.pending \in Seq(Roles \X Texts)
         /\ d.shown \in [Roles -> [Texts -> Nat]]
         /\ d.tracker \in TrackerState /\ d.since \in Nat /\ d.said \in Seq(Entries)
  BY DEF Books, IsDiary

\* What noting a message changes.
Noting(d, m, e) ==
    LET match == Spots(d.pending, <<m.role, m.text>>) IN
    /\ e \in Books /\ e.tracker = d.tracker /\ e.since = d.since /\ e.said = d.said
    /\ m.key \in d.seen => e = d
    /\ m.key \notin d.seen =>
         /\ e.seen = d.seen \union {m.key}
         /\ match # {} => /\ \E p \in match : e.pending = RemoveAt(d.pending, p)
                          /\ e.shown = d.shown
         /\ match = {} => /\ e.pending = d.pending
                          /\ e.shown = [d.shown EXCEPT ![m.role][m.text] = @ + 1]

\* It is what Note does.
LEMMA NoteProperties ==
  ASSUME NEW d \in Books, NEW m \in Messages
  PROVE  Noting(d, m, Note(d, m))
<1>. DEFINE e == Note(d, m)
            match == Spots(d.pending, <<m.role, m.text>>)
            p == CHOOSE i \in match : \A j \in match : i <= j
<1>1. /\ d.seen \in SUBSET (Nat \X Nat) /\ d.pending \in Seq(Roles \X Texts)
      /\ d.shown \in [Roles -> [Texts -> Nat]]
  BY BookParts
<1>2. m.key \in Nat \X Nat /\ m.role \in Roles /\ m.text \in Texts
  BY DEF Messages
<1>3. match = {i \in DOMAIN d.pending : d.pending[i] = <<m.role, m.text>>} /\ match \subseteq DOMAIN d.pending
  BY DEF Spots
<1>4. ASSUME m.key \in d.seen PROVE Noting(d, m, e)
  <2>1. e = d
    BY <1>4 DEF Note
  <2>. HIDE DEF e
  <2>. QED
    BY <1>4, <2>1 DEF Noting
<1>5. ASSUME m.key \notin d.seen, match # {} PROVE Noting(d, m, e)
  <2>1. p \in match
    <3>1. DOMAIN d.pending \in SUBSET Nat
      BY <1>1
    <3>2. match \in SUBSET Nat
      BY <1>3, <3>1
    <3>. HIDE DEF match
    <3>3. \E i \in match : \A j \in match : i <= j
      BY <1>5, <3>2, Least
    <3>. QED
      BY <3>3, Zenon
  <2>2. p \in DOMAIN d.pending
    BY <1>3, <2>1
  <2>3. e = [d EXCEPT !.seen = @ \union {m.key}, !.pending = RemoveAt(@, p)]
    BY <1>3, <1>5 DEF Note
  <2>. HIDE DEF p, e, match
  <2>4. RemoveAt(d.pending, p) \in Seq(Roles \X Texts)
    BY <1>1, <2>2, RemoveAtProperties
  <2>5. d.seen \union {m.key} \in SUBSET (Nat \X Nat)
    BY <1>1, <1>2
  <2>6. /\ e \in Books /\ e.tracker = d.tracker /\ e.since = d.since /\ e.said = d.said
        /\ e.seen = d.seen \union {m.key} /\ e.pending = RemoveAt(d.pending, p) /\ e.shown = d.shown
    BY <2>3, <2>4, <2>5 DEF Books
  <2>. QED
    BY <1>5, <2>1, <2>6 DEF Noting, match
<1>6. ASSUME m.key \notin d.seen, match = {} PROVE Noting(d, m, e)
  <2>1. e = [d EXCEPT !.seen = @ \union {m.key}, !.shown[m.role][m.text] = @ + 1]
    BY <1>3, <1>6 DEF Note
  <2>. HIDE DEF e, match
  <2>2. [d.shown EXCEPT ![m.role][m.text] = @ + 1] \in [Roles -> [Texts -> Nat]]
    BY <1>1, <1>2
  <2>3. d.seen \union {m.key} \in SUBSET (Nat \X Nat)
    BY <1>1, <1>2
  <2>4. /\ e \in Books /\ e.tracker = d.tracker /\ e.since = d.since /\ e.said = d.said
        /\ e.seen = d.seen \union {m.key} /\ e.pending = d.pending
        /\ e.shown = [d.shown EXCEPT ![m.role][m.text] = @ + 1]
    BY <2>1, <2>2, <2>3 DEF Books
  <2>. QED
    BY <1>6, <2>4 DEF Noting, match
<1>. QED
  BY <1>4, <1>5, <1>6 DEF e

\* Finitely many messages are of a kind, whichever they are.
LEMMA PartsFinite ==
  ASSUME NEW chat \in Seq(Messages), NEW T \in SUBSET DOMAIN chat
  PROVE  IsFiniteSet(T) /\ Cardinality(T) \in Nat
<1>1. IsFiniteSet(1 .. Len(chat)) /\ DOMAIN chat = 1 .. Len(chat)
  BY FS_Interval
<1>. QED
  BY <1>1, FS_Subset, FS_CardinalityType

\* Noting a message of a chat: what was met, was waited for or is shown stays in balance, and
\* what is waited for stays covered, unless the message is held.
LEMMA NoteKeeps ==
  ASSUME NEW chat \in Seq(Messages), Keyed(chat), NEW i \in DOMAIN chat,
         NEW d \in Books, NEW e, Noting(d, chat[i], e)
  PROVE  /\ e.seen = d.seen \union {chat[i].key}
         /\ Balanced(d, chat) => Balanced(e, chat)
         /\ \A held : \A r \in Roles, w \in [Texts -> Nat] :
              i \notin held /\ Covered(d, chat, held, r, w) => Covered(e, chat, held, r, w)
<1>. DEFINE m == chat[i]
            v == <<m.role, m.text>>
            match == Spots(d.pending, v)
<1>1. m \in Messages /\ m.role \in Roles /\ m.text \in Texts
  <2>1. m \in Messages
    OBVIOUS
  <2>. HIDE DEF m
  <2>. QED
    BY <2>1 DEF Messages
<1>2. d.pending \in Seq(Roles \X Texts) /\ d.shown \in [Roles -> [Texts -> Nat]]
  BY BookParts
<1>3. \A j \in DOMAIN chat : chat[j].key = m.key => j = i
  BY DEF Keyed
<1>4. ASSUME m.key \in d.seen
      PROVE  /\ e.seen = d.seen \union {m.key}
             /\ Balanced(d, chat) => Balanced(e, chat)
             /\ \A held : \A r \in Roles, w \in [Texts -> Nat] :
                  i \notin held /\ Covered(d, chat, held, r, w) => Covered(e, chat, held, r, w)
  BY <1>4 DEF Noting
<1>5. ASSUME m.key \notin d.seen
      PROVE  /\ e.seen = d.seen \union {m.key}
             /\ Balanced(d, chat) => Balanced(e, chat)
             /\ \A held : \A r \in Roles, w \in [Texts -> Nat] :
                  i \notin held /\ Covered(d, chat, held, r, w) => Covered(e, chat, held, r, w)
  <2>1. e.seen = d.seen \union {m.key}
    BY <1>5 DEF Noting
  <2>2. ASSUME NEW r \in Roles, NEW x \in Texts
        PROVE  /\ Cardinality(Met(d, chat, r, x)) \in Nat
               /\ Cardinality(Met(e, chat, r, x)) =
                    Cardinality(Met(d, chat, r, x)) + IF <<r, x>> = v THEN 1 ELSE 0
    <3>1. Met(d, chat, r, x) \in SUBSET DOMAIN chat
      BY DEF Met, Of
    <3>2. IsFiniteSet(Met(d, chat, r, x)) /\ Cardinality(Met(d, chat, r, x)) \in Nat
      BY <3>1, PartsFinite
    <3>3. CASE <<r, x>> = v
      <4>1. Met(e, chat, r, x) = Met(d, chat, r, x) \union {i} /\ i \notin Met(d, chat, r, x)
        BY <1>3, <1>5, <2>1, <3>3 DEF Met, Of
      <4>. QED
        BY <3>2, <3>3, <4>1, FS_AddElement
    <3>4. CASE <<r, x>> # v
      <4>1. Met(e, chat, r, x) = Met(d, chat, r, x)
        BY <1>3, <1>5, <2>1, <3>4 DEF Met, Of
      <4>. QED
        BY <3>2, <3>4, <4>1
    <3>. QED
      BY <3>3, <3>4
  <2>3. ASSUME NEW held, i \notin held, NEW r \in Roles, NEW x \in Texts
        PROVE  /\ Cardinality(Unmet(d, chat, held, r, x)) \in Nat
               /\ Cardinality(Unmet(e, chat, held, r, x)) =
                    Cardinality(Unmet(d, chat, held, r, x)) - IF <<r, x>> = v THEN 1 ELSE 0
    <3>1. Unmet(d, chat, held, r, x) \in SUBSET DOMAIN chat
      BY DEF Unmet, Of
    <3>2. IsFiniteSet(Unmet(d, chat, held, r, x)) /\ Cardinality(Unmet(d, chat, held, r, x)) \in Nat
      BY <3>1, PartsFinite
    <3>3. CASE <<r, x>> = v
      <4>1. Unmet(e, chat, held, r, x) = Unmet(d, chat, held, r, x) \ {i} /\ i \in Unmet(d, chat, held, r, x)
        BY <1>3, <1>5, <2>1, <2>3, <3>3 DEF Unmet, Of
      <4>. QED
        BY <3>2, <3>3, <4>1, FS_RemoveElement
    <3>4. CASE <<r, x>> # v
      <4>1. Unmet(e, chat, held, r, x) = Unmet(d, chat, held, r, x)
        BY <1>3, <1>5, <2>1, <3>4 DEF Unmet, Of
      <4>. QED
        BY <3>2, <3>4, <4>1
    <3>. QED
      BY <3>3, <3>4
  <2>4. \A u : Cardinality(Spots(d.pending, u)) \in Nat
    BY <1>2, SpotsFinite
  <2>5. CASE match # {}
    <3>1. PICK p \in match : e.pending = RemoveAt(d.pending, p)
      BY <1>5, <2>5 DEF Noting
    <3>2. e.shown = d.shown
      BY <1>5, <2>5 DEF Noting
    <3>3. p \in DOMAIN d.pending /\ d.pending[p] = v
      BY DEF Spots
    <3>4. \A u : Cardinality(Spots(e.pending, u)) =
                   Cardinality(Spots(d.pending, u)) - IF u = v THEN 1 ELSE 0
      <4>. TAKE u
      <4>. HIDE DEF m, v, match
      <4>1. Cardinality(Spots(RemoveAt(d.pending, p), u)) =
              Cardinality(Spots(d.pending, u)) - IF d.pending[p] = u THEN 1 ELSE 0
        BY <1>2, <3>3, SpotsRemoved
      <4>. QED
        BY <3>1, <3>3, <4>1
    <3>. HIDE DEF m, v, match
    <3>5. ASSUME Balanced(d, chat) PROVE Balanced(e, chat)
      <4>. SUFFICES ASSUME NEW r \in Roles, NEW x \in Texts
                    PROVE  e.shown[r][x] = Cardinality(Met(e, chat, r, x)) + Cardinality(Spots(e.pending, <<r, x>>))
        BY DEF Balanced
      <4>1. d.shown[r][x] = Cardinality(Met(d, chat, r, x)) + Cardinality(Spots(d.pending, <<r, x>>))
        BY <3>5 DEF Balanced
      <4>. QED
        BY <2>2, <2>4, <3>2, <3>4, <4>1
    <3>6. ASSUME NEW held, NEW r \in Roles, NEW w \in [Texts -> Nat], i \notin held, Covered(d, chat, held, r, w)
          PROVE  Covered(e, chat, held, r, w)
      <4>. SUFFICES ASSUME NEW x \in Texts
                    PROVE  Cardinality(Spots(e.pending, <<r, x>>)) <= Cardinality(Unmet(e, chat, held, r, x)) + w[x]
        BY DEF Covered
      <4>1. Cardinality(Spots(d.pending, <<r, x>>)) <= Cardinality(Unmet(d, chat, held, r, x)) + w[x]
        BY <3>6 DEF Covered
      <4>. QED
        BY <2>3, <2>4, <3>4, <3>6, <4>1
    <3>. QED
      BY <2>1, <3>5, <3>6
  <2>6. CASE match = {}
    <3>1. e.pending = d.pending /\ e.shown = [d.shown EXCEPT ![m.role][m.text] = @ + 1]
      BY <1>5, <2>6 DEF Noting
    <3>2. \A r \in Roles, x \in Texts :
            e.shown[r][x] = d.shown[r][x] + IF <<r, x>> = v THEN 1 ELSE 0
      BY <1>1, <1>2, <3>1
    <3>3. Cardinality(Spots(d.pending, v)) = 0
      BY <2>6, FS_EmptySet
    <3>. HIDE DEF m, v, match
    <3>4. ASSUME Balanced(d, chat) PROVE Balanced(e, chat)
      <4>. SUFFICES ASSUME NEW r \in Roles, NEW x \in Texts
                    PROVE  e.shown[r][x] = Cardinality(Met(e, chat, r, x)) + Cardinality(Spots(e.pending, <<r, x>>))
        BY DEF Balanced
      <4>1. d.shown[r][x] = Cardinality(Met(d, chat, r, x)) + Cardinality(Spots(d.pending, <<r, x>>))
        BY <3>4 DEF Balanced
      <4>. QED
        BY <2>2, <2>4, <3>1, <3>2, <4>1
    <3>5. ASSUME NEW held, NEW r \in Roles, NEW w \in [Texts -> Nat], i \notin held, Covered(d, chat, held, r, w)
          PROVE  Covered(e, chat, held, r, w)
      <4>. SUFFICES ASSUME NEW x \in Texts
                    PROVE  Cardinality(Spots(e.pending, <<r, x>>)) <= Cardinality(Unmet(e, chat, held, r, x)) + w[x]
        BY DEF Covered
      <4>1. Cardinality(Spots(d.pending, <<r, x>>)) <= Cardinality(Unmet(d, chat, held, r, x)) + w[x]
        BY <3>5 DEF Covered
      <4>2. Cardinality(Unmet(e, chat, held, r, x)) \in Nat /\ w[x] \in Nat
        <5>1. Unmet(e, chat, held, r, x) \in SUBSET DOMAIN chat
          BY DEF Unmet, Of
        <5>. QED
          BY <5>1, PartsFinite
      <4>3. CASE <<r, x>> = v
        <5>1. Cardinality(Spots(e.pending, <<r, x>>)) = 0
          BY <3>1, <3>3, <4>3
        <5>. DEFINE pending == Cardinality(Spots(e.pending, <<r, x>>))
                    unmet == Cardinality(Unmet(e, chat, held, r, x))
        <5>. HIDE DEF pending, unmet
        <5>2. pending = 0 /\ unmet \in Nat /\ w[x] \in Nat
          BY <4>2, <5>1 DEF pending, unmet
        <5>3. pending <= unmet + w[x]
          BY <5>2
        <5>. QED
          BY <5>3 DEF pending, unmet
      <4>4. CASE <<r, x>> # v
        BY <2>3, <2>4, <3>1, <3>5, <4>1, <4>4
      <4>. QED
        BY <4>3, <4>4
    <3>. QED
      BY <2>1, <3>4, <3>5
  <2>. QED
    BY <2>5, <2>6
<1>. QED
  BY <1>4, <1>5

\* A list is noted message by message.
LEMMA NotedProperties ==
  ASSUME NEW d \in Books, NEW s \in Seq(Messages)
  PROVE  \E h \in [0 .. Len(s) -> Books] :
           /\ h[0] = d /\ Noted(d, s) = h[Len(s)]
           /\ \A n \in 1 .. Len(s) : Noting(h[n - 1], s[n], h[n])
<1>. DEFINE N == Len(s)
            g == [n \in 1 .. N |-> [y \in Books |-> Note(y, s[n])]]
            Is(h) == h = [n \in 0 .. N |-> IF n = 0 THEN d ELSE Note(h[n - 1], s[n])]
            noted == CHOOSE h : Is(h)
<1>1. N \in Nat /\ \A n \in 1 .. N : s[n] \in Messages
  OBVIOUS
<1>2. \A n \in 1 .. N, y \in Books : Note(y, s[n]) \in Books /\ Noting(y, s[n], Note(y, s[n]))
  BY <1>1, NoteProperties DEF Noting
<1>3. g \in [1 .. N -> [Books -> Books]]
  BY <1>2
<1>4. PICK h \in [0 .. N -> Books] : h[0] = d /\ \A n \in 1 .. N : h[n] = g[n][h[n - 1]]
  <2>. HIDE DEF N, g
  <2>1. \E h \in [0 .. N -> Books] : Recurs(h, N, d, g)
    BY <1>1, <1>3, Recursion
  <2>. QED
    BY <2>1 DEF Recurs
<1>5. \A n \in 1 .. N : n - 1 \in 0 .. N /\ h[n] = Note(h[n - 1], s[n])
  BY <1>1, <1>4
<1>6. Is(h)
  BY <1>1, <1>4, <1>5
<1>7. Is(noted)
  <2>. HIDE DEF Is
  <2>. QED
    BY <1>6
<1>8. Noted(d, s) = noted[N]
  BY DEF Noted
<1>. HIDE DEF noted
<1>9. noted[0] = d /\ \A n \in 1 .. N : noted[n] = Note(noted[n - 1], s[n])
  BY <1>1, <1>7
<1>. DEFINE S == {n \in Nat : n <= N => noted[n] \in Books}
<1>10. Nat \subseteq S
  <2>1. 0 \in S
    BY <1>9
  <2>2. ASSUME NEW n \in Nat, n \in S PROVE n + 1 \in S
    BY <1>1, <1>2, <1>9, <2>2
  <2>. HIDE DEF S
  <2>. QED
    BY <2>1, <2>2, Induction
<1>11. \A n \in 0 .. N : noted[n] \in Books
  BY <1>1, <1>10
<1>12. noted \in [0 .. N -> Books]
  BY <1>7, <1>11
<1>13. \A n \in 1 .. N : Noting(noted[n - 1], s[n], noted[n])
  BY <1>1, <1>2, <1>9, <1>11
<1>. QED
  BY <1>8, <1>9, <1>12, <1>13

\* The types, whatever the list is.
LEMMA NotedTyped ==
  ASSUME NEW d \in Books, NEW s \in Seq(Messages)
  PROVE  Noted(d, s) \in Books
<1>1. PICK h \in [0 .. Len(s) -> Books] : Noted(d, s) = h[Len(s)]
  BY NotedProperties
<1>. QED
  BY <1>1

\* Noting how a chat began.
Having(chat, n, d, e) ==
    /\ e.seen = d.seen \union {chat[i].key : i \in 1 .. n}
    /\ Balanced(d, chat) => Balanced(e, chat)
    /\ \A held : \A r \in Roles, w \in [Texts -> Nat] :
         held \cap (1 .. n) = {} /\ Covered(d, chat, held, r, w) => Covered(e, chat, held, r, w)

\* It keeps what noting a message does.
LEMMA NotedKeeps ==
  ASSUME NEW chat \in Seq(Messages), Keyed(chat), NEW s \in Seq(Messages), Begun(s, chat), NEW d \in Books
  PROVE  Having(chat, Len(s), d, Noted(d, s))
<1>. DEFINE N == Len(s)
<1>1. PICK h \in [0 .. N -> Books] :
        /\ h[0] = d /\ Noted(d, s) = h[N]
        /\ \A n \in 1 .. N : Noting(h[n - 1], s[n], h[n])
  BY NotedProperties
<1>2. N \in Nat /\ \A n \in 1 .. N : n \in DOMAIN chat /\ s[n] = chat[n]
  BY DEF Begun
<1>. HIDE DEF N
<1>. DEFINE S == {n \in Nat : n <= N => Having(chat, n, d, h[n])}
<1>3. 0 \in S
  <2>1. 1 .. 0 = {}
    OBVIOUS
  <2>. QED
    BY <1>1, <2>1 DEF Having
<1>4. ASSUME NEW n \in Nat, n \in S PROVE n + 1 \in S
  <2>. SUFFICES ASSUME n + 1 <= N PROVE Having(chat, n + 1, d, h[n + 1])
    OBVIOUS
  <2>1. /\ n + 1 \in 1 .. N /\ (n + 1) - 1 = n /\ n \in 0 .. N
        /\ 1 .. n + 1 = (1 .. n) \union {n + 1}
    BY <1>2
  <2>2. Noting(h[n], chat[n + 1], h[n + 1]) /\ n + 1 \in DOMAIN chat /\ h[n] \in Books
    BY <1>1, <1>2, <2>1
  <2>3. /\ h[n + 1].seen = h[n].seen \union {chat[n + 1].key}
        /\ Balanced(h[n], chat) => Balanced(h[n + 1], chat)
        /\ \A held : \A r \in Roles, w \in [Texts -> Nat] :
             n + 1 \notin held /\ Covered(h[n], chat, held, r, w) => Covered(h[n + 1], chat, held, r, w)
    BY <2>2, NoteKeeps
  <2>4. Having(chat, n, d, h[n])
    BY <1>4, <2>1, <1>2
  <2>5. h[n + 1].seen = d.seen \union {chat[i].key : i \in 1 .. n + 1}
    BY <2>1, <2>3, <2>4 DEF Having
  <2>6. ASSUME NEW held, NEW r \in Roles, NEW w \in [Texts -> Nat],
               held \cap (1 .. n + 1) = {}, Covered(d, chat, held, r, w)
        PROVE  Covered(h[n + 1], chat, held, r, w)
    <3>1. n + 1 \notin held /\ held \cap (1 .. n) = {}
      BY <2>1, <2>6
    <3>2. Covered(h[n], chat, held, r, w)
      BY <2>4, <2>6, <3>1 DEF Having
    <3>. QED
      BY <2>3, <3>1, <3>2
  <2>. QED
    BY <2>3, <2>4, <2>5, <2>6 DEF Having
<1>5. Nat \subseteq S
  <2>. HIDE DEF S
  <2>. QED
    BY <1>3, <1>4, Induction
<1>. QED
  BY <1>1, <1>2, <1>5 DEF N

\* Balance and cover are of what a diary has met, waits for and shows.
LEMMA SameBook ==
  ASSUME NEW d, NEW e, e.seen = d.seen, e.pending = d.pending, e.shown = d.shown, NEW chat
  PROVE  /\ Balanced(d, chat) => Balanced(e, chat)
         /\ \A held : \A r \in Roles, w \in [Texts -> Nat] : Covered(d, chat, held, r, w) => Covered(e, chat, held, r, w)
         /\ Having(chat, 0, d, e)
<1>1. \A r, x : Met(e, chat, r, x) = Met(d, chat, r, x)
  BY DEF Met
<1>2. \A held, r, x : Unmet(e, chat, held, r, x) = Unmet(d, chat, held, r, x)
  BY DEF Unmet
<1>3. Balanced(d, chat) => Balanced(e, chat)
  BY <1>1 DEF Balanced
<1>4. \A held : \A r \in Roles, w \in [Texts -> Nat] : Covered(d, chat, held, r, w) => Covered(e, chat, held, r, w)
  BY <1>2 DEF Covered
<1>5. 1 .. 0 = {}
  OBVIOUS
<1>. QED
  BY <1>3, <1>4, <1>5 DEF Having

\* The effects note the chat of the state they run for.
LEMMA EffectsBook ==
  ASSUME NEW d \in Books, NEW s \in State
  PROVE  /\ Effects(d, s) \in Books
         /\ \A chat \in Seq(Messages) : Keyed(chat) /\ Begun(s.chat, chat) => Having(chat, Len(s.chat), d, Effects(d, s))
<1>. DEFINE e == Effects(d, s)
            b == Noted(d, s.chat)
<1>1. s.chat \in Seq(Messages)
  BY DEF State
<1>2. b \in Books
  BY <1>1, NotedTyped
<1>3. e.seen = b.seen /\ e.pending = b.pending /\ e.shown = b.shown
  BY DEF Effects
<1>4. IsDiary(e)
  BY BookParts, EffectsProperties
<1>. HIDE DEF e, b
<1>5. e \in Books
  BY <1>2, <1>3, <1>4 DEF Books, IsDiary
<1>6. ASSUME NEW chat \in Seq(Messages), Keyed(chat), Begun(s.chat, chat) PROVE Having(chat, Len(s.chat), d, e)
  <2>1. Having(chat, Len(s.chat), d, b)
    BY <1>1, <1>6, NotedKeeps DEF b
  <2>2. /\ Balanced(b, chat) => Balanced(e, chat)
        /\ \A held : \A r \in Roles, w \in [Texts -> Nat] : Covered(b, chat, held, r, w) => Covered(e, chat, held, r, w)
    BY <1>3, SameBook
  <2>. QED
    BY <1>3, <2>1, <2>2 DEF Having
<1>. QED
  BY <1>5, <1>6 DEF e

\* What is said here is waited for, and shown.
LEMMA LocalBook ==
  ASSUME NEW d \in Books, NEW role \in Roles, NEW said \in Texts
  PROVE  LET e == Local(d, role, said) IN
         /\ e \in Books /\ e.seen = d.seen
         /\ \A r \in Roles, x \in Texts :
              /\ Cardinality(Spots(d.pending, <<r, x>>)) \in Nat
              /\ Cardinality(Spots(e.pending, <<r, x>>)) =
                   Cardinality(Spots(d.pending, <<r, x>>)) + IF r = role /\ x = said THEN 1 ELSE 0
              /\ e.shown[r][x] = d.shown[r][x] + IF r = role /\ x = said THEN 1 ELSE 0
<1>. DEFINE e == Local(d, role, said)
<1>1. d.pending \in Seq(Roles \X Texts) /\ d.shown \in [Roles -> [Texts -> Nat]]
  BY BookParts
<1>2. e = [d EXCEPT !.pending = Append(@, <<role, said>>), !.shown[role][said] = @ + 1]
  BY DEF Local
<1>3. Append(d.pending, <<role, said>>) \in Seq(Roles \X Texts)
  BY <1>1
<1>4. [d.shown EXCEPT ![role][said] = @ + 1] \in [Roles -> [Texts -> Nat]]
  BY <1>1
<1>5. /\ e \in Books /\ e.seen = d.seen
      /\ e.pending = Append(d.pending, <<role, said>>)
      /\ e.shown = [d.shown EXCEPT ![role][said] = @ + 1]
  BY <1>2, <1>3, <1>4 DEF Books
<1>. HIDE DEF e
<1>6. ASSUME NEW r \in Roles, NEW x \in Texts
      PROVE  /\ Cardinality(Spots(d.pending, <<r, x>>)) \in Nat
             /\ Cardinality(Spots(e.pending, <<r, x>>)) =
                  Cardinality(Spots(d.pending, <<r, x>>)) + IF r = role /\ x = said THEN 1 ELSE 0
             /\ e.shown[r][x] = d.shown[r][x] + IF r = role /\ x = said THEN 1 ELSE 0
  <2>. DEFINE v == <<role, said>>
              u == <<r, x>>
  <2>1. Cardinality(Spots(d.pending, u)) \in Nat
    BY <1>1, SpotsFinite
  <2>2. v \in Roles \X Texts /\ (v = u <=> r = role /\ x = said)
    OBVIOUS
  <2>3. e.shown[r][x] = d.shown[r][x] + IF r = role /\ x = said THEN 1 ELSE 0
    BY <1>1, <1>5
  <2>4. e.pending = Append(d.pending, v)
    BY <1>5
  <2>5. Cardinality(Spots(e.pending, u)) = Cardinality(Spots(d.pending, u)) + IF v = u THEN 1 ELSE 0
    <3>. DEFINE S == Roles \X Texts
                p == d.pending
    <3>1. p \in Seq(S) /\ v \in S
      BY <1>1, <2>2
    <3>2. \A y : Cardinality(Spots(Append(p, v), y)) = Cardinality(Spots(p, y)) + IF v = y THEN 1 ELSE 0
      <4>. HIDE DEF S, p, v
      <4>. QED
        BY <3>1, SpotsAppend
    <3>. QED
      BY <2>4, <3>2
  <2>. QED
    BY <2>1, <2>2, <2>3, <2>5
<1>. QED
  BY <1>5, <1>6 DEF e

\* So it is balanced; and covered, where there is one more to be met or to be stored.
LEMMA LocalKeeps ==
  ASSUME NEW chat \in Seq(Messages), NEW d \in Books, NEW role \in Roles, NEW said \in Texts
  PROVE  LET e == Local(d, role, said) IN
         /\ Balanced(d, chat) => Balanced(e, chat)
         /\ \A held, held2 : \A r \in Roles, w, w2 \in [Texts -> Nat] :
              /\ Covered(d, chat, held, r, w)
              /\ \A x \in Texts : Cardinality(Unmet(d, chat, held, r, x)) + w[x]
                                    + (IF r = role /\ x = said THEN 1 ELSE 0)
                                      <= Cardinality(Unmet(d, chat, held2, r, x)) + w2[x]
              => Covered(e, chat, held2, r, w2)
<1>. DEFINE e == Local(d, role, said)
<1>1. /\ e \in Books /\ e.seen = d.seen
      /\ \A r \in Roles, x \in Texts :
           /\ Cardinality(Spots(d.pending, <<r, x>>)) \in Nat
           /\ Cardinality(Spots(e.pending, <<r, x>>)) =
                Cardinality(Spots(d.pending, <<r, x>>)) + IF r = role /\ x = said THEN 1 ELSE 0
           /\ e.shown[r][x] = d.shown[r][x] + IF r = role /\ x = said THEN 1 ELSE 0
  BY LocalBook
<1>. HIDE DEF e
<1>2. /\ \A r, x : Met(e, chat, r, x) = Met(d, chat, r, x)
      /\ \A held, r, x : Unmet(e, chat, held, r, x) = Unmet(d, chat, held, r, x)
  BY <1>1 DEF Met, Unmet
<1>3. \A held, r, x : /\ Cardinality(Met(d, chat, r, x)) \in Nat
                      /\ Cardinality(Unmet(d, chat, held, r, x)) \in Nat
  <2>. TAKE held, r, x
  <2>1. Met(d, chat, r, x) \in SUBSET DOMAIN chat /\ Unmet(d, chat, held, r, x) \in SUBSET DOMAIN chat
    BY DEF Met, Unmet, Of
  <2>. QED
    BY <2>1, PartsFinite
<1>4. ASSUME Balanced(d, chat) PROVE Balanced(e, chat)
  <2>. SUFFICES ASSUME NEW r \in Roles, NEW x \in Texts
                PROVE  e.shown[r][x] = Cardinality(Met(e, chat, r, x)) + Cardinality(Spots(e.pending, <<r, x>>))
    BY DEF Balanced
  <2>. DEFINE one == IF r = role /\ x = said THEN 1 ELSE 0
              met == Cardinality(Met(d, chat, r, x))
              there == Cardinality(Spots(d.pending, <<r, x>>))
  <2>1. d.shown[r][x] = met + there
    BY <1>4 DEF Balanced
  <2>2. /\ there \in Nat /\ Cardinality(Spots(e.pending, <<r, x>>)) = there + one
        /\ e.shown[r][x] = d.shown[r][x] + one
    BY <1>1
  <2>3. met \in Nat /\ Cardinality(Met(e, chat, r, x)) = met
    BY <1>2, <1>3
  <2>4. one \in Nat
    OBVIOUS
  <2>. HIDE DEF one, met, there
  <2>. QED
    BY <2>1, <2>2, <2>3, <2>4
<1>5. ASSUME NEW held, NEW held2, NEW r \in Roles, NEW w \in [Texts -> Nat], NEW w2 \in [Texts -> Nat],
             Covered(d, chat, held, r, w),
             \A x \in Texts : Cardinality(Unmet(d, chat, held, r, x)) + w[x]
                                + (IF r = role /\ x = said THEN 1 ELSE 0)
                                  <= Cardinality(Unmet(d, chat, held2, r, x)) + w2[x]
      PROVE  Covered(e, chat, held2, r, w2)
  <2>. SUFFICES ASSUME NEW x \in Texts
                PROVE  Cardinality(Spots(e.pending, <<r, x>>)) <= Cardinality(Unmet(e, chat, held2, r, x)) + w2[x]
    BY DEF Covered
  <2>. DEFINE one == IF r = role /\ x = said THEN 1 ELSE 0
              before == Cardinality(Unmet(d, chat, held, r, x)) + w[x]
              after == Cardinality(Unmet(d, chat, held2, r, x)) + w2[x]
              there == Cardinality(Spots(d.pending, <<r, x>>))
  <2>1. there <= before
    BY <1>5 DEF Covered
  <2>2. before \in Nat /\ after \in Nat
    <3>1. w[x] \in Nat /\ w2[x] \in Nat
      OBVIOUS
    <3>2. Cardinality(Unmet(d, chat, held, r, x)) \in Nat /\ Cardinality(Unmet(d, chat, held2, r, x)) \in Nat
      BY <1>3
    <3>. QED
      BY <3>1, <3>2
  <2>3. before + one <= after
    BY <1>5
  <2>4. there \in Nat /\ Cardinality(Spots(e.pending, <<r, x>>)) = there + one
    BY <1>1
  <2>5. Cardinality(Unmet(e, chat, held2, r, x)) = Cardinality(Unmet(d, chat, held2, r, x))
    BY <1>2
  <2>6. one \in Nat
    OBVIOUS
  <2>7. there + one <= after
    <3>. HIDE DEF one, before, after, there
    <3>. QED
      BY <2>1, <2>2, <2>3, <2>4, <2>6
  <2>. QED
    BY <2>4, <2>5, <2>7
<1>. QED
  BY <1>4, <1>5 DEF e

\* What is said here is balanced by its being waited for; a message that is new to the chat is
\* still to be met, unless it is held.
LEMMA SaidKeeps ==
  ASSUME NEW chat \in Seq(Messages), NEW m \in Messages, Keyed(chat),
         m.key = <<0, Len(chat)>>, m.text = TextOf[m.of],
         NEW d \in Books, d.seen \subseteq {chat[i].key : i \in DOMAIN chat}
  PROVE  LET more == Append(chat, m) IN
         /\ Keyed(more) /\ d.seen \subseteq {more[i].key : i \in DOMAIN more} /\ m.key \notin d.seen
         /\ \A s : Begun(s, chat) => Begun(s, more)
         /\ Balanced(d, chat) => Balanced(d, more)
         /\ \A held, held2 : held2 \cap DOMAIN chat \subseteq held =>
              \A r \in Roles, x \in Texts :
                /\ Cardinality(Unmet(d, chat, held, r, x)) \in Nat
                /\ Cardinality(Unmet(d, more, held2, r, x)) \in Nat
                /\ Cardinality(Unmet(d, chat, held, r, x))
                     + (IF r = m.role /\ x = m.text /\ Len(chat) + 1 \notin held2 THEN 1 ELSE 0)
                       <= Cardinality(Unmet(d, more, held2, r, x))
<1>. DEFINE more == Append(chat, m)
            N == Len(chat)
<1>1. /\ more \in Seq(Messages) /\ Len(more) = N + 1 /\ N \in Nat
      /\ DOMAIN chat = 1 .. N /\ DOMAIN more = 1 .. N + 1
      /\ \A i \in 1 .. N : more[i] = chat[i]
      /\ more[N + 1] = m
  OBVIOUS
<1>2. m.key \notin d.seen
  BY <1>1 DEF Keyed
<1>. HIDE DEF more
<1>3. Keyed(more)
  BY <1>1 DEF Keyed
<1>4. d.seen \subseteq {more[i].key : i \in DOMAIN more}
  BY <1>1
<1>5. ASSUME NEW s, Begun(s, chat) PROVE Begun(s, more)
  <2>1. Len(s) <= N /\ \A i \in DOMAIN s : s[i] = chat[i]
    BY <1>5 DEF Begun
  <2>. QED
    BY <1>1, <2>1 DEF Begun
<1>6. ASSUME NEW r \in Roles, NEW x \in Texts PROVE Met(d, more, r, x) = Met(d, chat, r, x)
  <2>1. Met(d, chat, r, x) \subseteq Met(d, more, r, x)
    BY <1>1 DEF Met, Of
  <2>2. Met(d, more, r, x) \subseteq Met(d, chat, r, x)
    <3>. SUFFICES ASSUME NEW i \in Met(d, more, r, x) PROVE i \in Met(d, chat, r, x)
      OBVIOUS
    <3>1. i \in 1 .. N + 1 /\ more[i].key \in d.seen /\ more[i].role = r /\ more[i].text = x
      BY <1>1 DEF Met, Of
    <3>2. i # N + 1
      BY <1>1, <1>2, <3>1
    <3>3. i \in 1 .. N
      BY <1>1, <3>1, <3>2
    <3>. QED
      BY <1>1, <3>1, <3>3 DEF Met, Of
  <2>. QED
    BY <2>1, <2>2
<1>7. Balanced(d, chat) => Balanced(d, more)
  <2>. HIDE DEF N
  <2>. QED
    BY <1>6 DEF Balanced
<1>8. ASSUME NEW held, NEW held2, held2 \cap DOMAIN chat \subseteq held, NEW r \in Roles, NEW x \in Texts
      PROVE  /\ Cardinality(Unmet(d, chat, held, r, x)) \in Nat
             /\ Cardinality(Unmet(d, more, held2, r, x)) \in Nat
             /\ Cardinality(Unmet(d, chat, held, r, x))
                  + (IF r = m.role /\ x = m.text /\ N + 1 \notin held2 THEN 1 ELSE 0)
                    <= Cardinality(Unmet(d, more, held2, r, x))
  <2>. DEFINE A == Unmet(d, chat, held, r, x)
              B == Unmet(d, more, held2, r, x)
  <2>1. A \in SUBSET (1 .. N) /\ B \in SUBSET (1 .. N + 1)
    BY <1>1 DEF Unmet, Of
  <2>2. IsFiniteSet(A) /\ IsFiniteSet(B) /\ Cardinality(A) \in Nat /\ Cardinality(B) \in Nat
    BY <1>1, <2>1, PartsFinite
  <2>3. A \subseteq B
    BY <1>1, <1>8 DEF Unmet, Of
  <2>4. ASSUME r = m.role, x = m.text, N + 1 \notin held2 PROVE Cardinality(A) + 1 <= Cardinality(B)
    <3>1. N + 1 \in B
      <4>1. N + 1 \in DOMAIN more
        BY <1>1
      <4>2. more[N + 1].role = r /\ more[N + 1].text = x /\ more[N + 1].key \notin d.seen
        BY <1>1, <1>2, <2>4
      <4>. HIDE DEF N
      <4>. QED
        BY <2>4, <4>1, <4>2 DEF Unmet, Of
    <3>2. N + 1 \notin A
      BY <1>1, <2>1
    <3>. HIDE DEF A, B
    <3>3. A \union {N + 1} \subseteq B
      BY <2>3, <3>1
    <3>4. Cardinality(A \union {N + 1}) = Cardinality(A) + 1 /\ Cardinality(A \union {N + 1}) <= Cardinality(B)
      BY <2>2, <3>2, <3>3, FS_AddElement, FS_Subset
    <3>. QED
      BY <3>4
  <2>5. Cardinality(A) <= Cardinality(B)
    <3>. HIDE DEF A, B
    <3>. QED
      BY <2>2, <2>3, FS_Subset
  <2>. QED
    BY <2>2, <2>4, <2>5
<1>. QED
  BY <1>2, <1>3, <1>4, <1>5, <1>7, <1>8 DEF more

\* What is covered stays so with more to meet, or to store.
LEMMA CoverGrows ==
  ASSUME NEW d \in Books, NEW chat, NEW more, NEW held, NEW held2, NEW r \in Roles,
         NEW w \in [Texts -> Nat], NEW w2 \in [Texts -> Nat],
         Covered(d, chat, held, r, w),
         \A x \in Texts :
           /\ Cardinality(Unmet(d, chat, held, r, x)) \in Nat
           /\ Cardinality(Unmet(d, more, held2, r, x)) \in Nat
           /\ Cardinality(Unmet(d, chat, held, r, x)) + w[x] <= Cardinality(Unmet(d, more, held2, r, x)) + w2[x]
  PROVE  Covered(d, more, held2, r, w2)
<1>. SUFFICES ASSUME NEW x \in Texts
              PROVE  Cardinality(Spots(d.pending, <<r, x>>)) <= Cardinality(Unmet(d, more, held2, r, x)) + w2[x]
  BY DEF Covered
<1>. DEFINE there == Cardinality(Spots(d.pending, <<r, x>>))
            before == Cardinality(Unmet(d, chat, held, r, x)) + w[x]
            after == Cardinality(Unmet(d, more, held2, r, x)) + w2[x]
<1>1. there <= before /\ before <= after
  BY DEF Covered
<1>2. there \in Nat
  BY BookParts, SpotsFinite
<1>3. before \in Nat /\ after \in Nat
  <2>1. w[x] \in Nat /\ w2[x] \in Nat
    OBVIOUS
  <2>. QED
    BY <2>1
<1>. HIDE DEF there, before, after
<1>4. there <= after
  BY <1>1, <1>2, <1>3
<1>. QED
  BY <1>4 DEF there, after

\* Fewer that are held are more to meet.
LEMMA HeldShrinks ==
  ASSUME NEW chat \in Seq(Messages), NEW d, NEW held, NEW held2, held2 \subseteq held, NEW r, NEW x
  PROVE  /\ Cardinality(Unmet(d, chat, held, r, x)) \in Nat
         /\ Cardinality(Unmet(d, chat, held2, r, x)) \in Nat
         /\ Cardinality(Unmet(d, chat, held, r, x)) <= Cardinality(Unmet(d, chat, held2, r, x))
         /\ \A j \in Unmet(d, chat, held2, r, x) : j \in held =>
              Cardinality(Unmet(d, chat, held, r, x)) + 1 <= Cardinality(Unmet(d, chat, held2, r, x))
<1>. DEFINE A == Unmet(d, chat, held, r, x)
            B == Unmet(d, chat, held2, r, x)
<1>1. A \in SUBSET DOMAIN chat /\ B \in SUBSET DOMAIN chat /\ A \subseteq B /\ \A j \in held : j \notin A
  BY DEF Unmet, Of
<1>2. IsFiniteSet(A) /\ IsFiniteSet(B) /\ Cardinality(A) \in Nat /\ Cardinality(B) \in Nat
  BY <1>1, PartsFinite
<1>3. Cardinality(A) <= Cardinality(B)
  <2>. HIDE DEF A, B
  <2>. QED
    BY <1>1, <1>2, FS_Subset
<1>4. ASSUME NEW j \in B, j \in held PROVE Cardinality(A) + 1 <= Cardinality(B)
  <2>. HIDE DEF A, B
  <2>1. A \union {j} \subseteq B /\ j \notin A
    BY <1>1, <1>4
  <2>2. Cardinality(A \union {j}) = Cardinality(A) + 1 /\ Cardinality(A \union {j}) <= Cardinality(B)
    BY <1>2, <2>1, FS_AddElement, FS_Subset
  <2>. QED
    BY <2>2
<1>. QED
  BY <1>2, <1>3, <1>4

\* How often a text is to be stored.
LEMMA ToStoreTyped ==
  ASSUME IsFiniteSet(Sending)
  PROVE  /\ To_store \in [Texts -> Nat] /\ None_stored \in [Texts -> Nat]
         /\ \A x \in Texts : IsFiniteSet({c \in Sending : TextOf[c] = x})
<1>1. ASSUME NEW x \in Texts
      PROVE  IsFiniteSet({c \in Sending : TextOf[c] = x}) /\ Cardinality({c \in Sending : TextOf[c] = x}) \in Nat
  <2>1. {c \in Sending : TextOf[c] = x} \subseteq Sending
    OBVIOUS
  <2>. QED
    BY <2>1, FS_Subset, FS_CardinalityType
<1>. QED
  BY <1>1 DEF To_store, None_stored

\* Of what is on the screen, the diary has all that its effects noted.
LEMMA ApplyBook ==
  ASSUME TermTyped, NEW s \in State, NEW d \in Books, Apply(s, d)
  PROVE  /\ diary' \in Books /\ screen' = s /\ rendered' = FALSE /\ missed \subseteq missed'
         /\ \A chat \in Seq(Messages) : Keyed(chat) /\ (screen # None => Begun(screen.chat, chat)) =>
              \E n \in Nat : /\ Having(chat, n, d, diary')
                             /\ n = 0 \/ (screen # None /\ n = Len(screen.chat))
<1>1. screen' = s /\ rendered' = FALSE /\ missed \subseteq missed' /\ diary' = Flushed(d)
  BY DEF Apply
<1>2. CASE rendered
  <2>1. diary' = d
    BY <1>1, <1>2 DEF Flushed
  <2>2. \A chat : Having(chat, 0, d, diary')
    BY <2>1, SameBook
  <2>. QED
    BY <1>1, <2>1, <2>2
<1>3. CASE ~rendered
  <2>1. diary' = Effects(d, screen) /\ screen \in State /\ screen # None
    BY <1>1, <1>3, StateAssumption DEF Flushed, TermTyped
  <2>2. diary' \in Books /\ screen.chat \in Seq(Messages)
    BY <2>1, EffectsBook DEF State
  <2>3. ASSUME NEW chat \in Seq(Messages), Keyed(chat), screen # None => Begun(screen.chat, chat)
        PROVE  Len(screen.chat) \in Nat /\ Having(chat, Len(screen.chat), d, diary')
    BY <2>1, <2>2, <2>3, EffectsBook
  <2>. QED
    BY <1>1, <2>1, <2>2, <2>3
<1>. QED
  BY <1>2, <1>3

\* A state that is shown keeps the invariant, if what its effects start from has it: a reply that
\* is held is not among what is shown, unless it came early.
LEMMA ChatShown ==
  ASSUME TermTyped, ChatInv, srv' = srv, Carried,
         \A c \in ChatTurns : talk'[c].at = "replied" => talk'[c] = talk[c], TurnReplies',
         NEW s \in State, Begun(s.chat, srv.chat),
         NEW d \in Books, d.seen = diary.seen, Apply(s, d),
         Balanced(d, srv.chat),
         "early" \notin missed => Covered(d, srv.chat, Held', "assistant", None_stored),
         "unheard" \notin missed => Covered(d, srv.chat, {}, "user", To_store'),
         To_store' \in [Texts -> Nat]
  PROVE  diary' \in Books /\ ChatInv'
<1>. DEFINE chat == srv.chat
            keys == {chat[i].key : i \in DOMAIN chat}
<1>1. /\ diary' \in Books /\ screen' = s /\ rendered' = FALSE /\ missed \subseteq missed'
      /\ \A c \in Seq(Messages) : Keyed(c) /\ (screen # None => Begun(screen.chat, c)) =>
           \E n \in Nat : Having(c, n, d, diary') /\ (n = 0 \/ (screen # None /\ n = Len(screen.chat)))
  BY ApplyBook
<1>2. /\ chat \in Seq(Messages) /\ Keyed(chat) /\ AllBegun /\ diary.seen \subseteq keys
      /\ "early" \notin missed => HeldBack
  BY DEF TermTyped, State, ChatInv
<1>3. PICK n \in Nat : Having(chat, n, d, diary') /\ (n = 0 \/ (screen # None /\ n = Len(screen.chat)))
  BY <1>1, <1>2 DEF AllBegun
<1>4. n <= Len(chat) /\ Len(chat) \in Nat
  <2>1. Len(chat) \in Nat
    BY <1>2
  <2>2. screen # None => Len(screen.chat) <= Len(chat)
    BY <1>2 DEF AllBegun, Begun
  <2>. QED
    BY <1>3, <2>1, <2>2
<1>5. 1 .. n \subseteq DOMAIN chat
  BY <1>2, <1>4
<1>6. diary'.seen \subseteq keys
  BY <1>2, <1>3, <1>5 DEF Having
<1>7. Held' \subseteq Held /\ Held \subseteq DOMAIN chat
  BY DEF Held, Replies
<1>8. ASSUME HeldBack PROVE Held \cap (1 .. n) = {}
  <2>. SUFFICES ASSUME NEW i \in Held, i \in 1 .. n PROVE FALSE
    OBVIOUS
  <2>1. screen # None => Len(screen.chat) < i
    BY <1>8 DEF HeldBack
  <2>2. i <= n /\ n \in Nat /\ i \in Nat /\ i > 0
    BY <1>3
  <2>. QED
    BY <1>3, <2>1, <2>2
<1>. HIDE DEF chat
<1>9. Balanced(diary', chat)
  BY <1>3 DEF Having, chat
<1>10. ASSUME "unheard" \notin missed PROVE Covered(diary', chat, {}, "user", To_store')
  <2>1. Covered(d, chat, {}, "user", To_store') /\ {} \cap (1 .. n) = {} /\ "user" \in Roles
    BY <1>10 DEF chat, Roles
  <2>. QED
    BY <1>3, <2>1 DEF Having
<1>11. ASSUME "early" \notin missed PROVE Covered(diary', chat, Held', "assistant", None_stored)
  <2>1. Covered(d, chat, Held', "assistant", None_stored)
    BY <1>11 DEF chat
  <2>2. Held' \cap (1 .. n) = {}
    BY <1>2, <1>7, <1>8, <1>11
  <2>3. None_stored \in [Texts -> Nat] /\ "assistant" \in Roles
    BY DEF None_stored, Roles
  <2>. QED
    BY <1>3, <2>1, <2>2, <2>3 DEF Having
<1>12. ASSUME "early" \notin missed', NEW i \in Held'
       PROVE  chat[i].key \notin diary'.seen /\ Len(s.chat) < i
  <2>1. "early" \notin missed /\ ~Early(s)
    BY <1>1, <1>12 DEF Apply
  <2>2. i \in Held /\ i \in DOMAIN chat
    BY <1>7, <1>12 DEF chat
  <2>3. chat[i].key \notin diary.seen /\ i \notin 1 .. n
    BY <1>2, <1>8, <2>1, <2>2 DEF HeldBack, chat
  <2>4. ASSUME NEW j \in 1 .. n PROVE chat[j].key # chat[i].key
    <3>1. j \in DOMAIN chat /\ chat[j].key = <<0, j - 1>> /\ chat[i].key = <<0, i - 1>> /\ j # i
      BY <1>2, <1>5, <2>2, <2>3 DEF Keyed, chat
    <3>2. i \in Nat /\ j \in Nat
      BY <1>2, <2>2
    <3>. QED
      BY <3>1, <3>2
  <2>5. chat[i].key \notin diary'.seen
    BY <1>3, <2>3, <2>4 DEF Having
  <2>6. PICK c \in ChatTurns : talk'[c].at = "replied" /\ i \in Replies(c)'
    BY <1>12 DEF Held
  <2>7. chat[i].role = "assistant" /\ chat[i].of = c
    BY <2>6 DEF Replies, chat
  <2>8. i \notin DOMAIN s.chat
    <3>. SUFFICES ASSUME i \in DOMAIN s.chat PROVE FALSE
      OBVIOUS
    <3>1. s.chat[i] = chat[i]
      BY DEF Begun, chat
    <3>. QED
      BY <2>1, <2>6, <2>7, <3>1 DEF Early
  <2>9. s.chat \in Seq(Messages) /\ i \in Nat /\ i >= 1
    BY <1>2, <2>2 DEF State
  <2>10. Len(s.chat) < i
    BY <2>8, <2>9
  <2>. QED
    BY <2>5, <2>10
<1>13. HeldBack' \/ "early" \in missed'
  BY <1>1, <1>12 DEF HeldBack, chat
<1>14. AllBegun'
  <2>1. screen' # None => Begun(screen'.chat, srv'.chat)
    BY <1>1
  <2>2. ASSUME NEW k \in DOMAIN reads', reads'[k].got # None PROVE Begun((reads'[k].got).chat, srv'.chat)
    <3>1. PICK j \in DOMAIN reads : reads'[k] = reads[j]
      BY <2>2 DEF Carried
    <3>. QED
      BY <1>2, <2>2, <3>1 DEF AllBegun
  <2>3. ASSUME NEW c \in ChatTurns, talk'[c].at = "replied" PROVE Begun(talk'[c].frame.chat, srv'.chat)
    BY <1>2, <2>3 DEF AllBegun
  <2>. QED
    BY <2>1, <2>2, <2>3 DEF AllBegun
<1>15. Keyed(srv'.chat) /\ diary'.seen \subseteq {srv'.chat[i].key : i \in DOMAIN srv'.chat}
  BY <1>2, <1>6 DEF chat
<1>16. /\ Balanced(diary', srv'.chat) /\ rendered' = FALSE
       /\ "early" \notin missed' => HeldBack' /\ Covered(diary', srv'.chat, Held', "assistant", None_stored)
       /\ "unheard" \notin missed' => Covered(diary', srv'.chat, {}, "user", To_store')
  BY <1>1, <1>9, <1>10, <1>11, <1>13 DEF chat
<1>17. None_stored' = None_stored
  BY DEF None_stored
<1>. QED
  BY <1>1, <1>14, <1>15, <1>16, <1>17 DEF ChatInv

\* A step that neither says nor shows anything.
LEMMA ChatQuiet ==
  ASSUME TermTyped, TranscriptInv, UNCHANGED <<screen, rendered, diary, talk>>, missed \subseteq missed',
         srv'.gen = 0 => srv.gen = 0 /\ srv'.chat = srv.chat,
         \A k \in DOMAIN reads' : \/ reads'[k].got \in {None, srv'}
                                  \/ \E j \in DOMAIN reads : reads'[k] = reads[j]
  PROVE  TranscriptInv'
<1>1. Sending' = Sending /\ diary' \in Books
  BY DEF Sending, TranscriptInv
<1>2. ASSUME srv'.gen = 0 PROVE ChatInv'
  <2>1. ChatInv /\ srv'.chat = srv.chat
    BY <1>2 DEF TranscriptInv
  <2>2. \A c : Replies(c)' = Replies(c)
    BY <2>1 DEF Replies
  <2>3. Held' = Held
    BY <2>2 DEF Held
  <2>4. To_store' = To_store /\ None_stored' = None_stored
    BY <1>1 DEF To_store, None_stored
  <2>5. TurnReplies' /\ (HeldBack => HeldBack')
    BY <2>1, <2>2, <2>3 DEF TurnReplies, HeldBack, ChatInv
  <2>6. ASSUME NEW k \in DOMAIN reads', reads'[k].got # None PROVE Begun((reads'[k].got).chat, srv'.chat)
    <3>1. CASE reads'[k].got = srv'
      BY <3>1, <2>1 DEF Begun, TermTyped, State
    <3>2. CASE \E j \in DOMAIN reads : reads'[k] = reads[j]
      BY <2>1, <2>6, <3>2 DEF ChatInv, AllBegun
    <3>. QED
      BY <2>6, <3>1, <3>2
  <2>7. AllBegun'
    BY <2>1, <2>6 DEF ChatInv, AllBegun
  <2>. QED
    BY <2>1, <2>3, <2>4, <2>5, <2>7 DEF ChatInv
<1>. QED
  BY <1>1, <1>2 DEF TranscriptInv

\* So it is after a step.
LEMMA ToStoreAfter ==
  ASSUME IsFiniteSet(Sending') PROVE To_store' \in [Texts -> Nat]
<1>1. ASSUME NEW x \in Texts PROVE Cardinality({c \in Sending' : TextOf[c] = x}) \in Nat
  <2>1. {c \in Sending' : TextOf[c] = x} \subseteq Sending'
    OBVIOUS
  <2>. QED
    BY <2>1, FS_Subset, FS_CardinalityType
<1>. QED
  BY <1>1 DEF To_store

\* What the server stores is said: by somebody else, or by a turn of this client, which then has
\* less to store, or a reply whose `done' is to come.
LEMMA ChatSaid ==
  ASSUME TermTyped, TranscriptInv, NEW role \in Roles, NEW of \in DOMAIN TextOf, Says(role, of),
         UNCHANGED <<reads, screen, rendered, diary, missed>>,
         IsFiniteSet(Sending'), TurnReplies => TurnReplies',
         \A c \in ChatTurns : talk'[c].at = "replied" => talk'[c] = talk[c] \/ talk'[c].frame = srv',
         TurnReplies => Held' \cap DOMAIN srv.chat \subseteq Held,
         \A x \in Texts : To_store[x] <= To_store'[x] + IF role = "user" /\ TextOf[of] = x THEN 1 ELSE 0
  PROVE  TranscriptInv'
<1>. DEFINE chat == srv.chat
            m == Message(role, of)
            more == Append(chat, m)
<1>1. srv \in State /\ chat \in Seq(Messages)
  BY DEF TermTyped, State
<1>2. srv'.gen = srv.gen /\ srv'.chat = more
  BY <1>1 DEF Says, State
<1>3. m.role = role /\ m.text = TextOf[of] /\ m.of = of /\ m.key = <<srv.gen, Len(chat)>>
  BY DEF Message
<1>4. m \in Messages
  <2>1. srv.gen \in Nat /\ Len(chat) \in Nat /\ TextOf[of] \in Texts
    BY <1>1 DEF State, Texts
  <2>. QED
    BY <2>1 DEF Message, Messages
<1>5. diary \in Books /\ diary' = diary
  BY DEF TranscriptInv
<1>. HIDE DEF m
<1>6. ASSUME srv'.gen = 0 PROVE ChatInv'
  <2>1. ChatInv /\ m.key = <<0, Len(chat)>>
    BY <1>2, <1>3, <1>6 DEF TranscriptInv
  <2>2. Keyed(chat) /\ diary.seen \subseteq {chat[i].key : i \in DOMAIN chat} /\ TurnReplies /\ AllBegun
    BY <2>1 DEF ChatInv
  <2>. HIDE DEF chat
  <2>3. /\ Keyed(more) /\ diary.seen \subseteq {more[i].key : i \in DOMAIN more} /\ m.key \notin diary.seen
        /\ \A s : Begun(s, chat) => Begun(s, more)
        /\ Balanced(diary, chat) => Balanced(diary, more)
        /\ \A held, held2 : held2 \cap DOMAIN chat \subseteq held =>
             \A r \in Roles, x \in Texts :
               /\ Cardinality(Unmet(diary, chat, held, r, x)) \in Nat
               /\ Cardinality(Unmet(diary, more, held2, r, x)) \in Nat
               /\ Cardinality(Unmet(diary, chat, held, r, x))
                    + (IF r = m.role /\ x = m.text /\ Len(chat) + 1 \notin held2 THEN 1 ELSE 0)
                      <= Cardinality(Unmet(diary, more, held2, r, x))
    BY <1>1, <1>3, <1>4, <1>5, <2>1, <2>2, SaidKeeps
  <2>4. AllBegun'
    <3>1. Begun(srv'.chat, srv'.chat)
      BY <1>1, <1>2, <1>4 DEF Begun
    <3>2. screen' # None => Begun(screen'.chat, srv'.chat)
      BY <1>2, <2>2, <2>3 DEF AllBegun, chat
    <3>3. \A i \in DOMAIN reads' : reads'[i].got # None => Begun((reads'[i].got).chat, srv'.chat)
      BY <1>2, <2>2, <2>3 DEF AllBegun, chat
    <3>4. \A c \in ChatTurns : talk'[c].at = "replied" => Begun(talk'[c].frame.chat, srv'.chat)
      BY <1>2, <2>2, <2>3, <3>1 DEF AllBegun, chat
    <3>. QED
      BY <3>2, <3>3, <3>4 DEF AllBegun
  <2>5. ASSUME "early" \notin missed PROVE HeldBack' /\ Covered(diary, more, Held', "assistant", None_stored)
    <3>1. HeldBack /\ Covered(diary, chat, Held, "assistant", None_stored)
      BY <2>1, <2>5 DEF ChatInv, chat
    <3>2. ASSUME NEW i \in Held' PROVE more[i].key \notin diary.seen /\ (screen # None => Len(screen.chat) < i)
      <4>1. i \in DOMAIN more
        BY <1>2, <3>2 DEF Held, Replies
      <4>2. CASE i \in DOMAIN chat
        <5>1. i \in Held /\ more[i] = chat[i]
          BY <1>1, <1>4, <2>2, <3>2, <4>2 DEF chat
        <5>. QED
          BY <3>1, <5>1 DEF HeldBack, chat
      <4>3. CASE i \notin DOMAIN chat
        <5>1. i = Len(chat) + 1 /\ more[i] = m /\ Len(chat) \in Nat
          BY <1>1, <1>4, <4>1, <4>3
        <5>2. screen # None => Len(screen.chat) \in Nat /\ Len(screen.chat) <= Len(chat)
          BY <2>2 DEF AllBegun, Begun, TermTyped, State, chat
        <5>. QED
          BY <2>3, <5>1, <5>2
      <4>. QED
        BY <4>2, <4>3
    <3>3. HeldBack'
      BY <1>2, <1>5, <3>2 DEF HeldBack
    <3>4. Held' \cap DOMAIN chat \subseteq Held /\ "assistant" \in Roles
      BY <2>2 DEF chat, Roles
    <3>5. None_stored \in [Texts -> Nat] /\ \A x \in Texts : None_stored[x] = 0
      BY DEF None_stored
    <3>6. ASSUME NEW x \in Texts
          PROVE  /\ Cardinality(Unmet(diary, chat, Held, "assistant", x)) \in Nat
                 /\ Cardinality(Unmet(diary, more, Held', "assistant", x)) \in Nat
                 /\ Cardinality(Unmet(diary, chat, Held, "assistant", x)) + None_stored[x]
                      <= Cardinality(Unmet(diary, more, Held', "assistant", x)) + None_stored[x]
      <4>1. /\ Cardinality(Unmet(diary, chat, Held, "assistant", x)) \in Nat
            /\ Cardinality(Unmet(diary, more, Held', "assistant", x)) \in Nat
            /\ Cardinality(Unmet(diary, chat, Held, "assistant", x))
                 + (IF "assistant" = m.role /\ x = m.text /\ Len(chat) + 1 \notin Held' THEN 1 ELSE 0)
                   <= Cardinality(Unmet(diary, more, Held', "assistant", x))
        BY <2>3, <3>4
      <4>. QED
        BY <3>5, <4>1
    <3>7. Covered(diary, more, Held', "assistant", None_stored)
      BY <1>5, <3>1, <3>4, <3>5, <3>6, CoverGrows
    <3>. QED
      BY <3>3, <3>7
  <2>6. ASSUME "unheard" \notin missed PROVE Covered(diary, more, {}, "user", To_store')
    <3>1. Covered(diary, chat, {}, "user", To_store) /\ "user" \in Roles
      BY <2>1, <2>6 DEF ChatInv, chat, Roles
    <3>2. To_store \in [Texts -> Nat] /\ To_store' \in [Texts -> Nat]
      BY ToStoreTyped, ToStoreAfter DEF TranscriptInv
    <3>3. ASSUME NEW x \in Texts
          PROVE  /\ Cardinality(Unmet(diary, chat, {}, "user", x)) \in Nat
                 /\ Cardinality(Unmet(diary, more, {}, "user", x)) \in Nat
                 /\ Cardinality(Unmet(diary, chat, {}, "user", x)) + To_store[x]
                      <= Cardinality(Unmet(diary, more, {}, "user", x)) + To_store'[x]
      <4>1. /\ Cardinality(Unmet(diary, chat, {}, "user", x)) \in Nat
            /\ Cardinality(Unmet(diary, more, {}, "user", x)) \in Nat
            /\ Cardinality(Unmet(diary, chat, {}, "user", x))
                 + (IF "user" = m.role /\ x = m.text /\ Len(chat) + 1 \notin {} THEN 1 ELSE 0)
                   <= Cardinality(Unmet(diary, more, {}, "user", x))
        BY <2>3, <3>1
      <4>2. To_store[x] <= To_store'[x] + (IF role = "user" /\ TextOf[of] = x THEN 1 ELSE 0)
        OBVIOUS
      <4>3. To_store[x] \in Nat /\ To_store'[x] \in Nat
        BY <3>2
      <4>. QED
        BY <1>3, <4>1, <4>2, <4>3
    <3>. QED
      BY <1>5, <3>1, <3>2, <3>3, CoverGrows
  <2>7. TurnReplies' /\ None_stored' = None_stored
    BY <2>2 DEF None_stored
  <2>8. rendered' /\ screen' # None => \A i \in DOMAIN screen'.chat : screen'.chat[i].key \in diary'.seen
    BY <2>1 DEF ChatInv
  <2>. QED
    BY <1>2, <1>5, <2>1, <2>3, <2>4, <2>5, <2>6, <2>7, <2>8 DEF ChatInv, chat
<1>. QED
  BY <1>5, <1>6 DEF TranscriptInv

\* What is to be stored once a turn is sent, or stored.
LEMMA ToStoreMoves ==
  ASSUME IsFiniteSet(Sending), NEW c
  PROVE  /\ Sending' = Sending \ {c} =>
              /\ IsFiniteSet(Sending')
              /\ \A x \in Texts : To_store[x] <= To_store'[x] + IF TextOf[c] = x THEN 1 ELSE 0
         /\ Sending' = Sending \union {c} /\ c \notin Sending =>
              /\ IsFiniteSet(Sending')
              /\ \A x \in Texts : To_store[x] + (IF TextOf[c] = x THEN 1 ELSE 0) <= To_store'[x]
<1>1. ASSUME Sending' = Sending \ {c}
      PROVE  /\ IsFiniteSet(Sending')
             /\ \A x \in Texts : To_store[x] <= To_store'[x] + IF TextOf[c] = x THEN 1 ELSE 0
  <2>1. IsFiniteSet(Sending')
    BY <1>1, FS_Subset
  <2>2. ASSUME NEW x \in Texts PROVE To_store[x] <= To_store'[x] + IF TextOf[c] = x THEN 1 ELSE 0
    <3>. DEFINE A == {b \in Sending : TextOf[b] = x}
                B == {b \in Sending' : TextOf[b] = x}
    <3>1. B = A \ {c} /\ (c \in A => TextOf[c] = x)
      BY <1>1
    <3>2. IsFiniteSet(A) /\ Cardinality(A) \in Nat
      BY ToStoreTyped, FS_CardinalityType
    <3>3. To_store[x] = Cardinality(A) /\ To_store'[x] = Cardinality(B)
      BY DEF To_store
    <3>. HIDE DEF A, B
    <3>4. Cardinality(B) = IF c \in A THEN Cardinality(A) - 1 ELSE Cardinality(A)
      BY <3>1, <3>2, FS_RemoveElement
    <3>. QED
      BY <3>1, <3>2, <3>3, <3>4
  <2>. QED
    BY <2>1, <2>2
<1>2. ASSUME Sending' = Sending \union {c}, c \notin Sending
      PROVE  /\ IsFiniteSet(Sending')
             /\ \A x \in Texts : To_store[x] + (IF TextOf[c] = x THEN 1 ELSE 0) <= To_store'[x]
  <2>1. IsFiniteSet(Sending')
    BY <1>2, FS_AddElement
  <2>2. ASSUME NEW x \in Texts PROVE To_store[x] + (IF TextOf[c] = x THEN 1 ELSE 0) <= To_store'[x]
    <3>. DEFINE A == {b \in Sending : TextOf[b] = x}
                B == {b \in Sending' : TextOf[b] = x}
    <3>1. (TextOf[c] = x => B = A \union {c}) /\ (TextOf[c] # x => B = A) /\ c \notin A
      BY <1>2
    <3>2. IsFiniteSet(A) /\ Cardinality(A) \in Nat
      BY ToStoreTyped, FS_CardinalityType
    <3>3. To_store[x] = Cardinality(A) /\ To_store'[x] = Cardinality(B)
      BY DEF To_store
    <3>. HIDE DEF A, B
    <3>4. Cardinality(A \union {c}) = Cardinality(A) + 1
      BY <3>1, <3>2, FS_AddElement
    <3>. QED
      BY <3>1, <3>2, <3>3, <3>4
  <2>. QED
    BY <2>1, <2>2
<1>. QED
  BY <1>1, <1>2

\* A message is stored.
LEMMA ChatStored ==
  ASSUME TermTyped, TranscriptInv
  PROVE  /\ ChatElsewhere => TranscriptInv'
         /\ \A c \in ChatTurns : ChatHeard(c) \/ ChatReplied(c) => TranscriptInv'
<1>1. /\ srv.chat \in Seq(Messages) /\ IsFiniteSet(Sending) /\ talk \in [ChatTurns -> TalkState]
      /\ To_store \in [Texts -> Nat] /\ "user" \in Roles /\ "assistant" \in Roles
      /\ srv \in State
  BY ToStoreTyped DEF TermTyped, State, TranscriptInv, Roles
<1>2. ASSUME NEW role \in Roles, NEW of \in DOMAIN TextOf, Says(role, of)
      PROVE  /\ srv'.chat = Append(srv.chat, Message(role, of))
             /\ \A c : role # "assistant" \/ of # c => Replies(c)' = Replies(c)
             /\ role = "assistant" => Replies(of)' = Replies(of) \union {Len(srv.chat) + 1}
  <2>. DEFINE m == Message(role, of)
              more == Append(srv.chat, m)
  <2>1. srv'.chat = more
    BY <1>1, <1>2 DEF Says, State
  <2>2. m.role = role /\ m.of = of
    BY DEF Message
  <2>. HIDE DEF m
  <2>3. /\ Len(srv.chat) \in Nat /\ DOMAIN srv.chat = 1 .. Len(srv.chat) /\ DOMAIN more = 1 .. Len(srv.chat) + 1
        /\ \A i \in 1 .. Len(srv.chat) : more[i] = srv.chat[i]
        /\ more[Len(srv.chat) + 1] = m
    BY <1>1
  <2>4. ASSUME NEW c
        PROVE  /\ role # "assistant" \/ of # c => Replies(c)' = Replies(c)
               /\ role = "assistant" /\ of = c => Replies(c)' = Replies(c) \union {Len(srv.chat) + 1}
    <3>1. Replies(c)' = {i \in DOMAIN more : more[i].role = "assistant" /\ more[i].of = c}
      BY <2>1 DEF Replies
    <3>. HIDE DEF more
    <3>. QED
      BY <2>2, <2>3, <3>1 DEF Replies
  <2>. QED
    BY <2>1, <2>4 DEF m
<1>3. ASSUME ChatElsewhere PROVE TranscriptInv'
  <2>1. /\ Says("user", 0) /\ 0 \in DOMAIN TextOf /\ talk' = talk
        /\ UNCHANGED <<reads, screen, rendered, diary, missed>>
    BY <1>3, TerminalAssumption DEF ChatElsewhere
  <2>2. \A c : Replies(c)' = Replies(c)
    <3>1. "user" # "assistant"
      OBVIOUS
    <3>. QED
      BY <1>1, <1>2, <2>1, <3>1
  <2>3. Sending' = Sending /\ Held' = Held /\ (TurnReplies => TurnReplies')
    BY <2>1, <2>2 DEF Sending, Held, TurnReplies
  <2>4. To_store' = To_store
    BY <2>3 DEF To_store
  <2>5. \A x \in Texts : To_store[x] <= To_store'[x] + IF "user" = "user" /\ TextOf[0] = x THEN 1 ELSE 0
    BY <1>1, <2>4
  <2>. QED
    BY <1>1, <2>1, <2>3, <2>5, ChatSaid
<1>4. ASSUME NEW c \in ChatTurns, ChatHeard(c) PROVE TranscriptInv'
  <2>1. /\ Says("user", c) /\ c \in DOMAIN TextOf /\ talk' = [talk EXCEPT ![c].at = "heard"] /\ talk[c].at = "sent"
        /\ UNCHANGED <<reads, screen, rendered, diary, missed>>
    BY <1>4, TerminalAssumption DEF ChatHeard
  <2>2. \A b : Replies(b)' = Replies(b)
    <3>1. "user" # "assistant"
      OBVIOUS
    <3>. QED
      BY <1>1, <1>2, <2>1, <3>1
  <2>3. /\ \A b \in ChatTurns : talk'[b] = IF b = c THEN [talk[c] EXCEPT !.at = "heard"] ELSE talk[b]
        /\ talk'[c].at = "heard"
    BY <1>1, <2>1 DEF TalkState
  <2>4. /\ Sending' = Sending \ {c}
        /\ \A b \in ChatTurns : talk'[b].at = "replied" <=> talk[b].at = "replied"
        /\ \A b \in ChatTurns : talk'[b].at = "replied" => talk'[b] = talk[b]
    BY <2>1, <2>3 DEF Sending
  <2>5. Held' = Held
    BY <2>2, <2>4 DEF Held
  <2>6. TurnReplies => TurnReplies'
    BY <2>1, <2>2, <2>3 DEF TurnReplies
  <2>7. IsFiniteSet(Sending') /\ \A x \in Texts : To_store[x] <= To_store'[x] + IF TextOf[c] = x THEN 1 ELSE 0
    BY <1>1, <2>4, ToStoreMoves
  <2>8. \A x \in Texts : To_store[x] <= To_store'[x] + IF "user" = "user" /\ TextOf[c] = x THEN 1 ELSE 0
    BY <2>7
  <2>. QED
    BY <1>1, <2>1, <2>4, <2>5, <2>6, <2>7, <2>8, ChatSaid
<1>5. ASSUME NEW c \in ChatTurns, ChatReplied(c) PROVE TranscriptInv'
  <2>1. /\ Says("assistant", c) /\ c \in DOMAIN TextOf /\ talk[c].at = "heard"
        /\ talk' = [talk EXCEPT ![c] = [at |-> "replied", frame |-> srv']]
        /\ UNCHANGED <<reads, screen, rendered, diary, missed>>
    BY <1>5, TerminalAssumption DEF ChatReplied
  <2>2. /\ \A b : b # c => Replies(b)' = Replies(b)
        /\ Replies(c)' = Replies(c) \union {Len(srv.chat) + 1}
    BY <1>1, <1>2, <2>1
  <2>3. \A b \in ChatTurns : talk'[b] = IF b = c THEN [at |-> "replied", frame |-> srv'] ELSE talk[b]
    BY <1>1, <2>1
  <2>4. /\ Sending' = Sending
        /\ \A b \in ChatTurns : talk'[b].at = "replied" => talk'[b] = talk[b] \/ talk'[b].frame = srv'
    BY <2>1, <2>3 DEF Sending
  <2>5. TurnReplies => TurnReplies'
    <3>. SUFFICES ASSUME TurnReplies, NEW b \in ChatTurns
                  PROVE  /\ talk'[b].at \in {"off", "sent", "heard"} => Replies(b)' = {}
                         /\ talk'[b].at = "replied" => Replies(b)' # {}
      BY DEF TurnReplies
    <3>1. CASE b = c
      <4>1. talk'[b].at = "replied" /\ Len(srv.chat) + 1 \in Replies(b)'
        BY <2>2, <2>3, <3>1
      <4>. QED
        BY <4>1
    <3>2. CASE b # c
      BY <2>2, <2>3, <3>2 DEF TurnReplies
    <3>. QED
      BY <3>1, <3>2
  <2>7. To_store' = To_store
    BY <2>4 DEF To_store
  <2>8. \A x \in Texts : To_store[x] <= To_store'[x] + IF "assistant" = "user" /\ TextOf[c] = x THEN 1 ELSE 0
    BY <1>1, <2>7
  <2>9. TurnReplies => Held' \cap DOMAIN srv.chat \subseteq Held
    <3>. SUFFICES ASSUME TurnReplies, NEW i \in Held', i \in DOMAIN srv.chat PROVE i \in Held
      OBVIOUS
    <3>1. PICK b \in ChatTurns : talk'[b].at = "replied" /\ i \in Replies(b)'
      BY DEF Held
    <3>2. i # Len(srv.chat) + 1
      BY <1>1
    <3>3. b # c
      BY <2>1, <2>2, <3>1, <3>2 DEF TurnReplies
    <3>. QED
      BY <2>2, <2>3, <3>1, <3>3 DEF Held
  <2>. QED
    BY <1>1, <2>1, <2>4, <2>5, <2>8, <2>9, ChatSaid
<1>. QED
  BY <1>3, <1>4, <1>5

\* A turn starts: what is said is still to be stored.
LEMMA ChatStarts ==
  ASSUME TermTyped, TranscriptInv, NEW c \in ChatTurns, RunChat(c)
  PROVE  TranscriptInv'
<1>. DEFINE chat == srv.chat
            d == Local(diary, "user", TextOf[c])
<1>1. /\ chat \in Seq(Messages) /\ talk \in [ChatTurns -> TalkState] /\ diary \in Books
      /\ TextOf[c] \in Texts /\ IsFiniteSet(Sending)
      /\ "user" \in Roles /\ "assistant" \in Roles
  BY TerminalAssumption DEF TermTyped, State, TranscriptInv, Roles, Texts
<1>2. /\ diary' = d /\ talk[c].at = "off" /\ talk' = [talk EXCEPT ![c].at = "sent"]
      /\ UNCHANGED <<srv, reads, screen, rendered, missed>>
  BY DEF RunChat
<1>3. d \in Books /\ d.seen = diary.seen
  BY <1>1, LocalBook
<1>4. /\ \A b \in ChatTurns : b # c => talk'[b] = talk[b]
      /\ talk'[c].at = "sent"
  BY <1>1, <1>2 DEF TalkState
<1>5. Sending' = Sending \union {c} /\ c \notin Sending
  BY <1>2, <1>4 DEF Sending
<1>6. \A b : Replies(b)' = Replies(b)
  BY <1>2 DEF Replies
<1>7. Held' = Held
  BY <1>2, <1>4, <1>6 DEF Held
<1>8. /\ IsFiniteSet(Sending')
      /\ \A x \in Texts : To_store[x] + (IF TextOf[c] = x THEN 1 ELSE 0) <= To_store'[x]
  BY <1>1, <1>5, ToStoreMoves
<1>. HIDE DEF chat
<1>9. /\ Balanced(diary, chat) => Balanced(d, chat)
      /\ \A held, held2 : \A r \in Roles, w, w2 \in [Texts -> Nat] :
           /\ Covered(diary, chat, held, r, w)
           /\ \A x \in Texts : Cardinality(Unmet(diary, chat, held, r, x)) + w[x]
                                 + (IF r = "user" /\ x = TextOf[c] THEN 1 ELSE 0)
                                   <= Cardinality(Unmet(diary, chat, held2, r, x)) + w2[x]
           => Covered(d, chat, held2, r, w2)
  BY <1>1, LocalKeeps
<1>. HIDE DEF d
<1>10. ASSUME srv.gen = 0 PROVE ChatInv'
  <2>1. ChatInv
    BY <1>10 DEF TranscriptInv
  <2>2. AllBegun'
    BY <1>2, <1>4, <2>1 DEF ChatInv, AllBegun
  <2>3. TurnReplies'
    <3>. SUFFICES ASSUME NEW b \in ChatTurns
                  PROVE  /\ talk'[b].at \in {"off", "sent", "heard"} => Replies(b)' = {}
                         /\ talk'[b].at = "replied" => Replies(b)' # {}
      BY DEF TurnReplies
    <3>1. /\ talk[b].at \in {"off", "sent", "heard"} => Replies(b) = {}
          /\ talk[b].at = "replied" => Replies(b) # {}
      BY <2>1 DEF ChatInv, TurnReplies
    <3>2. CASE b = c
      BY <1>2, <1>4, <1>6, <3>1, <3>2
    <3>3. CASE b # c
      BY <1>4, <1>6, <3>1, <3>3
    <3>. QED
      BY <3>2, <3>3
  <2>4. ASSUME "early" \notin missed PROVE HeldBack' /\ Covered(d, chat, Held', "assistant", None_stored)
    <3>1. HeldBack /\ Covered(diary, chat, Held, "assistant", None_stored)
      BY <2>1, <2>4 DEF ChatInv, chat
    <3>2. None_stored \in [Texts -> Nat]
      BY DEF None_stored
    <3>3. ASSUME NEW x \in Texts
          PROVE  Cardinality(Unmet(diary, chat, Held, "assistant", x)) + None_stored[x]
                   + (IF "assistant" = "user" /\ x = TextOf[c] THEN 1 ELSE 0)
                     <= Cardinality(Unmet(diary, chat, Held, "assistant", x)) + None_stored[x]
      <4>1. Cardinality(Unmet(diary, chat, Held, "assistant", x)) \in Nat
        BY <1>1, HeldShrinks
      <4>. QED
        BY <3>2, <4>1
    <3>4. Covered(d, chat, Held, "assistant", None_stored)
      BY <1>1, <1>9, <3>1, <3>2, <3>3
    <3>5. HeldBack'
      BY <1>2, <1>3, <1>7, <3>1 DEF HeldBack
    <3>. QED
      BY <1>7, <3>4, <3>5
  <2>5. ASSUME "unheard" \notin missed PROVE Covered(d, chat, {}, "user", To_store')
    <3>1. Covered(diary, chat, {}, "user", To_store)
      BY <2>1, <2>5 DEF ChatInv, chat
    <3>2. To_store \in [Texts -> Nat] /\ To_store' \in [Texts -> Nat]
      BY <1>1, <1>8, ToStoreTyped, ToStoreAfter
    <3>3. ASSUME NEW x \in Texts
          PROVE  Cardinality(Unmet(diary, chat, {}, "user", x)) + To_store[x]
                   + (IF "user" = "user" /\ x = TextOf[c] THEN 1 ELSE 0)
                     <= Cardinality(Unmet(diary, chat, {}, "user", x)) + To_store'[x]
      <4>1. Cardinality(Unmet(diary, chat, {}, "user", x)) \in Nat
        BY <1>1, HeldShrinks
      <4>2. To_store[x] + (IF TextOf[c] = x THEN 1 ELSE 0) <= To_store'[x]
        BY <1>8
      <4>3. To_store[x] \in Nat /\ To_store'[x] \in Nat
        BY <3>2
      <4>. QED
        BY <4>1, <4>2, <4>3
    <3>. QED
      BY <1>1, <1>9, <3>1, <3>2, <3>3
  <2>6. None_stored' = None_stored
    BY DEF None_stored
  <2>. QED
    BY <1>2, <1>3, <1>9, <2>1, <2>2, <2>3, <2>4, <2>5, <2>6 DEF ChatInv, chat
<1>. QED
  BY <1>2, <1>3, <1>8, <1>10 DEF TranscriptInv

\* A turn fails: a reply that comes after all is met as any other; and what was said is to be
\* stored as before, unless it is not.
LEMMA ChatGivesUp ==
  ASSUME TermTyped, TranscriptInv, NEW c \in ChatTurns, ChatFails(c)
  PROVE  TranscriptInv'
<1>. DEFINE chat == srv.chat
<1>1. /\ chat \in Seq(Messages) /\ talk \in [ChatTurns -> TalkState] /\ diary \in Books /\ IsFiniteSet(Sending)
      /\ "user" \in Roles /\ "assistant" \in Roles
  BY DEF TermTyped, State, TranscriptInv, Roles
<1>2. /\ talk[c].at \in {"sent", "heard", "replied"}
      /\ talk' = [talk EXCEPT ![c] = [at |-> "over", frame |-> None]]
      /\ missed' = missed \union (IF talk[c].at = "sent" THEN {"unheard"} ELSE {})
      /\ UNCHANGED <<srv, reads, screen, rendered, diary>>
  BY DEF ChatFails
<1>3. /\ \A b \in ChatTurns : b # c => talk'[b] = talk[b]
      /\ talk'[c].at = "over"
  BY <1>1, <1>2
<1>4. Sending' = Sending \ {c} /\ (talk[c].at # "sent" => Sending' = Sending)
  BY <1>2, <1>3 DEF Sending
<1>5. \A b : Replies(b)' = Replies(b)
  BY <1>2 DEF Replies
<1>6. Held' \subseteq Held
  BY <1>2, <1>3, <1>5 DEF Held
<1>7. IsFiniteSet(Sending')
  BY <1>1, <1>4, FS_Subset
<1>. HIDE DEF chat
<1>10. ASSUME srv.gen = 0 PROVE ChatInv'
  <2>1. ChatInv
    BY <1>10 DEF TranscriptInv
  <2>2. AllBegun'
    BY <1>2, <1>3, <2>1 DEF ChatInv, AllBegun
  <2>3. TurnReplies'
    <3>. SUFFICES ASSUME NEW b \in ChatTurns
                  PROVE  /\ talk'[b].at \in {"off", "sent", "heard"} => Replies(b)' = {}
                         /\ talk'[b].at = "replied" => Replies(b)' # {}
      BY DEF TurnReplies
    <3>1. /\ talk[b].at \in {"off", "sent", "heard"} => Replies(b) = {}
          /\ talk[b].at = "replied" => Replies(b) # {}
      BY <2>1 DEF ChatInv, TurnReplies
    <3>2. CASE b = c
      BY <1>2, <1>3, <3>2
    <3>3. CASE b # c
      BY <1>3, <1>5, <3>1, <3>3
    <3>. QED
      BY <3>2, <3>3
  <2>4. ASSUME "early" \notin missed PROVE HeldBack' /\ Covered(diary, chat, Held', "assistant", None_stored)
    <3>1. HeldBack /\ Covered(diary, chat, Held, "assistant", None_stored)
      BY <2>1, <2>4 DEF ChatInv, chat
    <3>2. None_stored \in [Texts -> Nat]
      BY DEF None_stored
    <3>3. ASSUME NEW x \in Texts
          PROVE  /\ Cardinality(Unmet(diary, chat, Held, "assistant", x)) \in Nat
                 /\ Cardinality(Unmet(diary, chat, Held', "assistant", x)) \in Nat
                 /\ Cardinality(Unmet(diary, chat, Held, "assistant", x)) + None_stored[x]
                      <= Cardinality(Unmet(diary, chat, Held', "assistant", x)) + None_stored[x]
      <4>1. /\ Cardinality(Unmet(diary, chat, Held, "assistant", x)) \in Nat
            /\ Cardinality(Unmet(diary, chat, Held', "assistant", x)) \in Nat
            /\ Cardinality(Unmet(diary, chat, Held, "assistant", x))
                 <= Cardinality(Unmet(diary, chat, Held', "assistant", x))
        BY <1>1, <1>6, HeldShrinks
      <4>. QED
        BY <3>2, <4>1
    <3>4. Covered(diary, chat, Held', "assistant", None_stored)
      BY <1>1, <3>1, <3>2, <3>3, CoverGrows
    <3>5. HeldBack'
      BY <1>2, <1>6, <3>1 DEF HeldBack
    <3>. QED
      BY <3>4, <3>5
  <2>5. ASSUME "unheard" \notin missed' PROVE Covered(diary, chat, {}, "user", To_store')
    <3>1. talk[c].at # "sent" /\ "unheard" \notin missed
      BY <1>2, <2>5
    <3>2. To_store' = To_store
      BY <1>4, <3>1 DEF To_store
    <3>. QED
      BY <2>1, <3>1, <3>2 DEF ChatInv, chat
  <2>6. None_stored' = None_stored
    BY DEF None_stored
  <2>. QED
    BY <1>2, <2>1, <2>2, <2>3, <2>4, <2>5, <2>6 DEF ChatInv, chat
<1>. QED
  BY <1>2, <1>7, <1>10 DEF TranscriptInv

\* The effects of what is on the screen: all of it is met, and nothing that is held.
LEMMA ChatRendered ==
  ASSUME TermTyped, TranscriptInv, RunEffects
  PROVE  TranscriptInv'
<1>. DEFINE chat == srv.chat
            n == Len(screen.chat)
<1>1. /\ chat \in Seq(Messages) /\ screen \in State /\ screen # None /\ diary \in Books
      /\ rendered' = TRUE /\ diary' = Effects(diary, screen)
      /\ UNCHANGED <<srv, reads, talk, screen, missed>>
      /\ "user" \in Roles /\ "assistant" \in Roles
  BY StateAssumption DEF RunEffects, TermTyped, State, TranscriptInv, Roles
<1>2. diary' \in Books /\ n \in Nat
  BY <1>1, EffectsBook DEF State
<1>3. /\ Sending' = Sending /\ Held' = Held /\ To_store' = To_store /\ None_stored' = None_stored
      /\ \A b : Replies(b)' = Replies(b)
  BY <1>1 DEF Sending, Held, To_store, None_stored, Replies
<1>4. ASSUME srv.gen = 0 PROVE ChatInv'
  <2>1. ChatInv
    BY <1>4 DEF TranscriptInv
  <2>2. Keyed(chat) /\ Begun(screen.chat, chat)
    BY <1>1, <2>1 DEF ChatInv, AllBegun
  <2>3. Having(chat, n, diary, diary')
    BY <1>1, <2>2, EffectsBook
  <2>4. /\ n <= Len(chat) /\ DOMAIN screen.chat = 1 .. n
        /\ \A i \in 1 .. n : i \in DOMAIN chat /\ screen.chat[i] = chat[i]
    BY <1>1, <1>2, <2>2 DEF Begun, State
  <2>. HIDE DEF chat, n
  <2>5. diary'.seen \subseteq {chat[i].key : i \in DOMAIN chat}
    BY <2>1, <2>3, <2>4 DEF Having, ChatInv, chat
  <2>6. \A i \in DOMAIN screen.chat : screen.chat[i].key \in diary'.seen
    BY <2>3, <2>4 DEF Having
  <2>7. Balanced(diary', chat)
    BY <2>1, <2>3 DEF Having, ChatInv, chat
  <2>8. ASSUME "early" \notin missed PROVE HeldBack' /\ Covered(diary', chat, Held, "assistant", None_stored)
    <3>1. HeldBack /\ Covered(diary, chat, Held, "assistant", None_stored)
      BY <2>1, <2>8 DEF ChatInv, chat
    <3>2. None_stored \in [Texts -> Nat]
      BY DEF None_stored
    <3>3. ASSUME NEW i \in Held PROVE i \in DOMAIN chat /\ i \notin 1 .. n /\ chat[i].key \notin diary.seen
      <4>1. i \in DOMAIN chat /\ i \in Nat
        BY <1>1, <3>3 DEF Held, Replies, chat
      <4>2. n < i /\ chat[i].key \notin diary.seen
        BY <1>1, <3>1, <3>3 DEF HeldBack, n, chat
      <4>. QED
        BY <1>2, <4>1, <4>2
    <3>4. ASSUME NEW i \in Held PROVE chat[i].key \notin diary'.seen
      <4>1. ASSUME NEW j \in 1 .. n PROVE chat[j].key # chat[i].key
        <5>1. j \in DOMAIN chat /\ chat[j].key = <<0, j - 1>> /\ chat[i].key = <<0, i - 1>> /\ j # i
          BY <2>2, <2>4, <3>3, <3>4 DEF Keyed
        <5>2. i \in Nat /\ j \in Nat
          BY <1>1, <3>3, <3>4 DEF chat
        <5>. QED
          BY <5>1, <5>2
      <4>. QED
        BY <2>3, <3>3, <3>4, <4>1 DEF Having
    <3>5. HeldBack'
      BY <1>1, <1>3, <3>1, <3>4 DEF HeldBack, chat
    <3>6. Held \cap (1 .. n) = {}
      BY <3>3
    <3>7. Covered(diary', chat, Held, "assistant", None_stored)
      BY <1>1, <2>3, <3>1, <3>2, <3>6 DEF Having
    <3>. QED
      BY <3>5, <3>7
  <2>9. ASSUME "unheard" \notin missed PROVE Covered(diary', chat, {}, "user", To_store)
    <3>1. Covered(diary, chat, {}, "user", To_store) /\ {} \cap (1 .. n) = {} /\ To_store \in [Texts -> Nat]
      BY <2>1, <2>9, ToStoreTyped DEF ChatInv, chat, TranscriptInv
    <3>. QED
      BY <1>1, <2>3, <3>1 DEF Having
  <2>10. TurnReplies' /\ AllBegun'
    BY <1>1, <1>3, <2>1 DEF ChatInv, TurnReplies, AllBegun
  <2>. QED
    BY <1>1, <1>3, <2>1, <2>5, <2>6, <2>7, <2>8, <2>9, <2>10 DEF ChatInv, chat
<1>. QED
  BY <1>1, <1>2, <1>3, <1>4 DEF TranscriptInv

\* A request is answered: a reset's answer starts the tracker anew, and nothing else of the diary.
LEMMA ChatAnswered ==
  ASSUME TermTyped, TranscriptInv, NEW i \in DOMAIN reads, ReadAnswered(i)
  PROVE  TranscriptInv'
<1>. DEFINE s == reads[i].got
            d == Start(i)
<1>1. /\ s \in State /\ s # None /\ Apply(s, d) /\ reads' = RemoveAt(reads, i) /\ UNCHANGED <<srv, talk>>
      /\ diary \in Books /\ reads \in Seq(RequestState)
  BY AnswerApplies DEF TermTyped, TranscriptInv
<1>2. Carried
  BY <1>1, ReadsGone
<1>3. d \in Books /\ d.seen = diary.seen /\ d.pending = diary.pending /\ d.shown = diary.shown
  <2>1. CASE reads[i].op # "reset"
    BY <1>1, <2>1 DEF Start
  <2>2. CASE reads[i].op = "reset"
    <3>1. d = [diary EXCEPT !.tracker = ResetTracker(@), !.since = s.gen]
      BY <2>2 DEF Start
    <3>2. s.gen \in Nat /\ diary.tracker \in TrackerState
      BY <1>1, BookParts DEF State
    <3>3. ResetTracker(diary.tracker) \in TrackerState
      <4>1. diary.tracker.generation + 1 \in Nat
        BY <3>2 DEF TrackerState
      <4>. QED
        BY <4>1 DEF ResetTracker, Tracker, TrackerState
    <3>. HIDE DEF s, d
    <3>. QED
      BY <1>1, <3>1, <3>2, <3>3 DEF Books
  <2>. QED
    BY <2>1, <2>2
<1>4. /\ Sending' = Sending /\ Held' = Held /\ To_store' = To_store
      /\ \A b : Replies(b)' = Replies(b)
  BY <1>1 DEF Sending, Held, To_store, Replies
<1>. HIDE DEF d, s
<1>5. ASSUME srv.gen = 0 PROVE ChatInv'
  <2>1. ChatInv
    BY <1>5 DEF TranscriptInv
  <2>2. /\ Balanced(diary, srv.chat) => Balanced(d, srv.chat)
        /\ \A held : \A r \in Roles, w \in [Texts -> Nat] :
             Covered(diary, srv.chat, held, r, w) => Covered(d, srv.chat, held, r, w)
    BY <1>3, SameBook
  <2>3. /\ To_store \in [Texts -> Nat] /\ None_stored \in [Texts -> Nat]
        /\ "user" \in Roles /\ "assistant" \in Roles
    BY ToStoreTyped DEF TranscriptInv, Roles
  <2>4. /\ Balanced(d, srv.chat)
        /\ "early" \notin missed => Covered(d, srv.chat, Held', "assistant", None_stored)
        /\ "unheard" \notin missed => Covered(d, srv.chat, {}, "user", To_store')
    BY <1>4, <2>1, <2>2, <2>3 DEF ChatInv
  <2>5. Begun(s.chat, srv.chat) /\ TurnReplies'
    BY <1>1, <1>4, <2>1 DEF ChatInv, AllBegun, TurnReplies, s
  <2>6. \A c \in ChatTurns : talk'[c].at = "replied" => talk'[c] = talk[c]
    BY <1>1
  <2>7. srv' = srv /\ To_store' \in [Texts -> Nat]
    BY <1>1, <1>4, <2>3
  <2>. QED
    BY <1>1, <1>2, <1>3, <2>1, <2>4, <2>5, <2>6, <2>7, ChatShown
<1>6. diary' \in Books
  BY <1>1, <1>3, ApplyBook
<1>. QED
  BY <1>1, <1>4, <1>5, <1>6 DEF TranscriptInv

\* A turn is done: its reply is shown, and is then to be met.
LEMMA ChatEnds ==
  ASSUME TermTyped, TranscriptInv, NEW c \in ChatTurns, ChatDone(c)
  PROVE  TranscriptInv'
<1>. DEFINE chat == srv.chat
            s == talk[c].frame
            d == Local(diary, "assistant", TextOf[c])
<1>1. /\ chat \in Seq(Messages) /\ talk \in [ChatTurns -> TalkState] /\ diary \in Books
      /\ TextOf[c] \in Texts /\ IsFiniteSet(Sending)
      /\ "user" \in Roles /\ "assistant" \in Roles
  BY TerminalAssumption DEF TermTyped, State, TranscriptInv, Roles, Texts
<1>2. /\ talk[c].at = "replied" /\ talk' = [talk EXCEPT ![c] = [at |-> "over", frame |-> None]]
      /\ s \in State /\ Apply(s, d) /\ UNCHANGED <<srv, reads>>
  BY DEF ChatDone, TermTyped
<1>3. d \in Books /\ d.seen = diary.seen
  BY <1>1, LocalBook
<1>4. /\ \A b \in ChatTurns : b # c => talk'[b] = talk[b]
      /\ talk'[c].at = "over"
  BY <1>1, <1>2
<1>5. \A b : Replies(b)' = Replies(b)
  BY <1>2 DEF Replies
<1>6. Sending' = Sending
  BY <1>2, <1>4 DEF Sending
<1>7. /\ Held' \subseteq Held /\ Replies(c) \subseteq Held /\ Replies(c) \cap Held' = {}
  <2>1. Replies(c) \subseteq Held
    BY <1>2 DEF Held
  <2>2. Held' = UNION {Replies(b) : b \in {a \in ChatTurns : talk'[a].at = "replied"}}
    BY <1>5 DEF Held
  <2>3. \A b : b # c => Replies(b) \cap Replies(c) = {}
    BY DEF Replies
  <2>4. Held' \subseteq Held
    BY <1>4, <2>2 DEF Held
  <2>. QED
    BY <1>4, <2>1, <2>2, <2>3, <2>4
<1>8. To_store' = To_store
  BY <1>6 DEF To_store
<1>. HIDE DEF chat
<1>9. /\ Balanced(diary, chat) => Balanced(d, chat)
      /\ \A held, held2 : \A r \in Roles, w, w2 \in [Texts -> Nat] :
           /\ Covered(diary, chat, held, r, w)
           /\ \A x \in Texts : Cardinality(Unmet(diary, chat, held, r, x)) + w[x]
                                 + (IF r = "assistant" /\ x = TextOf[c] THEN 1 ELSE 0)
                                   <= Cardinality(Unmet(diary, chat, held2, r, x)) + w2[x]
           => Covered(d, chat, held2, r, w2)
  BY <1>1, LocalKeeps
<1>. HIDE DEF d, s
<1>10. ASSUME srv.gen = 0 PROVE ChatInv'
  <2>1. ChatInv /\ Keyed(chat)
    BY <1>10 DEF TranscriptInv, ChatInv, chat
  <2>2. /\ To_store \in [Texts -> Nat] /\ None_stored \in [Texts -> Nat]
        /\ \A x \in Texts : None_stored[x] = 0
    BY <1>1, ToStoreTyped DEF None_stored
  <2>3. ASSUME "early" \notin missed PROVE Covered(d, chat, Held', "assistant", None_stored)
    <3>1. HeldBack /\ Covered(diary, chat, Held, "assistant", None_stored)
      BY <2>1, <2>3 DEF ChatInv, chat
    <3>2. PICK j \in Replies(c) : TRUE
      BY <1>2, <2>1 DEF ChatInv, TurnReplies
    <3>3. /\ j \in DOMAIN chat /\ chat[j].role = "assistant" /\ chat[j].of = c /\ j \in Held /\ j \notin Held'
      BY <1>7, <3>2 DEF Replies, chat
    <3>4. chat[j].text = TextOf[c] /\ chat[j].key \notin diary.seen
      BY <2>1, <3>1, <3>3 DEF Keyed, HeldBack, chat
    <3>5. j \in Unmet(diary, chat, Held', "assistant", TextOf[c])
      BY <3>3, <3>4 DEF Unmet, Of
    <3>6. ASSUME NEW x \in Texts
          PROVE  Cardinality(Unmet(diary, chat, Held, "assistant", x)) + None_stored[x]
                   + (IF "assistant" = "assistant" /\ x = TextOf[c] THEN 1 ELSE 0)
                     <= Cardinality(Unmet(diary, chat, Held', "assistant", x)) + None_stored[x]
      <4>1. /\ Cardinality(Unmet(diary, chat, Held, "assistant", x)) \in Nat
            /\ Cardinality(Unmet(diary, chat, Held', "assistant", x)) \in Nat
            /\ Cardinality(Unmet(diary, chat, Held, "assistant", x))
                 <= Cardinality(Unmet(diary, chat, Held', "assistant", x))
            /\ \A k \in Unmet(diary, chat, Held', "assistant", x) : k \in Held =>
                 Cardinality(Unmet(diary, chat, Held, "assistant", x)) + 1
                   <= Cardinality(Unmet(diary, chat, Held', "assistant", x))
        BY <1>1, <1>7, HeldShrinks
      <4>2. CASE x = TextOf[c]
        BY <2>2, <3>3, <3>5, <4>1, <4>2
      <4>3. CASE x # TextOf[c]
        BY <2>2, <4>1, <4>3
      <4>. QED
        BY <4>2, <4>3
    <3>. QED
      BY <1>1, <1>9, <2>2, <3>1, <3>6
  <2>4. ASSUME "unheard" \notin missed PROVE Covered(d, chat, {}, "user", To_store)
    <3>1. Covered(diary, chat, {}, "user", To_store)
      BY <2>1, <2>4 DEF ChatInv, chat
    <3>2. ASSUME NEW x \in Texts
          PROVE  Cardinality(Unmet(diary, chat, {}, "user", x)) + To_store[x]
                   + (IF "user" = "assistant" /\ x = TextOf[c] THEN 1 ELSE 0)
                     <= Cardinality(Unmet(diary, chat, {}, "user", x)) + To_store[x]
      <4>1. Cardinality(Unmet(diary, chat, {}, "user", x)) \in Nat /\ To_store[x] \in Nat
        BY <1>1, <2>2, HeldShrinks
      <4>. QED
        BY <4>1
    <3>. QED
      BY <1>1, <1>9, <2>2, <3>1, <3>2
  <2>5. Balanced(d, chat) /\ Begun(s.chat, chat)
    BY <1>2, <1>9, <2>1 DEF ChatInv, AllBegun, chat, s
  <2>6. TurnReplies'
    <3>. SUFFICES ASSUME NEW b \in ChatTurns
                  PROVE  /\ talk'[b].at \in {"off", "sent", "heard"} => Replies(b)' = {}
                         /\ talk'[b].at = "replied" => Replies(b)' # {}
      BY DEF TurnReplies
    <3>1. CASE b = c
      BY <1>4, <3>1
    <3>2. CASE b # c
      BY <1>4, <1>5, <2>1, <3>2 DEF ChatInv, TurnReplies
    <3>. QED
      BY <3>1, <3>2
  <2>7. \A b \in ChatTurns : talk'[b].at = "replied" => talk'[b] = talk[b]
    <3>1. "over" # "replied"
      OBVIOUS
    <3>. QED
      BY <1>4, <3>1
  <2>8. Carried /\ srv' = srv
    BY <1>2 DEF Carried
  <2>. QED
    BY <1>2, <1>3, <1>8, <2>1, <2>2, <2>3, <2>4, <2>5, <2>6, <2>7, <2>8, ChatShown DEF chat
<1>11. diary' \in Books
  BY <1>2, <1>3, ApplyBook
<1>. QED
  BY <1>1, <1>2, <1>6, <1>10, <1>11 DEF TranscriptInv

\* Every step keeps it.
LEMMA TranscriptStep ==
  ASSUME TermTyped, TranscriptInv, [TermNext]_<<termVars, left>>
  PROVE  TranscriptInv'
<1>1. /\ srv \in State /\ srv.gen \in Nat /\ srv.chat \in Seq(Messages) /\ reads \in Seq(RequestState)
  BY DEF TermTyped, State
<1>2. Emptied.gen # 0
  BY <1>1 DEF Emptied
<1>3. ASSUME UNCHANGED <<screen, rendered, diary, talk, srv, reads>>, missed \subseteq missed' PROVE TranscriptInv'
  BY <1>3, ChatQuiet
<1>4. ASSUME NEW a \in Ids, ActionMoves(a) PROVE TranscriptInv'
  <2>1. srv'.gen = srv.gen /\ srv'.chat = srv.chat
    BY <1>1, <1>4 DEF ActionMoves, State
  <2>. QED
    BY <1>4, <2>1, ChatQuiet DEF ActionMoves
<1>5. ASSUME ResetElsewhere PROVE TranscriptInv'
  BY <1>2, <1>5, ChatQuiet DEF ResetElsewhere
<1>6. ASSUME NEW op \in Commands, reads' = Append(reads, Get(op)), UNCHANGED <<srv, screen, rendered, diary, talk, missed>>
      PROVE  TranscriptInv'
  <2>1. Carried
    BY <1>1, <1>6, ReadsSent
  <2>. QED
    BY <1>6, <2>1, ChatQuiet DEF Carried
<1>7. ASSUME Poll \/ EventArrives \/ \E op \in Commands : HandleSubmit(op) PROVE TranscriptInv'
  BY <1>6, <1>7 DEF Poll, EventArrives, HandleSubmit, Refresh, Commands
<1>8. ASSUME StreamCloses PROVE TranscriptInv'
  BY <1>3, <1>8 DEF StreamCloses
<1>9. ASSUME NEW i \in DOMAIN reads, ReadServed(i) PROVE TranscriptInv'
  <2>0. reads[i] \in RequestState
    BY <1>1
  <2>1. reads[i].op \in Commands /\ srv' \in Effect(reads[i].op)
    BY <1>9, <2>0 DEF RequestState, ReadServed
  <2>2. srv' \in State
    BY <2>1, EffectGrows DEF Grows
  <2>3. srv'.gen = 0 => srv.gen = 0 /\ srv'.chat = srv.chat
    <3>1. CASE reads[i].op = "reset"
      BY <1>2, <2>1, <3>1 DEF Effect
    <3>2. CASE reads[i].op # "reset"
      BY <1>1, <2>1, <3>2 DEF Effect, State
    <3>. QED
      BY <3>1, <3>2
  <2>4. /\ DOMAIN reads' = DOMAIN reads /\ reads'[i].got = srv'
        /\ \A k \in DOMAIN reads \ {i} : reads'[k] = reads[k]
    BY <1>1, <1>9, <2>2, ReadsServed DEF ReadServed
  <2>. QED
    BY <1>9, <2>3, <2>4, ChatQuiet DEF ReadServed
<1>10. ASSUME NEW i \in DOMAIN reads, ReadRefused(i) \/ ReadFails(i) PROVE TranscriptInv'
  <2>1. reads' = RemoveAt(reads, i) /\ UNCHANGED <<srv, screen, rendered, diary, talk>> /\ missed \subseteq missed'
    BY <1>10 DEF ReadRefused, ReadFails
  <2>2. Carried
    BY <1>1, <2>1, ReadsGone
  <2>. QED
    BY <2>1, <2>2, ChatQuiet DEF Carried
<1>11. CASE UNCHANGED <<termVars, left>>
  BY <1>3, <1>11 DEF termVars
<1>. QED
  BY <1>4, <1>5, <1>7, <1>8, <1>9, <1>10, <1>11,
     ChatStored, ChatStarts, ChatGivesUp, ChatRendered, ChatAnswered, ChatEnds DEF TermNext

\* It holds of an empty transcript.
LEMMA TranscriptStarts ==
  ASSUME TermInit
  PROVE  TranscriptInv
<1>1. /\ screen = None /\ rendered = TRUE /\ missed = {} /\ srv.chat = <<>>
      /\ talk = [c \in ChatTurns |-> [at |-> "off", frame |-> None]]
      /\ \A i \in DOMAIN reads : reads[i].got = None
      /\ diary = [tracker |-> Tracker, since |-> 0, said |-> <<>>, seen |-> {}, pending |-> <<>>,
                  shown |-> [r \in Roles |-> [x \in Texts |-> 0]]]
  BY DEF TermInit
<1>2. \A c \in ChatTurns : talk[c].at = "off"
  BY <1>1
<1>3. Sending = {} /\ Held = {} /\ \A c : Replies(c) = {}
  BY <1>1, <1>2 DEF Sending, Held, Replies
<1>4. diary \in Books
  <2>1. Tracker \in TrackerState
    BY DEF Tracker, TrackerState
  <2>2. [r \in Roles |-> [x \in Texts |-> 0]] \in [Roles -> [Texts -> Nat]]
    OBVIOUS
  <2>3. /\ <<>> \in Seq(Entries) /\ <<>> \in Seq(Roles \X Texts) /\ {} \in SUBSET (Nat \X Nat) /\ 0 \in Nat
    OBVIOUS
  <2>. QED
    BY <1>1, <2>1, <2>2, <2>3 DEF Books
<1>5. IsFiniteSet(Sending)
  BY <1>3, FS_EmptySet
<1>6. \A v : Cardinality(Spots(diary.pending, v)) = 0
  <2>1. \A v : Spots(diary.pending, v) = {}
    BY <1>1 DEF Spots
  <2>. QED
    BY <2>1, FS_EmptySet
<1>7. Balanced(diary, srv.chat)
  <2>1. \A r, x : Met(diary, srv.chat, r, x) = {}
    BY <1>1 DEF Met, Of
  <2>2. \A r \in Roles, x \in Texts : diary.shown[r][x] = 0
    BY <1>1
  <2>. QED
    BY <1>6, <2>1, <2>2, FS_EmptySet DEF Balanced
<1>8. ASSUME NEW r \in Roles, NEW w \in [Texts -> Nat] PROVE Covered(diary, srv.chat, {}, r, w)
  <2>1. \A x : Unmet(diary, srv.chat, {}, r, x) = {}
    BY <1>1 DEF Unmet, Of
  <2>2. \A x \in Texts : w[x] \in Nat
    OBVIOUS
  <2>. QED
    BY <1>6, <2>1, <2>2, FS_EmptySet DEF Covered
<1>9. /\ Covered(diary, srv.chat, Held, "assistant", None_stored)
      /\ Covered(diary, srv.chat, {}, "user", To_store)
  BY <1>3, <1>5, <1>8, ToStoreTyped DEF Roles
<1>10. Keyed(srv.chat) /\ AllBegun /\ TurnReplies /\ HeldBack
  BY <1>1, <1>2, <1>3 DEF Keyed, AllBegun, TurnReplies, HeldBack
<1>. QED
  BY <1>1, <1>4, <1>5, <1>7, <1>9, <1>10 DEF TranscriptInv, ChatInv

\* When nothing is under way nothing is waited for, and what is shown is what was met: the chat.
LEMMA TranscriptEnds ==
  ASSUME TermTyped, TranscriptInv
  PROVE  TranscriptIsTheChat
<1>. SUFFICES ASSUME \A c \in ChatTurns : talk[c].at \in {"off", "over"}, rendered, screen # None,
                     ~(srv.gen > 0), screen.chat = srv.chat, missed \cap {"early", "unheard"} = {},
                     NEW r \in Roles, NEW x \in Texts
              PROVE  diary.shown[r][x] = Heard(r, x)
  BY DEF TranscriptIsTheChat
<1>. DEFINE chat == srv.chat
            met == Met(diary, chat, r, x)
            heard == {k \in diary.seen : \E i \in DOMAIN chat :
                        chat[i].key = k /\ chat[i].role = r /\ chat[i].text = x}
            f == [i \in met |-> chat[i].key]
<1>1. chat \in Seq(Messages) /\ srv.gen = 0 /\ diary \in Books
  BY DEF TermTyped, State, TranscriptInv
<1>2. ChatInv /\ Keyed(chat)
  BY <1>1 DEF TranscriptInv, ChatInv
<1>3. Sending = {} /\ Held = {}
  BY DEF Sending, Held
<1>4. Cardinality(Unmet(diary, chat, {}, r, x)) = 0
  <2>1. Unmet(diary, chat, {}, r, x) = {}
    BY <1>2 DEF ChatInv, Unmet, Of
  <2>. QED
    BY <2>1, FS_EmptySet
<1>5. To_store[x] = 0 /\ None_stored[x] = 0
  <2>1. {c \in Sending : TextOf[c] = x} = {}
    BY <1>3
  <2>. QED
    BY <2>1, FS_EmptySet DEF To_store, None_stored
<1>6. Cardinality(Spots(diary.pending, <<r, x>>)) <= Cardinality(Unmet(diary, chat, {}, r, x)) + 0
  <2>1. /\ Covered(diary, chat, {}, "assistant", None_stored)
        /\ Covered(diary, chat, {}, "user", To_store)
    BY <1>2, <1>3 DEF ChatInv
  <2>2. CASE r = "assistant"
    BY <1>5, <2>1, <2>2 DEF Covered
  <2>3. CASE r = "user"
    BY <1>5, <2>1, <2>3 DEF Covered
  <2>. QED
    BY <2>2, <2>3 DEF Roles
<1>7. Cardinality(Spots(diary.pending, <<r, x>>)) \in Nat
  BY <1>1, BookParts, SpotsFinite
<1>8. Cardinality(Spots(diary.pending, <<r, x>>)) = 0
  BY <1>4, <1>6, <1>7
<1>9. diary.shown[r][x] = Cardinality(met) + Cardinality(Spots(diary.pending, <<r, x>>))
  BY <1>2 DEF ChatInv, Balanced
<1>10. IsFiniteSet(met) /\ Cardinality(met) \in Nat
  <2>1. met \in SUBSET DOMAIN chat
    BY DEF Met, Of
  <2>. QED
    BY <1>1, <2>1, PartsFinite
<1>11. f \in Bijection(met, heard)
  <2>1. \A i \in met : f[i] \in heard /\ i \in DOMAIN chat /\ f[i] = <<0, i - 1>>
    BY <1>2 DEF Met, Of, Keyed
  <2>2. \A i, j \in met : f[i] = f[j] => i = j
    <3>. SUFFICES ASSUME NEW i \in met, NEW j \in met, f[i] = f[j] PROVE i = j
      OBVIOUS
    <3>1. i \in Nat /\ j \in Nat /\ <<0, i - 1>> = <<0, j - 1>>
      BY <1>1, <2>1
    <3>. QED
      BY <3>1
  <2>3. \A k \in heard : \E i \in met : f[i] = k
    BY DEF Met, Of
  <2>. HIDE DEF met, heard
  <2>4. f \in [met -> heard]
    BY <2>1
  <2>. HIDE DEF f
  <2>. QED
    BY <2>2, <2>3, <2>4 DEF Bijection, Injection, Surjection, IsInjective
<1>12. Cardinality(heard) = Cardinality(met)
  <2>. HIDE DEF met, heard, f
  <2>. QED
    BY <1>10, <1>11, FS_Bijection DEF ExistsBijection
<1>. QED
  BY <1>8, <1>9, <1>10, <1>12 DEF Heard

\* When nothing is under way the transcript has each message of the chat once, whoever said it,
\* however the states, the replies and the events overtook each other, and for every number of
\* turns and of texts that are said more than once: unless a reply came before its `done', or
\* what was said was never stored.
THEOREM TranscriptIsTheChatHolds == TermSpec => []TranscriptIsTheChat
<1>1. TermInit => TermTyped /\ AllPast /\ TranscriptInv
  BY TermStarts, TranscriptStarts DEF AnnouncedInv
<1>2. TermTyped /\ AllPast /\ TranscriptInv /\ [TermNext]_<<termVars, left>>
        => TermTyped' /\ AllPast' /\ TranscriptInv'
  BY TypedStep, TranscriptStep
<1>3. TermTyped /\ TranscriptInv => TranscriptIsTheChat
  BY TranscriptEnds
<1>. QED
  BY <1>1, <1>2, <1>3, PTL DEF TermSpec

----------------------------------------------------------------------------
(* The views. *)

ViewSpec == ViewInit /\ [][ViewNext]_<<viewVars, left>>

Roster == {s \in SUBSET Robots : IsFiniteSet(s)}
HubState == [robots : Roster, live : Roster, files : Nat, judges : BOOLEAN]
Asks == {"state", "config", "llm", "upload", "register"}
LookState == [op : Asks, cmd : Nat, arg : Robots \union {None, "text", "binary"}, step : {0, 1, 2},
              draft : Roster, got : HubState \union {None}, crossed : BOOLEAN]
ViewNames == {"status", "chat", "actions", "robots", "config", "uploads"}
TuiState == [active : ViewNames \union Details, selected : Robots \union {None}, config : Roster \union {None},
             error : BOOLEAN, live : Roster, files : Nat, uploaded : BOOLEAN,
             llm : Judged \union {"checking"}, busy : BOOLEAN]
PastState == [asked : {<<>>} \union (Robots \X Details), doubt : SUBSET {"state", "config", "llm"},
              kept : SUBSET Robots, raced : BOOLEAN]

ViewTyped ==
    /\ hub \in HubState /\ looks \in Seq(LookState) /\ issued \in Nat
    /\ tui \in TuiState /\ past \in PastState
    /\ \A i \in DOMAIN looks : looks[i].op = "register" => looks[i].arg \in Robots

\* Two requests of which one writes what the other brings both know of each other.
LooksMeet == \A i, j \in DOMAIN looks : i # j /\ Meets(looks[i].op, looks[j].op) => looks[i].crossed

\* What an answer brings that met no writer is what the server has; and so is what is shown, unless
\* an answer is waited for, or the last one met a writer or failed.
ConfigPlace ==
    /\ \A i \in DOMAIN looks :
         PlaceOf(looks[i].op) = "config" /\ ~looks[i].crossed /\ looks[i].got # None
           => looks[i].got.robots = hub.robots
    /\ "config" \in past.doubt \/ tui.config = hub.robots \/ \E i \in DOMAIN looks : PlaceOf(looks[i].op) = "config"
    /\ tui.config # None \/ tui.error \/ \E i \in DOMAIN looks : looks[i].op = "config"

FilesPlace ==
    /\ \A i \in DOMAIN looks :
         PlaceOf(looks[i].op) = "state" /\ ~looks[i].crossed /\ looks[i].got # None
           => looks[i].got.files = hub.files
    /\ "state" \in past.doubt \/ tui.files = hub.files \/ \E i \in DOMAIN looks : PlaceOf(looks[i].op) = "state"
    /\ tui.uploaded => hub.files > 0
    /\ \A i \in DOMAIN looks : looks[i].op = "upload" /\ looks[i].got # None => hub.files > 0

\* One registration at a time adds its robot to what is there.
Registrations ==
    /\ \A i \in DOMAIN looks : looks[i].op = "register" /\ looks[i].got # None => looks[i].step = 2
    /\ ~past.raced =>
         /\ \A i, j \in DOMAIN looks : looks[i].op = "register" /\ looks[j].op = "register" => i = j
         /\ \A i \in DOMAIN looks : looks[i].op = "register" =>
              /\ looks[i].step = 1 => hub.robots \union {looks[i].arg} \subseteq looks[i].draft
              /\ looks[i].step = 2 => looks[i].arg \in hub.robots
         /\ past.kept \subseteq hub.robots

\* What is said to go on has a request under way.
Goings ==
    /\ tui.active \in Details => past.asked = <<tui.selected, tui.active>>
    /\ tui.llm = "checking" => \E i \in DOMAIN looks : looks[i].op = "llm"
    /\ tui.busy => \E i \in DOMAIN looks : looks[i].cmd > 0

ViewInv == ViewTyped /\ LooksMeet /\ ConfigPlace /\ FilesPlace /\ Registrations /\ Goings

\* The same request, that has met what is asked for now.
Carries(l, m, ops) ==
    /\ l.op = m.op /\ l.cmd = m.cmd /\ l.arg = m.arg /\ l.step = m.step /\ l.draft = m.draft /\ l.got = m.got
    /\ m.crossed => l.crossed
    /\ \A o \in ops : Meets(o, m.op) => l.crossed

\* What a command asks for is added to what is under way.
LEMMA AskingAdds ==
  ASSUME looks \in Seq(LookState), issued' \in Nat, NEW ops \in SUBSET Asks, IsFiniteSet(ops),
         NEW arg \in Robots \union {None, "text", "binary"}, Asking(ops, arg)
  PROVE  /\ looks' \in Seq(LookState) /\ DOMAIN looks \subseteq DOMAIN looks'
         /\ \A i \in DOMAIN looks : Carries(looks'[i], looks[i], ops)
         /\ \A k \in DOMAIN looks' \ DOMAIN looks : \E o \in ops : looks'[k] = Look(o, issued', arg)
         /\ \A o \in ops : \E k \in DOMAIN looks' \ DOMAIN looks : looks'[k].op = o
         /\ \A k, n \in DOMAIN looks' \ DOMAIN looks : looks'[k].op = looks'[n].op => k = n
<1>. DEFINE old == [i \in DOMAIN looks |->
                      [looks[i] EXCEPT !.crossed = @ \/ \E o \in ops : Meets(o, looks[i].op)]]
            new == [n \in 1 .. Cardinality(ops) |-> Look(SetToSeq(ops)[n], issued', arg)]
<1>1. /\ Cardinality(ops) \in Nat
      /\ \A n \in 1 .. Cardinality(ops) : SetToSeq(ops)[n] \in ops
      /\ \A n, m \in 1 .. Cardinality(ops) : SetToSeq(ops)[n] = SetToSeq(ops)[m] => n = m
      /\ \A o \in ops : \E n \in 1 .. Cardinality(ops) : SetToSeq(ops)[n] = o
  BY SetToSeqProperties
<1>2. ASSUME NEW i \in DOMAIN looks PROVE old[i] \in LookState /\ Carries(old[i], looks[i], ops)
  <2>. DEFINE c == looks[i].crossed \/ \E o \in ops : Meets(o, looks[i].op)
              l == [looks[i] EXCEPT !.crossed = c]
  <2>0. looks[i] \in LookState
    OBVIOUS
  <2>0a. c = TRUE \/ c = FALSE
    BY Zenon
  <2>1. looks[i] \in LookState /\ c \in BOOLEAN
    BY <2>0, <2>0a
  <2>2. old[i] = l
    OBVIOUS
  <2>. HIDE DEF c
  <2>3. /\ l \in LookState /\ l.op = looks[i].op /\ l.cmd = looks[i].cmd /\ l.arg = looks[i].arg
        /\ l.step = looks[i].step /\ l.draft = looks[i].draft /\ l.got = looks[i].got /\ l.crossed = c
    BY <2>1 DEF LookState
  <2>. QED
    BY <2>2, <2>3 DEF Carries, c
<1>3. ASSUME NEW o \in ops PROVE Look(o, issued', arg) \in LookState /\ Look(o, issued', arg).op = o
  <2>1. {} \in Roster
    BY FS_EmptySet DEF Roster
  <2>. QED
    BY <2>1 DEF Look, LookState
<1>2a. old = [i \in DOMAIN looks |-> old[i]]
  OBVIOUS
<1>. HIDE DEF old
<1>4. DOMAIN old = DOMAIN looks /\ Len(looks) \in Nat /\ DOMAIN looks = 1 .. Len(looks)
  BY <1>2a
<1>4a. old \in [1 .. Len(looks) -> LookState]
  BY <1>2, <1>2a, <1>4
<1>5. old \in Seq(LookState) /\ Len(old) = Len(looks)
  BY <1>4, <1>4a
<1>6. /\ new \in Seq(LookState) /\ Len(new) = Cardinality(ops)
      /\ \A n \in 1 .. Cardinality(ops) : new[n] = Look(SetToSeq(ops)[n], issued', arg)
  BY <1>1, <1>3
<1>. HIDE DEF new
<1>7. looks' = old \o new
  BY DEF Asking, old, new
<1>8. /\ looks' \in Seq(LookState) /\ DOMAIN looks' = 1 .. Len(looks) + Cardinality(ops)
      /\ \A i \in DOMAIN looks : looks'[i] = old[i]
      /\ \A k \in DOMAIN looks' \ DOMAIN looks : k - Len(looks) \in 1 .. Cardinality(ops)
                                                 /\ looks'[k] = new[k - Len(looks)]
      /\ \A n \in 1 .. Cardinality(ops) : n + Len(looks) \in DOMAIN looks' \ DOMAIN looks
                                          /\ looks'[n + Len(looks)] = new[n]
  BY <1>1, <1>4, <1>5, <1>6, <1>7
<1>9. DOMAIN looks \subseteq DOMAIN looks'
  BY <1>1, <1>4, <1>8
<1>10. \A k \in DOMAIN looks' \ DOMAIN looks : \E o \in ops : looks'[k] = Look(o, issued', arg)
  BY <1>1, <1>6, <1>8
<1>11. \A o \in ops : \E k \in DOMAIN looks' \ DOMAIN looks : looks'[k].op = o
  <2>. TAKE o \in ops
  <2>1. PICK n \in 1 .. Cardinality(ops) : SetToSeq(ops)[n] = o
    BY <1>1
  <2>2. looks'[n + Len(looks)] = Look(o, issued', arg) /\ n + Len(looks) \in DOMAIN looks' \ DOMAIN looks
    BY <1>6, <1>8, <2>1
  <2>. QED
    BY <1>3, <2>2
<1>12. ASSUME NEW k \in DOMAIN looks' \ DOMAIN looks, NEW n \in DOMAIN looks' \ DOMAIN looks,
              looks'[k].op = looks'[n].op
       PROVE  k = n
  <2>1. /\ k - Len(looks) \in 1 .. Cardinality(ops) /\ looks'[k].op = SetToSeq(ops)[k - Len(looks)]
        /\ n - Len(looks) \in 1 .. Cardinality(ops) /\ looks'[n].op = SetToSeq(ops)[n - Len(looks)]
    BY <1>1, <1>3, <1>6, <1>8
  <2>2. k - Len(looks) = n - Len(looks)
    BY <1>1, <1>12, <2>1
  <2>. QED
    BY <1>4, <1>8, <2>2
<1>. QED
  BY <1>2, <1>8, <1>9, <1>10, <1>11, <1>12

\* What removing a request leaves of the others.
LEMMA LookGone ==
  ASSUME looks \in Seq(LookState), NEW i \in DOMAIN looks, looks' = RemoveAt(looks, i)
  PROVE  /\ looks' \in Seq(LookState)
         /\ \A k \in DOMAIN looks' : Before(i, k) \in DOMAIN looks \ {i} /\ looks'[k] = looks[Before(i, k)]
         /\ \A k, n \in DOMAIN looks' : k # n => Before(i, k) # Before(i, n)
         /\ \A j \in DOMAIN looks \ {i} : \E k \in DOMAIN looks' : looks'[k] = looks[j]
<1>1. /\ looks' \in Seq(LookState)
      /\ \A k \in DOMAIN looks' : Before(i, k) \in DOMAIN looks \ {i} /\ looks'[k] = looks[Before(i, k)]
  BY RemoveAtProperties
<1>2. \A j \in DOMAIN looks \ {i} : \E k \in DOMAIN looks' : looks'[k] = looks[j]
  BY RemoveAtKeeps
<1>3. \A k, n \in DOMAIN looks' : k # n => Before(i, k) # Before(i, n)
  BY BeforeInjective
<1>. QED
  BY <1>1, <1>2, <1>3

\* A command keeps the invariant, whatever view it chooses: what is under way has met what it
\* asks for, and what is busy or checked with it is asked for.
LEMMA AskingKeeps ==
  ASSUME ViewInv, NEW ops \in SUBSET Asks, IsFiniteSet(ops), NEW arg \in Robots \union {None, "text", "binary"},
         Asking(ops, arg), issued' = issued + 1, hub' = hub,
         \A o, p \in ops : o # p => ~Meets(o, p),
         "register" \in ops => arg \in Robots,
         tui' \in TuiState, past' \in PastState,
         tui'.config = tui.config, tui.error => tui'.error, tui'.files = tui.files, tui'.uploaded => tui.uploaded,
         past'.doubt = past.doubt, past'.kept = past.kept, past.raced => past'.raced,
         "register" \in ops /\ (\E i \in DOMAIN looks : looks[i].op = "register") => past'.raced,
         tui'.active \in Details => past'.asked = <<tui'.selected, tui'.active>>,
         tui'.llm = "checking" => tui.llm = "checking" \/ "llm" \in ops,
         tui'.busy => tui.busy \/ ops # {}
  PROVE  ViewInv'
<1>. DEFINE fresh == DOMAIN looks' \ DOMAIN looks
<1>1. looks \in Seq(LookState) /\ issued \in Nat /\ issued' \in Nat /\ issued' > 0
  BY DEF ViewInv, ViewTyped
<1>2. /\ looks' \in Seq(LookState) /\ DOMAIN looks \subseteq DOMAIN looks'
      /\ \A i \in DOMAIN looks : Carries(looks'[i], looks[i], ops)
      /\ \A k \in fresh : \E o \in ops : looks'[k] = Look(o, issued', arg)
      /\ \A o \in ops : \E k \in fresh : looks'[k].op = o
      /\ \A k, n \in fresh : looks'[k].op = looks'[n].op => k = n
  BY <1>1, AskingAdds
<1>3. \A k \in fresh : /\ looks'[k].op \in ops /\ looks'[k].cmd = issued' /\ looks'[k].arg = arg
                       /\ looks'[k].step = 0 /\ looks'[k].got = None
                       /\ (\E i \in DOMAIN looks : Meets(looks'[k].op, looks[i].op)) => looks'[k].crossed
  BY <1>2 DEF Look
<1>4. \A i \in DOMAIN looks : /\ i \in DOMAIN looks' /\ looks'[i].op = looks[i].op
                              /\ looks'[i].cmd = looks[i].cmd
                              /\ looks'[i].arg = looks[i].arg /\ looks'[i].step = looks[i].step
                              /\ looks'[i].draft = looks[i].draft /\ looks'[i].got = looks[i].got
                              /\ looks[i].crossed => looks'[i].crossed
                              /\ \A o \in ops : Meets(o, looks[i].op) => looks'[i].crossed
  BY <1>2 DEF Carries
<1>5. \A k \in DOMAIN looks' : k \in DOMAIN looks \/ k \in fresh
  OBVIOUS
<1>6. \A o, p : Meets(o, p) => Meets(p, o)
  BY DEF Meets
<1>. HIDE DEF fresh
<1>7. ViewTyped'
  <2>1. \A k \in DOMAIN looks' : looks'[k].op = "register" => looks'[k].arg \in Robots
    BY <1>3, <1>4, <1>5 DEF ViewInv, ViewTyped
  <2>. QED
    BY <1>1, <1>2, <2>1 DEF ViewInv, ViewTyped
<1>8. LooksMeet'
  <2>1. ASSUME NEW i \in DOMAIN looks', NEW j \in DOMAIN looks', i # j, Meets(looks'[i].op, looks'[j].op)
        PROVE  looks'[i].crossed
    <3>1. CASE i \in DOMAIN looks /\ j \in DOMAIN looks
      <4>1. Meets(looks[i].op, looks[j].op)
        BY <1>4, <2>1, <3>1
      <4>2. looks[i].crossed
        BY <2>1, <3>1, <4>1 DEF ViewInv, LooksMeet
      <4>. QED
        BY <1>4, <3>1, <4>2
    <3>2. CASE i \in DOMAIN looks /\ j \in fresh
      BY <1>3, <1>4, <1>6, <2>1, <3>2
    <3>3. CASE i \in fresh /\ j \in DOMAIN looks
      BY <1>3, <1>4, <2>1, <3>3
    <3>4. CASE i \in fresh /\ j \in fresh
      BY <1>2, <1>3, <2>1, <3>4
    <3>. QED
      BY <1>5, <3>1, <3>2, <3>3, <3>4
  <2>. QED
    BY <2>1 DEF LooksMeet
<1>9. ConfigPlace'
  BY <1>3, <1>4, <1>5 DEF ViewInv, ConfigPlace
<1>10. FilesPlace'
  BY <1>3, <1>4, <1>5 DEF ViewInv, FilesPlace
<1>11. Registrations'
  <2>0. \A k \in DOMAIN looks' : looks'[k].op = "register" /\ k \in fresh => "register" \in ops
    BY <1>3
  <2>1. \A k \in DOMAIN looks' : looks'[k].op = "register" /\ looks'[k].got # None => looks'[k].step = 2
    BY <1>3, <1>4, <1>5 DEF ViewInv, Registrations
  <2>2. ASSUME ~past'.raced, NEW i \in DOMAIN looks', NEW j \in DOMAIN looks',
               looks'[i].op = "register", looks'[j].op = "register"
        PROVE  i = j
    BY <1>2, <1>4, <1>5, <2>0, <2>2 DEF ViewInv, Registrations
  <2>3. ASSUME ~past'.raced, NEW i \in DOMAIN looks', looks'[i].op = "register"
        PROVE  /\ looks'[i].step = 1 => hub.robots \union {looks'[i].arg} \subseteq looks'[i].draft
               /\ looks'[i].step = 2 => looks'[i].arg \in hub.robots
    <3>1. CASE i \in fresh
      BY <1>3, <3>1
    <3>2. CASE i \in DOMAIN looks
      BY <1>4, <2>3, <3>2 DEF ViewInv, Registrations
    <3>. QED
      BY <1>5, <3>1, <3>2
  <2>. QED
    BY <2>1, <2>2, <2>3 DEF ViewInv, Registrations
<1>12. Goings'
  <2>1. tui'.llm = "checking" => \E i \in DOMAIN looks' : looks'[i].op = "llm"
    BY <1>2, <1>4 DEF ViewInv, Goings, fresh
  <2>2. tui'.busy => \E i \in DOMAIN looks' : looks'[i].cmd > 0
    <3>1. CASE tui.busy
      BY <1>4, <3>1 DEF ViewInv, Goings
    <3>2. CASE ops # {}
      <4>1. PICK k \in fresh : TRUE
        BY <1>2, <3>2
      <4>. QED
        BY <1>1, <1>3, <4>1 DEF fresh
    <3>. QED
      BY <3>1, <3>2
  <2>. QED
    BY <2>1, <2>2 DEF Goings
<1>. QED
  BY <1>7, <1>8, <1>9, <1>10, <1>11, <1>12 DEF ViewInv

\* What a command may ask for.
LEMMA AsksAreFinite == \A ops \in SUBSET Asks : IsFiniteSet(ops)
<1>. DEFINE f == [n \in 1 .. 5 |-> CASE n = 1 -> "state" [] n = 2 -> "config" [] n = 3 -> "llm"
                                     [] n = 4 -> "upload" [] n = 5 -> "register"]
<1>1. f[1] = "state" /\ f[2] = "config" /\ f[3] = "llm" /\ f[4] = "upload" /\ f[5] = "register"
  OBVIOUS
<1>2. f \in [1 .. 5 -> Asks]
  BY DEF Asks
<1>. HIDE DEF f
<1>3. f \in Surjection(1 .. 5, Asks)
  BY <1>1, <1>2 DEF Asks, Surjection
<1>4. IsFiniteSet(1 .. 5)
  BY 1 \in Int, 5 \in Int, FS_Interval
<1>5. IsFiniteSet(Asks)
  BY <1>3, <1>4, FS_Surjection, Zenon
<1>. QED
  BY <1>5, FS_Subset

\* Every command is such a step.
LEMMA CommandKeeps ==
  ASSUME ViewInv,
         \/ \E v \in Views : ParseView(v)
         \/ \E r \in Robots : RegisterRobot(r) \/ \E v \in Details : SelectRobot(r, v)
         \/ RefreshAll \/ \E file \in {"text", "binary"} : UploadFile(file)
  PROVE  ViewInv'
<1>1. /\ tui \in TuiState /\ past \in PastState
      /\ tui.active \in Details => past.asked = <<tui.selected, tui.active>>
  BY DEF ViewInv, ViewTyped, Goings
<1>2. /\ {} \in SUBSET Asks /\ {"state", "config"} \in SUBSET Asks /\ {"state", "config", "llm"} \in SUBSET Asks
      /\ {"upload"} \in SUBSET Asks /\ {"register"} \in SUBSET Asks
  BY DEF Asks
<1>3. \A o, p \in {"state", "config", "llm"} : o # p => ~Meets(o, p)
  BY DEF Meets, PlaceOf, Writers
<1>4. ASSUME NEW v \in Views, ParseView(v) PROVE ViewInv'
  <2>. DEFINE ops == IF v = "chat" THEN {} ELSE {"state", "config"}
  <2>1. /\ Asking(ops, None) /\ issued' = issued + 1 /\ hub' = hub /\ past' = past
        /\ tui' = [tui EXCEPT !.active = v, !.busy = v # "chat"]
    BY <1>4 DEF ParseView, Issue
  <2>2. v \in ViewNames /\ v \notin Details
    BY TerminalViewsAssumption DEF ViewNames, Details
  <2>3. (v # "chat") \in BOOLEAN
    OBVIOUS
  <2>4. /\ tui' \in TuiState /\ tui'.active = v /\ tui'.config = tui.config /\ tui'.error = tui.error
        /\ tui'.files = tui.files /\ tui'.uploaded = tui.uploaded /\ tui'.llm = tui.llm
        /\ tui'.busy = (v # "chat")
    BY <1>1, <2>1, <2>2, <2>3 DEF TuiState
  <2>5. ops \in SUBSET Asks /\ IsFiniteSet(ops) /\ "register" \notin ops /\ (v # "chat" => ops # {})
        /\ \A o, p \in ops : o # p => ~Meets(o, p)
    BY <1>2, <1>3, AsksAreFinite
  <2>. HIDE DEF ops
  <2>. QED
    BY <1>1, <2>1, <2>2, <2>4, <2>5, AskingKeeps
<1>5. ASSUME NEW r \in Robots, NEW v \in Details, SelectRobot(r, v) PROVE ViewInv'
  <2>. DEFINE ops == {"state", "config"}
  <2>1. /\ Asking(ops, None) /\ issued' = issued + 1 /\ hub' = hub /\ past' = [past EXCEPT !.asked = <<r, v>>]
        /\ tui' = [tui EXCEPT !.active = v, !.selected = r, !.busy = TRUE]
    BY <1>5 DEF SelectRobot, Issue
  <2>2. /\ tui' \in TuiState /\ tui'.active = v /\ tui'.selected = r /\ tui'.config = tui.config
        /\ tui'.error = tui.error /\ tui'.files = tui.files /\ tui'.uploaded = tui.uploaded /\ tui'.llm = tui.llm
    BY <1>1, <2>1 DEF TuiState
  <2>3. /\ past' \in PastState /\ past'.asked = <<r, v>> /\ past'.doubt = past.doubt /\ past'.kept = past.kept
        /\ past'.raced = past.raced
    BY <1>1, <2>1 DEF PastState
  <2>4. ops \in SUBSET Asks /\ IsFiniteSet(ops) /\ "register" \notin ops /\ ops # {}
        /\ \A o, p \in ops : o # p => ~Meets(o, p)
    BY <1>2, <1>3, AsksAreFinite
  <2>. HIDE DEF ops
  <2>. QED
    BY <1>1, <2>1, <2>2, <2>3, <2>4, AskingKeeps
<1>6. ASSUME RefreshAll PROVE ViewInv'
  <2>. DEFINE ops == {"state", "config", "llm"}
  <2>1. /\ Asking(ops, None) /\ issued' = issued + 1 /\ hub' = hub /\ past' = past
        /\ tui' = [tui EXCEPT !.llm = "checking", !.busy = TRUE]
    BY <1>6 DEF RefreshAll, Issue
  <2>2. /\ tui' \in TuiState /\ tui'.active = tui.active /\ tui'.selected = tui.selected
        /\ tui'.config = tui.config
        /\ tui'.error = tui.error /\ tui'.files = tui.files /\ tui'.uploaded = tui.uploaded
    BY <1>1, <2>1 DEF TuiState
  <2>3. ops \in SUBSET Asks /\ IsFiniteSet(ops) /\ "register" \notin ops /\ "llm" \in ops
        /\ \A o, p \in ops : o # p => ~Meets(o, p)
    BY <1>2, <1>3, AsksAreFinite
  <2>. HIDE DEF ops
  <2>. QED
    BY <1>1, <2>1, <2>2, <2>3, AskingKeeps
<1>7. ASSUME NEW file \in {"text", "binary"}, UploadFile(file) PROVE ViewInv'
  <2>. DEFINE ops == {"upload"}
  <2>1. /\ Asking(ops, file) /\ issued' = issued + 1 /\ hub' = hub /\ past' = past
        /\ tui' = [tui EXCEPT !.active = "uploads", !.busy = TRUE]
    BY <1>7 DEF UploadFile, Issue
  <2>2. /\ tui' \in TuiState /\ tui'.active \notin Details /\ tui'.config = tui.config
        /\ tui'.error = tui.error /\ tui'.files = tui.files /\ tui'.uploaded = tui.uploaded /\ tui'.llm = tui.llm
    BY <1>1, <2>1 DEF TuiState, ViewNames, Details
  <2>3. ops \in SUBSET Asks /\ IsFiniteSet(ops) /\ "register" \notin ops /\ ops # {}
        /\ \A o, p \in ops : o # p => ~Meets(o, p)
    BY <1>2, AsksAreFinite
  <2>. HIDE DEF ops
  <2>. QED
    BY <1>1, <2>1, <2>2, <2>3, AskingKeeps
<1>8. ASSUME NEW r \in Robots, RegisterRobot(r) PROVE ViewInv'
  <2>. DEFINE ops == {"register"}
              met == past.raced \/ \E i \in DOMAIN looks : looks[i].op = "register"
  <2>1. /\ Asking(ops, r) /\ issued' = issued + 1 /\ hub' = hub
        /\ past' = [past EXCEPT !.raced = met]
        /\ tui' = [tui EXCEPT !.busy = TRUE]
    BY <1>8 DEF RegisterRobot, Issue
  <2>2. /\ tui' \in TuiState /\ tui'.active = tui.active /\ tui'.selected = tui.selected
        /\ tui'.config = tui.config
        /\ tui'.error = tui.error /\ tui'.files = tui.files /\ tui'.uploaded = tui.uploaded /\ tui'.llm = tui.llm
    BY <1>1, <2>1 DEF TuiState
  <2>3. met = TRUE \/ met = FALSE
    BY Zenon
  <2>4. /\ past.raced => met
        /\ (\E i \in DOMAIN looks : looks[i].op = "register") => met
    OBVIOUS
  <2>. HIDE DEF met
  <2>5. /\ past' \in PastState /\ past'.asked = past.asked /\ past'.doubt = past.doubt /\ past'.kept = past.kept
        /\ past'.raced = met
    BY <1>1, <2>1, <2>3 DEF PastState
  <2>6. ops \in SUBSET Asks /\ IsFiniteSet(ops) /\ ops # {}
        /\ \A o, p \in ops : o # p => ~Meets(o, p)
    BY <1>2, AsksAreFinite
  <2>. HIDE DEF ops
  <2>. QED
    BY <1>1, <2>1, <2>2, <2>4, <2>5, <2>6, AskingKeeps
<1>. QED
  BY <1>4, <1>5, <1>6, <1>7, <1>8

\* The end of a request changes only what is busy; and nothing stays busy unless another request
\* of a command is under way.
LEMMA DoneProperties ==
  ASSUME ViewInv, NEW i \in DOMAIN looks, NEW t \in TuiState, t.busy => tui.busy
  PROVE  /\ Done(i, t) \in TuiState
         /\ Done(i, t).active = t.active /\ Done(i, t).selected = t.selected /\ Done(i, t).config = t.config
         /\ Done(i, t).error = t.error /\ Done(i, t).live = t.live /\ Done(i, t).files = t.files
         /\ Done(i, t).uploaded = t.uploaded /\ Done(i, t).llm = t.llm
         /\ Done(i, t).busy => \E j \in DOMAIN looks \ {i} : looks[j].cmd > 0
<1>. DEFINE more == \E j \in DOMAIN looks \ {i} : looks[j].cmd = looks[i].cmd
            d == [t EXCEPT !.busy = FALSE]
<1>1. d \in TuiState /\ d.active = t.active /\ d.selected = t.selected /\ d.config = t.config /\ d.error = t.error
      /\ d.live = t.live /\ d.files = t.files /\ d.uploaded = t.uploaded /\ d.llm = t.llm /\ d.busy = FALSE
  BY DEF TuiState
<1>2. looks[i] \in LookState
  BY DEF ViewInv, ViewTyped
<1>3. looks[i].cmd \in Nat
  BY <1>2 DEF LookState
<1>4. CASE looks[i].cmd = 0
  <2>1. Done(i, t) = t
    BY <1>4 DEF Done
  <2>2. tui.busy => \E j \in DOMAIN looks \ {i} : looks[j].cmd > 0
    BY <1>4 DEF ViewInv, Goings
  <2>. QED
    BY <2>1, <2>2
<1>5. CASE looks[i].cmd # 0 /\ more
  <2>1. Done(i, t) = t
    BY <1>5 DEF Done
  <2>. QED
    BY <1>3, <1>5, <2>1
<1>6. CASE looks[i].cmd # 0 /\ ~more
  <2>1. Done(i, t) = d
    BY <1>6 DEF Done
  <2>. HIDE DEF d
  <2>. QED
    BY <1>1, <2>1
<1>. QED
  BY <1>4, <1>5, <1>6

\* A request that ends keeps the invariant, if its place shows what the server has or is in doubt.
LEMMA EndKeeps ==
  ASSUME ViewInv, NEW i \in DOMAIN looks, looks' = RemoveAt(looks, i), hub' = hub, issued' = issued,
         NEW t \in TuiState, tui' = Done(i, t), past' \in PastState,
         t.active \in Details => past'.asked = <<t.selected, t.active>>,
         t.busy => tui.busy,
         t.llm = "checking" => tui.llm = "checking" /\ looks[i].op # "llm",
         \/ "config" \in past'.doubt \/ t.config = hub.robots
         \/ /\ PlaceOf(looks[i].op) # "config" /\ t.config = tui.config
            /\ "config" \in past.doubt => "config" \in past'.doubt,
         \/ t.config # None \/ t.error
         \/ looks[i].op # "config" /\ t.config = tui.config /\ (tui.error => t.error),
         \/ "state" \in past'.doubt \/ t.files = hub.files
         \/ /\ PlaceOf(looks[i].op) # "state" /\ t.files = tui.files
            /\ "state" \in past.doubt => "state" \in past'.doubt,
         t.uploaded => tui.uploaded \/ hub.files > 0,
         past.raced => past'.raced,
         ~past.raced => past'.kept \subseteq hub.robots
  PROVE  ViewInv'
<1>1. looks \in Seq(LookState)
  BY DEF ViewInv, ViewTyped
<1>2. /\ looks' \in Seq(LookState)
      /\ \A k \in DOMAIN looks' : Before(i, k) \in DOMAIN looks \ {i} /\ looks'[k] = looks[Before(i, k)]
      /\ \A k, n \in DOMAIN looks' : k # n => Before(i, k) # Before(i, n)
      /\ \A j \in DOMAIN looks \ {i} : \E k \in DOMAIN looks' : looks'[k] = looks[j]
  BY <1>1, LookGone
<1>3. /\ tui' \in TuiState
      /\ tui'.active = t.active /\ tui'.selected = t.selected /\ tui'.config = t.config /\ tui'.error = t.error
      /\ tui'.files = t.files /\ tui'.uploaded = t.uploaded /\ tui'.llm = t.llm
      /\ tui'.busy => \E j \in DOMAIN looks \ {i} : looks[j].cmd > 0
  BY DoneProperties
<1>4. ViewTyped'
  BY <1>2, <1>3 DEF ViewInv, ViewTyped
<1>5. LooksMeet'
  BY <1>2 DEF ViewInv, LooksMeet
<1>6. ConfigPlace'
  <2>1. \A k \in DOMAIN looks' : PlaceOf(looks'[k].op) = "config" /\ ~looks'[k].crossed /\ looks'[k].got # None
                                   => looks'[k].got.robots = hub.robots
    BY <1>2 DEF ViewInv, ConfigPlace
  <2>2. "config" \in past'.doubt \/ tui'.config = hub.robots \/ \E k \in DOMAIN looks' : PlaceOf(looks'[k].op) = "config"
    BY <1>2, <1>3 DEF ViewInv, ConfigPlace
  <2>3. tui'.config # None \/ tui'.error \/ \E k \in DOMAIN looks' : looks'[k].op = "config"
    BY <1>2, <1>3 DEF ViewInv, ConfigPlace
  <2>. QED
    BY <2>1, <2>2, <2>3 DEF ConfigPlace
<1>7. FilesPlace'
  <2>1. \A k \in DOMAIN looks' : PlaceOf(looks'[k].op) = "state" /\ ~looks'[k].crossed /\ looks'[k].got # None
                                   => looks'[k].got.files = hub.files
    BY <1>2 DEF ViewInv, FilesPlace
  <2>2. "state" \in past'.doubt \/ tui'.files = hub.files \/ \E k \in DOMAIN looks' : PlaceOf(looks'[k].op) = "state"
    BY <1>2, <1>3 DEF ViewInv, FilesPlace
  <2>3. /\ tui'.uploaded => hub.files > 0
        /\ \A k \in DOMAIN looks' : looks'[k].op = "upload" /\ looks'[k].got # None => hub.files > 0
    BY <1>2, <1>3 DEF ViewInv, FilesPlace
  <2>. QED
    BY <2>1, <2>2, <2>3 DEF FilesPlace
<1>8. Registrations'
  <2>1. \A k \in DOMAIN looks' : looks'[k].op = "register" /\ looks'[k].got # None => looks'[k].step = 2
    BY <1>2 DEF ViewInv, Registrations
  <2>2. ASSUME ~past'.raced, NEW k \in DOMAIN looks', NEW n \in DOMAIN looks',
               looks'[k].op = "register", looks'[n].op = "register"
        PROVE  k = n
    BY <1>2, <2>2 DEF ViewInv, Registrations
  <2>3. ASSUME ~past'.raced, NEW k \in DOMAIN looks', looks'[k].op = "register"
        PROVE  /\ looks'[k].step = 1 => hub.robots \union {looks'[k].arg} \subseteq looks'[k].draft
               /\ looks'[k].step = 2 => looks'[k].arg \in hub.robots
    BY <1>2, <2>3 DEF ViewInv, Registrations
  <2>. QED
    BY <2>1, <2>2, <2>3 DEF Registrations
<1>9. Goings'
  <2>1. tui'.llm = "checking" => \E k \in DOMAIN looks' : looks'[k].op = "llm"
    BY <1>2, <1>3 DEF ViewInv, Goings
  <2>2. tui'.busy => \E k \in DOMAIN looks' : looks'[k].cmd > 0
    BY <1>2, <1>3
  <2>. QED
    BY <1>3, <2>1, <2>2 DEF Goings
<1>. QED
  BY <1>4, <1>5, <1>6, <1>7, <1>8, <1>9 DEF ViewInv

\* What an answer leaves in doubt.
LEMMA DoubtProperties ==
  ASSUME ViewInv, NEW i \in DOMAIN looks
  PROVE  /\ Doubt(looks[i]) \in SUBSET {"state", "config", "llm"}
         /\ PlaceOf(looks[i].op) \in Doubt(looks[i]) \/ ~looks[i].crossed
         /\ \A p : p # PlaceOf(looks[i].op) => (p \in Doubt(looks[i]) <=> p \in past.doubt)
<1>1. past.doubt \in SUBSET {"state", "config", "llm"}
  BY DEF ViewInv, ViewTyped, PastState
<1>2. PlaceOf(looks[i].op) \in {"state", "config", "llm"}
  BY DEF PlaceOf
<1>. QED
  BY <1>1, <1>2 DEF Doubt

\* Every answer, and every failure, is such an end.
LEMMA EndsKeep ==
  ASSUME ViewInv, NEW i \in DOMAIN looks,
         StateRead(i) \/ RefreshConfig(i) \/ Uploads(i) \/ RobotRegistered(i) \/ LlmTested(i) \/ LookFails(i)
  PROVE  ViewInv'
<1>1. /\ tui \in TuiState /\ past \in PastState /\ hub \in HubState /\ looks[i] \in LookState
      /\ tui.active \in Details => past.asked = <<tui.selected, tui.active>>
  BY DEF ViewInv, ViewTyped, Goings
<1>2. /\ looks[i].got # None => looks[i].got \in HubState
      /\ looks[i].op = "register" => looks[i].arg \in Robots
  BY <1>1 DEF LookState, ViewInv, ViewTyped
<1>3. looks[i].got # None => /\ (looks[i].got).robots \in Roster /\ (looks[i].got).live \in Roster
                             /\ (looks[i].got).files \in Nat
  BY <1>2 DEF HubState
<1>4. /\ Doubt(looks[i]) \in SUBSET {"state", "config", "llm"}
      /\ PlaceOf(looks[i].op) \in Doubt(looks[i]) \/ ~looks[i].crossed
      /\ \A p : p # PlaceOf(looks[i].op) => (p \in Doubt(looks[i]) <=> p \in past.doubt)
  BY DoubtProperties
<1>5. /\ PlaceOf("config") = "config" /\ PlaceOf("register") = "config"
      /\ PlaceOf("state") = "state" /\ PlaceOf("upload") = "state" /\ PlaceOf("llm") = "llm"
  BY DEF PlaceOf
<1>6. \A s \in Roster : s # None
  BY TerminalViewsAssumption DEF Roster
<1>7. ~past.raced => past.kept \subseteq hub.robots
  BY DEF ViewInv, Registrations
<1>. DEFINE doubted == [past EXCEPT !.doubt = Doubt(looks[i])]
<1>8. /\ doubted \in PastState /\ doubted.asked = past.asked /\ doubted.doubt = Doubt(looks[i])
      /\ doubted.kept = past.kept /\ doubted.raced = past.raced
  BY <1>1, <1>4 DEF PastState
<1>. HIDE DEF doubted
<1>9. CASE StateRead(i) \/ Uploads(i)
  <2>. DEFINE live == (looks[i].got).live
              files == (looks[i].got).files
              read == [tui EXCEPT !.live = live, !.files = files]
              sent == [tui EXCEPT !.live = live, !.files = files, !.uploaded = TRUE]
  <2>1. PICK t \in {read, sent} :
             /\ looks[i].got # None /\ looks[i].op \in {"state", "upload"} /\ (t = read \/ looks[i].op = "upload")
             /\ looks' = RemoveAt(looks, i) /\ tui' = Done(i, t) /\ UNCHANGED <<hub, issued>>
             /\ past' = doubted
    <3>1. CASE StateRead(i)
      <4>1. /\ looks[i].got # None /\ looks[i].op = "state" /\ looks' = RemoveAt(looks, i)
            /\ tui' = Done(i, read) /\ UNCHANGED <<hub, issued>> /\ past' = doubted
        BY <3>1 DEF StateRead, Answers, doubted
      <4>. QED
        BY <4>1
    <3>2. CASE Uploads(i)
      BY <3>2 DEF Uploads, Answers, doubted
    <3>. QED
      BY <1>9, <3>1, <3>2
  <2>2. live \in Roster /\ files \in Nat
    BY <1>3, <2>1
  <2>3. ~looks[i].crossed => files = hub.files
    BY <1>5, <2>1 DEF ViewInv, FilesPlace
  <2>4. looks[i].op = "upload" => hub.files > 0
    BY <2>1 DEF ViewInv, FilesPlace
  <2>. HIDE DEF live, files
  <2>5. /\ t \in TuiState /\ t.active = tui.active /\ t.selected = tui.selected /\ t.config = tui.config
        /\ t.error = tui.error /\ t.files = files /\ t.llm = tui.llm /\ t.busy = tui.busy
        /\ t.uploaded => tui.uploaded \/ t # read
    BY <1>1, <2>1, <2>2 DEF TuiState
  <2>. HIDE DEF read, sent
  <2>6. /\ "state" \in past'.doubt \/ t.files = hub.files
        /\ "config" \in past.doubt => "config" \in past'.doubt
    BY <1>4, <1>5, <1>8, <2>1, <2>3, <2>5
  <2>7. PlaceOf(looks[i].op) # "config" /\ looks[i].op \notin {"llm", "config"}
    BY <1>5, <2>1
  <2>8. past' \in PastState /\ past'.asked = past.asked /\ past'.kept = past.kept /\ past'.raced = past.raced
    BY <1>8, <2>1
  <2>9. t.uploaded => tui.uploaded \/ hub.files > 0
    BY <2>1, <2>4, <2>5
  <2>. QED
    BY <1>1, <1>7, <2>1, <2>5, <2>6, <2>7, <2>8, <2>9, EndKeeps
<1>10. CASE RefreshConfig(i)
  <2>. DEFINE robots == (looks[i].got).robots
              t == [tui EXCEPT !.config = robots, !.error = FALSE]
  <2>1. /\ looks[i].got # None /\ looks[i].op = "config"
        /\ looks' = RemoveAt(looks, i) /\ tui' = Done(i, t) /\ UNCHANGED <<hub, issued>>
        /\ past' = doubted
    BY <1>10 DEF RefreshConfig, Answers, doubted
  <2>2. robots \in Roster /\ robots # None
    BY <1>3, <1>6, <2>1
  <2>3. ~looks[i].crossed => robots = hub.robots
    BY <1>5, <2>1 DEF ViewInv, ConfigPlace
  <2>. HIDE DEF robots
  <2>5. /\ t \in TuiState /\ t.active = tui.active /\ t.selected = tui.selected /\ t.config = robots
        /\ t.files = tui.files /\ t.llm = tui.llm /\ t.busy = tui.busy /\ t.uploaded = tui.uploaded
    BY <1>1, <2>2 DEF TuiState
  <2>. HIDE DEF t
  <2>6. /\ "config" \in past'.doubt \/ t.config = hub.robots
        /\ "state" \in past.doubt => "state" \in past'.doubt
    BY <1>4, <1>5, <1>8, <2>1, <2>3, <2>5
  <2>7. PlaceOf(looks[i].op) # "state" /\ looks[i].op # "llm"
    BY <1>5, <2>1
  <2>8. past' \in PastState /\ past'.asked = past.asked /\ past'.kept = past.kept /\ past'.raced = past.raced
    BY <1>8, <2>1
  <2>. QED
    BY <1>1, <1>7, <2>1, <2>2, <2>5, <2>6, <2>7, <2>8, EndKeeps
<1>11. CASE RobotRegistered(i)
  <2>. DEFINE robots == (looks[i].got).robots
              arg == looks[i].arg
              t == [tui EXCEPT !.config = robots, !.selected = arg, !.active = "config"]
              kept == past.kept \union {arg}
              now == [past EXCEPT !.doubt = Doubt(looks[i]), !.kept = kept]
  <2>1. /\ looks[i].got # None /\ looks[i].op = "register"
        /\ looks' = RemoveAt(looks, i) /\ tui' = Done(i, t) /\ UNCHANGED <<hub, issued>>
        /\ past' = now
    BY <1>11 DEF RobotRegistered, Keeps, Answers
  <2>2. robots \in Roster /\ robots # None /\ arg \in Robots
    BY <1>2, <1>3, <1>6, <2>1
  <2>3. ~looks[i].crossed => robots = hub.robots
    BY <1>5, <2>1 DEF ViewInv, ConfigPlace
  <2>4. ~past.raced => kept \subseteq hub.robots
    <3>1. looks[i].step = 2
      BY <2>1 DEF ViewInv, Registrations
    <3>. QED
      BY <1>7, <2>1, <3>1 DEF ViewInv, Registrations
  <2>. HIDE DEF robots, arg
  <2>5. /\ t \in TuiState /\ t.active = "config" /\ t.config = robots /\ t.error = tui.error
        /\ t.files = tui.files /\ t.llm = tui.llm /\ t.busy = tui.busy /\ t.uploaded = tui.uploaded
    BY <1>1, <2>2 DEF TuiState, ViewNames
  <2>. HIDE DEF t
  <2>6. kept \in SUBSET Robots
    BY <1>1, <2>2 DEF PastState
  <2>. HIDE DEF kept
  <2>7. now \in PastState /\ now.doubt = Doubt(looks[i]) /\ now.kept = kept /\ now.raced = past.raced
    BY <1>1, <1>4, <2>6 DEF PastState
  <2>. HIDE DEF now
  <2>8. /\ "config" \in past'.doubt \/ t.config = hub.robots
        /\ "state" \in past.doubt => "state" \in past'.doubt
    BY <1>4, <1>5, <2>1, <2>3, <2>5, <2>7
  <2>9. PlaceOf(looks[i].op) # "state" /\ looks[i].op # "llm" /\ t.active \notin Details
    BY <1>5, <2>1, <2>5 DEF Details
  <2>. QED
    BY <1>1, <2>1, <2>2, <2>4, <2>5, <2>7, <2>8, <2>9, EndKeeps
<1>12. CASE LlmTested(i)
  <2>. DEFINE llm == IF looks[i].got.judges THEN "ok" ELSE "failed"
              t == [tui EXCEPT !.llm = llm]
  <2>1. /\ looks[i].op = "llm"
        /\ looks' = RemoveAt(looks, i) /\ tui' = Done(i, t) /\ UNCHANGED <<hub, issued, past>>
    BY <1>12 DEF LlmTested, Answers
  <2>2. llm \in Judged /\ llm # "checking"
    BY DEF Judged
  <2>. HIDE DEF llm
  <2>3. /\ t \in TuiState /\ t.active = tui.active /\ t.selected = tui.selected /\ t.config = tui.config
        /\ t.error = tui.error /\ t.files = tui.files /\ t.llm = llm /\ t.busy = tui.busy
        /\ t.uploaded = tui.uploaded
    BY <1>1, <2>2 DEF TuiState
  <2>. HIDE DEF t
  <2>4. PlaceOf(looks[i].op) \notin {"config", "state"} /\ looks[i].op # "config"
    BY <1>5, <2>1
  <2>. QED
    BY <1>1, <1>7, <2>1, <2>2, <2>3, <2>4, EndKeeps
<1>13. CASE LookFails(i)
  <2>. DEFINE t == CASE looks[i].op = "config" -> [tui EXCEPT !.error = TRUE]
                     [] looks[i].op = "llm" -> [tui EXCEPT !.llm = "unavailable"]
                     [] OTHER -> tui
              doubt == past.doubt \union {PlaceOf(looks[i].op)}
              now == [past EXCEPT !.doubt = doubt]
  <2>1. /\ looks' = RemoveAt(looks, i) /\ tui' = Done(i, t) /\ UNCHANGED <<hub, issued>>
        /\ past' = now
    BY <1>13 DEF LookFails
  <2>2. /\ t \in TuiState /\ t.active = tui.active /\ t.selected = tui.selected /\ t.config = tui.config
        /\ t.error = tui.error \/ t.error = TRUE
        /\ looks[i].op = "config" => t.error = TRUE
        /\ t.files = tui.files /\ t.busy = tui.busy /\ t.uploaded = tui.uploaded
        /\ t.llm = "checking" => tui.llm = "checking" /\ looks[i].op # "llm"
    BY <1>1 DEF TuiState, Judged
  <2>. HIDE DEF t
  <2>3. doubt \in SUBSET {"state", "config", "llm"} /\ past.doubt \subseteq doubt /\ PlaceOf(looks[i].op) \in doubt
    BY <1>1, <1>5 DEF LookState, Asks, PastState
  <2>. HIDE DEF doubt
  <2>4. /\ now \in PastState /\ now.asked = past.asked /\ now.doubt = doubt /\ now.kept = past.kept
        /\ now.raced = past.raced
    BY <1>1, <2>3 DEF PastState
  <2>. HIDE DEF now
  <2>5. /\ "config" \in past'.doubt \/ PlaceOf(looks[i].op) # "config"
        /\ "state" \in past'.doubt \/ PlaceOf(looks[i].op) # "state"
        /\ past.doubt \subseteq past'.doubt
    BY <2>1, <2>3, <2>4
  <2>. QED
    BY <1>1, <1>7, <2>1, <2>2, <2>4, <2>5, EndKeeps
<1>. QED
  BY <1>9, <1>10, <1>11, <1>12, <1>13

\* The same request, and what is shown but for the state of the LLM.
SameRequest(l, m) == l.op = m.op /\ l.cmd = m.cmd /\ l.arg = m.arg /\ l.crossed = m.crossed
SameShown ==
    /\ tui' \in TuiState
    /\ tui'.active = tui.active /\ tui'.selected = tui.selected /\ tui'.config = tui.config
    /\ tui'.error = tui.error /\ tui'.files = tui.files /\ tui'.uploaded = tui.uploaded /\ tui'.busy = tui.busy

\* What the server may write for request l, that was m: the robots of a registration that has read
\* them, and a file.
WritesFor(l, m) ==
    /\ hub'.robots # hub.robots => l.op = "register" /\ hub'.robots = m.draft /\ m.step = 1
    /\ hub'.files # hub.files => l.op = "upload" /\ hub'.files = hub.files + 1
    /\ l.got \in {None, hub'}
    /\ l.op = "upload" /\ l.got # None => hub'.files > 0
    /\ l.op = "register" =>
         /\ l.got # None => l.step = 2
         /\ l.step = 1 => hub'.robots \union {l.arg} \subseteq l.draft
         /\ l.step = 2 => m.step \in {1, 2} /\ (m.step = 1 => hub'.robots = m.draft)

\* What the server does for a request keeps the invariant, and so does a step of a request's own:
\* what it writes has met every request that brings it.
LEMMA ServedKeeps ==
  ASSUME ViewInv, NEW i \in DOMAIN looks, NEW l \in LookState, looks' = [looks EXCEPT ![i] = l],
         hub' \in HubState, UNCHANGED <<issued, past>>,
         SameRequest(l, looks[i]), SameShown, WritesFor(l, looks[i]),
         tui'.llm = "checking" => tui.llm = "checking" \/ l.op = "llm"
  PROVE  ViewInv'
<1>1. looks \in Seq(LookState) /\ hub \in HubState /\ hub.files \in Nat /\ issued \in Nat /\ past \in PastState
  BY DEF ViewInv, ViewTyped, HubState
<1>. USE DEF SameRequest, SameShown, WritesFor
<1>2. /\ looks' \in Seq(LookState) /\ DOMAIN looks' = DOMAIN looks /\ looks'[i] = l
      /\ \A k \in DOMAIN looks \ {i} : looks'[k] = looks[k]
  BY <1>1, UpdateProperties
<1>3. \A k \in DOMAIN looks : looks'[k].op = looks[k].op /\ looks'[k].cmd = looks[k].cmd
                              /\ looks'[k].arg = looks[k].arg /\ looks'[k].crossed = looks[k].crossed
  BY <1>2
<1>4. ViewTyped'
  BY <1>1, <1>2, <1>3 DEF ViewInv, ViewTyped
<1>5. LooksMeet'
  BY <1>2, <1>3 DEF ViewInv, LooksMeet
<1>6. /\ PlaceOf("register") = "config" /\ PlaceOf("upload") = "state"
      /\ \A o, p : PlaceOf(o) = PlaceOf(p) /\ p \in Writers => Meets(o, p)
  BY DEF PlaceOf, Meets
<1>7. ASSUME hub'.robots # hub.robots, NEW k \in DOMAIN looks \ {i}, PlaceOf(looks[k].op) = "config"
      PROVE  looks[k].crossed
  <2>1. Meets(looks[k].op, looks[i].op)
    BY <1>6, <1>7 DEF Writers
  <2>. QED
    BY <1>7, <2>1 DEF ViewInv, LooksMeet
<1>8. ASSUME hub'.files # hub.files, NEW k \in DOMAIN looks \ {i}, PlaceOf(looks[k].op) = "state"
      PROVE  looks[k].crossed
  <2>1. Meets(looks[k].op, looks[i].op)
    BY <1>6, <1>8 DEF Writers
  <2>. QED
    BY <1>8, <2>1 DEF ViewInv, LooksMeet
<1>9. ConfigPlace'
  <2>1. ASSUME NEW k \in DOMAIN looks', PlaceOf(looks'[k].op) = "config", ~looks'[k].crossed, looks'[k].got # None
        PROVE  looks'[k].got.robots = hub'.robots
    <3>1. CASE k = i
      BY <1>2, <2>1, <3>1
    <3>2. CASE k # i
      BY <1>2, <1>7, <2>1, <3>2 DEF ViewInv, ConfigPlace
    <3>. QED
      BY <3>1, <3>2
  <2>2. "config" \in past.doubt \/ tui.config = hub'.robots \/ \E k \in DOMAIN looks : PlaceOf(looks[k].op) = "config"
    BY <1>6 DEF ViewInv, ConfigPlace
  <2>. QED
    BY <1>2, <1>3, <2>1, <2>2 DEF ViewInv, ConfigPlace
<1>10. FilesPlace'
  <2>1. ASSUME NEW k \in DOMAIN looks', PlaceOf(looks'[k].op) = "state", ~looks'[k].crossed, looks'[k].got # None
        PROVE  looks'[k].got.files = hub'.files
    <3>1. CASE k = i
      BY <1>2, <2>1, <3>1
    <3>2. CASE k # i
      BY <1>2, <1>8, <2>1, <3>2 DEF ViewInv, FilesPlace
    <3>. QED
      BY <3>1, <3>2
  <2>2. "state" \in past.doubt \/ tui.files = hub'.files \/ \E k \in DOMAIN looks : PlaceOf(looks[k].op) = "state"
    BY <1>6 DEF ViewInv, FilesPlace
  <2>3. hub.files > 0 => hub'.files > 0
    BY <1>1
  <2>4. \A k \in DOMAIN looks' : looks'[k].op = "upload" /\ looks'[k].got # None => hub'.files > 0
    BY <1>2, <2>3 DEF ViewInv, FilesPlace
  <2>. QED
    BY <1>2, <1>3, <2>1, <2>2, <2>3, <2>4 DEF ViewInv, FilesPlace
<1>11. Registrations'
  <2>1. \A k \in DOMAIN looks' : looks'[k].op = "register" /\ looks'[k].got # None => looks'[k].step = 2
    BY <1>2 DEF ViewInv, Registrations
  <2>2. ASSUME ~past.raced
        PROVE  /\ \A j, k \in DOMAIN looks : looks[j].op = "register" /\ looks[k].op = "register" => j = k
               /\ hub.robots \subseteq hub'.robots
               /\ past.kept \subseteq hub'.robots
               /\ l.op = "register" /\ l.step = 2 => l.arg \in hub'.robots
    BY <2>2 DEF ViewInv, Registrations
  <2>3. ASSUME ~past.raced, NEW k \in DOMAIN looks', looks'[k].op = "register"
        PROVE  /\ looks'[k].step = 1 => hub'.robots \union {looks'[k].arg} \subseteq looks'[k].draft
               /\ looks'[k].step = 2 => looks'[k].arg \in hub'.robots
    <3>1. CASE k = i
      BY <1>2, <2>2, <2>3, <3>1
    <3>2. CASE k # i
      <4>1. looks[i].op # "register"
        BY <1>2, <2>2, <2>3, <3>2
      <4>2. hub'.robots = hub.robots
        BY <4>1
      <4>. QED
        BY <1>2, <2>3, <3>2, <4>2 DEF ViewInv, Registrations
    <3>. QED
      BY <3>1, <3>2
  <2>4. \A j, k \in DOMAIN looks' : ~past.raced /\ looks'[j].op = "register" /\ looks'[k].op = "register" => j = k
    BY <1>2, <1>3, <2>2
  <2>. QED
    BY <2>1, <2>2, <2>3, <2>4 DEF Registrations
<1>12. Goings'
  BY <1>2, <1>3 DEF ViewInv, Goings
<1>. QED
  BY <1>4, <1>5, <1>9, <1>10, <1>11, <1>12 DEF ViewInv

\* Each such step is one.
LEMMA ServerKeeps ==
  ASSUME ViewInv, NEW i \in DOMAIN looks,
         LookServed(i) \/ RegisterReads(i) \/ RegisterWrites(i) \/ LlmSettings(i)
  PROVE  ViewInv'
<1>1. looks[i] \in LookState /\ hub \in HubState /\ tui \in TuiState /\ looks \in Seq(LookState)
  BY DEF ViewInv, ViewTyped
<1>2. /\ hub.robots \in Roster /\ hub.live \in Roster /\ hub.files \in Nat
      /\ looks[i].op = "register" => looks[i].arg \in Robots
      /\ looks[i].draft \in Roster
  BY <1>1 DEF HubState, LookState, ViewInv, ViewTyped
<1>3. looks[i].op = "register" /\ looks[i].got # None => looks[i].step = 2
  BY DEF ViewInv, Registrations
<1>4. CASE LookServed(i)
  <2>. DEFINE more == [hub EXCEPT !.files = hub.files + 1]
  <2>1. /\ hub' = IF looks[i].op = "upload" THEN more ELSE hub
        /\ looks[i].op = "register" => looks[i].step = 2
        /\ looks' = [looks EXCEPT ![i].got = hub']
        /\ UNCHANGED <<tui, issued, past>>
    BY <1>4 DEF LookServed
  <2>2. more \in HubState /\ more.robots = hub.robots /\ more.files = hub.files + 1
    BY <1>1, <1>2 DEF HubState
  <2>. HIDE DEF more
  <2>3. /\ hub' \in HubState /\ hub'.robots = hub.robots
        /\ hub'.files # hub.files => looks[i].op = "upload" /\ hub'.files = hub.files + 1
        /\ looks[i].op = "upload" => hub'.files > 0
    BY <1>1, <1>2, <2>1, <2>2
  <2>. DEFINE l == [looks[i] EXCEPT !.got = hub']
  <2>4. looks' = [looks EXCEPT ![i] = l]
    BY <2>1
  <2>5. /\ l \in LookState /\ l.op = looks[i].op /\ l.cmd = looks[i].cmd /\ l.arg = looks[i].arg
        /\ l.crossed = looks[i].crossed /\ l.step = looks[i].step /\ l.draft = looks[i].draft /\ l.got = hub'
    BY <1>1, <2>3 DEF LookState
  <2>. HIDE DEF l
  <2>6. SameRequest(l, looks[i]) /\ SameShown /\ UNCHANGED <<issued, past>> /\ tui' = tui
    BY <1>1, <2>1, <2>5 DEF SameRequest, SameShown
  <2>7. WritesFor(l, looks[i])
    BY <2>1, <2>3, <2>5 DEF WritesFor
  <2>. QED
    BY <2>3, <2>4, <2>5, <2>6, <2>7, ServedKeeps
<1>5. CASE RegisterReads(i)
  <2>. DEFINE draft == hub.robots \union {looks[i].arg}
              l == [looks[i] EXCEPT !.step = 1, !.draft = draft]
  <2>1. /\ looks[i].op = "register" /\ looks[i].step = 0
        /\ looks' = [looks EXCEPT ![i].step = 1, ![i].draft = draft]
        /\ UNCHANGED <<hub, tui, issued, past>>
    BY <1>5 DEF RegisterReads
  <2>2. draft \in Roster
    BY <1>2, <2>1, FS_AddElement DEF Roster
  <2>3. looks' = [looks EXCEPT ![i] = l]
    <3>. HIDE DEF draft
    <3>. QED
      BY <1>1, <2>1
  <2>4. looks[i].got = None
    BY <1>3, <2>1
  <2>5. hub.robots \union {looks[i].arg} \subseteq draft
    OBVIOUS
  <2>. HIDE DEF draft
  <2>6. /\ l \in LookState /\ l.op = looks[i].op /\ l.cmd = looks[i].cmd /\ l.arg = looks[i].arg
        /\ l.crossed = looks[i].crossed /\ l.step = 1 /\ l.draft = draft /\ l.got = looks[i].got
    BY <1>1, <2>2 DEF LookState
  <2>. HIDE DEF l
  <2>7. SameRequest(l, looks[i]) /\ SameShown /\ UNCHANGED <<issued, past>> /\ tui' = tui /\ hub' \in HubState
    BY <1>1, <2>1, <2>6 DEF SameRequest, SameShown
  <2>8. WritesFor(l, looks[i])
    BY <2>1, <2>4, <2>5, <2>6 DEF WritesFor
  <2>. QED
    BY <2>3, <2>6, <2>7, <2>8, ServedKeeps
<1>6. CASE RegisterWrites(i)
  <2>. DEFINE l == [looks[i] EXCEPT !.step = 2]
              h == [hub EXCEPT !.robots = looks[i].draft]
  <2>1. /\ looks[i].op = "register" /\ looks[i].step = 1
        /\ looks' = [looks EXCEPT ![i].step = 2] /\ hub' = h
        /\ UNCHANGED <<tui, issued, past>>
    BY <1>6 DEF RegisterWrites
  <2>2. looks' = [looks EXCEPT ![i] = l]
    BY <2>1
  <2>3. looks[i].got = None
    BY <1>3, <2>1
  <2>4. /\ l \in LookState /\ l.op = looks[i].op /\ l.cmd = looks[i].cmd /\ l.arg = looks[i].arg
        /\ l.crossed = looks[i].crossed /\ l.step = 2 /\ l.got = looks[i].got
    BY <1>1 DEF LookState
  <2>5. h \in HubState /\ h.robots = looks[i].draft /\ h.files = hub.files
    BY <1>1, <1>2 DEF HubState
  <2>. HIDE DEF l, h
  <2>6. SameRequest(l, looks[i]) /\ SameShown /\ UNCHANGED <<issued, past>> /\ tui' = tui /\ hub' \in HubState
    BY <1>1, <2>1, <2>4, <2>5 DEF SameRequest, SameShown
  <2>7. WritesFor(l, looks[i])
    BY <2>1, <2>3, <2>4, <2>5 DEF WritesFor
  <2>. QED
    BY <2>2, <2>4, <2>6, <2>7, ServedKeeps
<1>7. CASE LlmSettings(i)
  <2>. DEFINE l == [looks[i] EXCEPT !.step = 1, !.got = None]
              t == [tui EXCEPT !.llm = "checking"]
  <2>1. /\ looks[i].op = "llm"
        /\ looks' = [looks EXCEPT ![i].step = 1, ![i].got = None] /\ tui' = t
        /\ UNCHANGED <<hub, issued, past>>
    BY <1>7 DEF LlmSettings
  <2>2. looks' = [looks EXCEPT ![i] = l]
    BY <1>1, <2>1
  <2>3. /\ l \in LookState /\ l.op = looks[i].op /\ l.cmd = looks[i].cmd /\ l.arg = looks[i].arg
        /\ l.crossed = looks[i].crossed /\ l.got = None
    BY <1>1 DEF LookState
  <2>4. /\ t \in TuiState /\ t.active = tui.active /\ t.selected = tui.selected /\ t.config = tui.config
        /\ t.error = tui.error /\ t.files = tui.files /\ t.uploaded = tui.uploaded /\ t.busy = tui.busy
    BY <1>1 DEF TuiState
  <2>. HIDE DEF l, t
  <2>5. SameRequest(l, looks[i]) /\ SameShown /\ UNCHANGED <<issued, past>> /\ hub' \in HubState
    BY <1>1, <2>1, <2>3, <2>4 DEF SameRequest, SameShown
  <2>6. WritesFor(l, looks[i]) /\ l.op = "llm"
    BY <2>1, <2>3 DEF WritesFor
  <2>. QED
    BY <2>2, <2>3, <2>5, <2>6, ServedKeeps
<1>. QED
  BY <1>4, <1>5, <1>6, <1>7

\* Every step keeps the invariant.
LEMMA ViewStep ==
  ASSUME ViewInv, [ViewNext]_<<viewVars, left>>
  PROVE  ViewInv'
<1>1. ASSUME WatchRestarts PROVE ViewInv'
  <2>1. hub' = [hub EXCEPT !.live = hub.robots] /\ UNCHANGED <<tui, looks, issued, past>>
    BY <1>1 DEF WatchRestarts
  <2>2. hub' \in HubState /\ hub'.robots = hub.robots /\ hub'.files = hub.files
    BY <2>1 DEF ViewInv, ViewTyped, HubState
  <2>3. ViewTyped' /\ LooksMeet' /\ Goings'
    BY <2>1, <2>2 DEF ViewInv, ViewTyped, LooksMeet, Goings
  <2>4. ConfigPlace' /\ FilesPlace' /\ Registrations'
    BY <2>1, <2>2 DEF ViewInv, ConfigPlace, FilesPlace, Registrations
  <2>. QED
    BY <2>3, <2>4 DEF ViewInv
<1>2. CASE UNCHANGED <<viewVars, left>>
  BY <1>2 DEF viewVars, ViewInv, ViewTyped, LooksMeet, ConfigPlace, FilesPlace, Registrations, Goings
<1>3. ASSUME NEW i \in DOMAIN looks,
             \/ LookServed(i) \/ RegisterReads(i) \/ RegisterWrites(i)
             \/ StateRead(i) \/ RefreshConfig(i) \/ Uploads(i) \/ RobotRegistered(i)
             \/ LlmSettings(i) \/ LlmTested(i) \/ LookFails(i)
      PROVE  ViewInv'
  BY <1>3, ServerKeeps, EndsKeep
<1>. QED
  BY <1>1, <1>2, <1>3, CommandKeeps DEF ViewNext

\* At the start all three places are asked for, or have been.
LEMMA ViewStarts == ViewInit => ViewInv
<1>. SUFFICES ASSUME ViewInit PROVE ViewInv
  OBVIOUS
<1>1. {CHOOSE r \in Robots : TRUE} \in Roster /\ {} \in Roster
  BY TerminalViewsAssumption, FS_EmptySet, FS_Singleton DEF Roster
<1>2. PICK r \in {{}, {CHOOSE r \in Robots : TRUE}}, j \in BOOLEAN :
         hub = [robots |-> r, live |-> r, files |-> 0, judges |-> j]
  BY DEF ViewInit
<1>3. hub \in HubState /\ hub.files = 0
  BY <1>1, <1>2 DEF HubState
<1>4. issued = 0 /\ past = [asked |-> <<>>, doubt |-> {}, kept |-> {}, raced |-> FALSE]
  BY DEF ViewInit
<1>5. past \in PastState /\ past.kept = {} /\ past.doubt = {}
  BY <1>4 DEF PastState
<1>6. /\ Blank \in TuiState /\ Blank.files = 0 /\ Blank.llm = "checking" /\ ~Blank.busy /\ ~Blank.uploaded
      /\ Blank.active = "chat"
  BY <1>1 DEF Blank, TuiState, ViewNames
<1>7. CASE tui = Blank /\ looks = AtMount
  <2>. DEFINE op == <<"state", "config", "llm">>
              l(n) == [op |-> op[n], cmd |-> 0, arg |-> None, step |-> 0, draft |-> {}, got |-> None, crossed |-> FALSE]
  <2>1. op[1] = "state" /\ op[2] = "config" /\ op[3] = "llm"
    OBVIOUS
  <2>. HIDE DEF op
  <2>2. /\ l(1) \in LookState /\ l(1).op = "state" /\ l(1).got = None
        /\ l(2) \in LookState /\ l(2).op = "config" /\ l(2).got = None
        /\ l(3) \in LookState /\ l(3).op = "llm" /\ l(3).got = None
    BY <1>1, <2>1 DEF LookState, Asks
  <2>3. looks = [n \in 1 .. 3 |-> l(n)]
    BY <1>7 DEF AtMount, op
  <2>. HIDE DEF l
  <2>4. \A n \in 1 .. 3 : l(n) \in LookState
    BY <2>2
  <2>5. /\ looks \in Seq(LookState) /\ DOMAIN looks = 1 .. 3
        /\ looks[1].op = "state" /\ looks[2].op = "config" /\ looks[3].op = "llm"
        /\ \A i \in DOMAIN looks : looks[i].got = None
    BY <2>2, <2>3, <2>4
  <2>6. ViewTyped
    BY <1>3, <1>4, <1>5, <1>6, <1>7, <2>5 DEF ViewTyped
  <2>7. LooksMeet
    BY <2>5 DEF LooksMeet, Meets, PlaceOf, Writers
  <2>8. /\ \E i \in DOMAIN looks : looks[i].op = "config" /\ PlaceOf(looks[i].op) = "config"
        /\ \E i \in DOMAIN looks : looks[i].op = "llm"
        /\ \A i \in DOMAIN looks : looks[i].op \notin Writers
    BY <2>5 DEF PlaceOf, Writers
  <2>9. ConfigPlace /\ FilesPlace
    BY <1>3, <1>5, <1>6, <1>7, <2>5, <2>8 DEF ConfigPlace, FilesPlace
  <2>10. Registrations /\ Goings
    BY <1>3, <1>5, <1>6, <1>7, <2>5, <2>8 DEF Registrations, Goings, Writers, Details
  <2>. QED
    BY <2>6, <2>7, <2>9, <2>10 DEF ViewInv
<1>8. CASE tui = Told(hub) /\ looks = <<>>
  <2>. DEFINE llm == IF hub.judges THEN "ok" ELSE "failed"
  <2>1. llm \in Judged /\ llm # "checking"
    BY DEF Judged
  <2>2. tui = [Blank EXCEPT !.config = hub.robots, !.live = hub.live, !.llm = llm]
    BY <1>8 DEF Told
  <2>3. hub.robots \in Roster /\ hub.live \in Roster /\ hub.robots # None
    BY <1>3, TerminalViewsAssumption DEF HubState, Roster
  <2>. HIDE DEF llm
  <2>4. /\ tui \in TuiState /\ tui.config = hub.robots /\ tui.files = 0 /\ tui.llm = llm /\ ~tui.busy
        /\ ~tui.uploaded /\ tui.active = "chat"
    BY <1>6, <2>1, <2>2, <2>3 DEF TuiState
  <2>5. looks \in Seq(LookState) /\ DOMAIN looks = {}
    BY <1>8
  <2>6. ViewTyped /\ LooksMeet
    BY <1>3, <1>4, <1>5, <2>4, <2>5 DEF ViewTyped, LooksMeet
  <2>7. ConfigPlace /\ FilesPlace
    BY <1>3, <2>3, <2>4, <2>5 DEF ConfigPlace, FilesPlace
  <2>8. Registrations /\ Goings
    BY <1>5, <2>1, <2>4, <2>5 DEF Registrations, Goings, Details
  <2>. QED
    BY <2>6, <2>7, <2>8 DEF ViewInv
<1>. QED
  BY <1>7, <1>8 DEF ViewInit

\* However commands overlap, the views of the terminal show what was asked for last and what the
\* server has, and nothing goes on that is over.
THEOREM ViewsAgreeHolds == ViewSpec => []ViewsAgree
<1>1. ViewInv => ViewsAgree
  <2>. SUFFICES ASSUME ViewInv PROVE ViewsAgree
    OBVIOUS
  <2>1. tui \in TuiState /\ hub \in HubState
    BY DEF ViewInv, ViewTyped
  <2>2. tui.live \in Roster /\ hub.robots \in Roster
    BY <2>1 DEF TuiState, HubState
  <2>3. Looked("config") => tui.config = hub.robots
    BY DEF Looked, ViewInv, ConfigPlace
  <2>4. ASSUME Looked("config")
        PROVE  /\ Panel = "not found" => tui.selected \notin hub.robots
               /\ Panel = "none" /\ tui.active = "robots" => hub.robots = {}
               /\ Counts.robots >= Cardinality(hub.robots)
    <3>1. hub.robots # None
      BY <2>2, TerminalViewsAssumption DEF Roster
    <3>2. Listed = hub.robots \union tui.live
      BY <2>3, <2>4, <3>1 DEF Listed
    <3>3. Panel = "not found" => tui.selected \notin Listed
      BY DEF Panel, Detail, ConfigShown, RobotsShown, UploadsShown
    <3>4. Panel = "none" /\ tui.active = "robots" => Listed = {}
      BY DEF Panel, RobotsShown, Details
    <3>5. IsFiniteSet(Listed)
      BY <2>2, <3>2, FS_Union DEF Roster
    <3>6. Cardinality(hub.robots) <= Cardinality(Listed)
      BY <3>2, <3>5, FS_Subset
    <3>7. Cardinality(hub.robots) \in Nat /\ Cardinality(Listed) \in Nat
      BY <2>2, <3>5, FS_CardinalityType DEF Roster
    <3>8. Counts.robots = Cardinality(Listed)
      BY DEF Counts
    <3>. QED
      BY <3>2, <3>3, <3>4, <3>6, <3>7, <3>8
  <2>5. ASSUME Looked("state") PROVE Counts.uploads = hub.files /\ Panel # "one of none"
    <3>1. tui.files = hub.files
      BY <2>5 DEF Looked, ViewInv, FilesPlace
    <3>2. Panel = "one of none" => tui.files = 0 /\ tui.uploaded
      BY DEF Panel, Detail, ConfigShown, RobotsShown, UploadsShown
    <3>3. ~(tui.files = 0 /\ tui.uploaded)
      BY <3>1 DEF ViewInv, FilesPlace
    <3>. QED
      BY <3>1, <3>2, <3>3 DEF Counts
  <2>6. Panel = "not loaded" => \E i \in DOMAIN looks : looks[i].op = "config"
    <3>1. Panel = "not loaded" => tui.config = None /\ ~tui.error
      BY DEF Panel, Detail, ConfigShown, RobotsShown, UploadsShown
    <3>. QED
      BY <3>1 DEF ViewInv, ConfigPlace
  <2>7. past.raced \/ past.kept \subseteq hub.robots
    BY DEF ViewInv, Registrations
  <2>. QED
    BY <2>3, <2>4, <2>5, <2>6, <2>7 DEF ViewsAgree, ViewInv, Goings
<1>. QED
  BY <1>1, ViewStarts, ViewStep, PTL DEF ViewSpec
=============================================================================
