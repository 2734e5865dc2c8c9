---------------------------- MODULE TerminalViews ----------------------------
(***************************************************************************)
(* The views of the terminal client.  A command chooses a view, and asks   *)
(* for what the view shows: the state, the effective configuration, and    *)
(* what a test of the LLM says; an upload and the registration of a robot  *)
(* bring the same things with their answers.  Commands overlap, since the  *)
(* command line takes the next one while the last is under way, and each   *)
(* answer overwrites what is shown.                                        *)
(*                                                                         *)
(* The server keeps the configuration in a file that a registration reads  *)
(* and writes back, without a lock; what the Watch has published of the    *)
(* robots changes when it is started again.                                *)
(***************************************************************************)
EXTENDS EventBudget, Sequences, SequencesExt

CONSTANTS
    Robots,    \* that may be registered
    Views,     \* that /view may name, of status, chat, actions, robots, config and uploads
    MaxLooks   \* bound on the requests under way

ASSUME TerminalViewsAssumption ==
    /\ Robots # {} /\ None \notin Robots /\ \A s \in SUBSET Robots : s # None
    /\ Views \subseteq {"status", "chat", "actions", "robots", "config", "uploads"}
    /\ MaxLooks \in Nat

VARIABLES
    hub,       \* the server: robots configured, robots published, files, whether the LLM answers
    tui,       \* what the client shows
    looks,     \* requests under way
    issued,    \* commands so far; 0 asks when the client is mounted
    past       \* history: the robot asked for, doubtful places, robots said to be registered

viewVars == <<hub, tui, looks, issued, past>>

Details == {"robot", "capabilities"}
Judged == {"ok", "failed", "unavailable"}
Writers == {"register", "upload"}
PlaceOf(op) == CASE op \in {"config", "register"} -> "config"
                 [] op \in {"state", "upload"} -> "state"
                 [] OTHER -> "llm"

\* Of two requests of which one writes what the other brings, the answers may be exchanged.
Meets(o, p) == PlaceOf(o) = PlaceOf(p) /\ {o, p} \cap Writers # {}
Look(op, cmd, arg) ==
    [op |-> op, cmd |-> cmd, arg |-> arg, step |-> 0, draft |-> {}, got |-> None,
     crossed |-> \E i \in DOMAIN looks : Meets(op, looks[i].op)]

\* As the client is mounted, or when all it asked for has been answered.
Blank == [active |-> "chat", selected |-> None, config |-> None, error |-> FALSE,
          live |-> {}, files |-> 0, uploaded |-> FALSE, llm |-> "checking", busy |-> FALSE]
Told(h) == [Blank EXCEPT !.config = h.robots, !.live = h.live, !.llm = IF h.judges THEN "ok" ELSE "failed"]
AtMount == [n \in 1 .. 3 |-> [op |-> <<"state", "config", "llm">>[n], cmd |-> 0, arg |-> None,
                             step |-> 0, draft |-> {}, got |-> None, crossed |-> FALSE]]

ViewInit ==
    /\ \E r \in {{}, {CHOOSE r \in Robots : TRUE}}, j \in BOOLEAN :
          hub = [robots |-> r, live |-> r, files |-> 0, judges |-> j]
    /\ \/ tui = Blank /\ looks = AtMount
       \/ tui = Told(hub) /\ looks = <<>>
    /\ issued = 0
    /\ past = [asked |-> <<>>, doubt |-> {}, kept |-> {}, raced |-> FALSE]

----------------------------------------------------------------------------
(* What is shown. *)

\* buildRobotViewModels: the robots of the configuration and those the Watch has published.
Listed == (IF tui.config = None THEN {} ELSE tui.config) \union tui.live

\* RobotDetailPanel.
Detail ==
    IF tui.selected = None THEN "select"
    ELSE IF tui.selected \notin Listed THEN "not found"
    ELSE IF tui.selected \in tui.live THEN "published" ELSE "not published"

\* ConfigPanel and RobotsPanel show the error instead of what they know.
ConfigShown == IF tui.error THEN "unavailable" ELSE IF tui.config = None THEN "not loaded" ELSE "robots"
RobotsShown == IF tui.error THEN "unavailable" ELSE IF Listed = {} THEN "none" ELSE "robots"

\* UploadsPanel: the last upload of this client above the list.
UploadsShown == IF tui.files = 0 THEN IF tui.uploaded THEN "one of none" ELSE "none" ELSE "uploads"

\* StatusPanel.
Counts == [robots |-> Cardinality(Listed), uploads |-> tui.files]

\* renderActiveView, of what can be told apart here.
Panel ==
    CASE tui.active \in Details -> Detail
      [] tui.active = "config" -> ConfigShown
      [] tui.active = "robots" -> RobotsShown
      [] tui.active = "uploads" -> UploadsShown
      [] OTHER -> "other"

----------------------------------------------------------------------------
(* Commands, up to the first await. *)

Issue == Left("commands") /\ Spend("commands") /\ issued' = issued + 1

Asking(ops, arg) ==
    /\ Len(looks) + Cardinality(ops) <= MaxLooks
    /\ looks' = [i \in DOMAIN looks |->
                   [looks[i] EXCEPT !.crossed = @ \/ \E o \in ops : Meets(o, looks[i].op)]]
                \o [n \in 1 .. Cardinality(ops) |-> Look(SetToSeq(ops)[n], issued', arg)]

\* /view: the chat asks for nothing, and its finally comes at once.
ParseView(v) ==
    /\ Issue
    /\ Asking(IF v = "chat" THEN {} ELSE {"state", "config"}, None)
    /\ tui' = [tui EXCEPT !.active = v, !.busy = v # "chat"]
    /\ UNCHANGED <<hub, past>>

\* /robot and /capabilities.
SelectRobot(r, v) ==
    /\ Issue
    /\ Asking({"state", "config"}, None)
    /\ tui' = [tui EXCEPT !.active = v, !.selected = r, !.busy = TRUE]
    /\ past' = [past EXCEPT !.asked = <<r, v>>]
    /\ UNCHANGED hub

\* /refresh: all three.
RefreshAll ==
    /\ Issue
    /\ Asking({"state", "config", "llm"}, None)
    /\ tui' = [tui EXCEPT !.llm = "checking", !.busy = TRUE]
    /\ UNCHANGED <<hub, past>>

\* /upload: the view changes before the file is looked at.
UploadFile(file) ==
    /\ Issue
    /\ Asking({"upload"}, file)
    /\ tui' = [tui EXCEPT !.active = "uploads", !.busy = TRUE]
    /\ UNCHANGED <<hub, past>>

\* /register-robot: the view changes with the answer.
RegisterRobot(r) ==
    /\ Issue
    /\ Asking({"register"}, r)
    /\ tui' = [tui EXCEPT !.busy = TRUE]
    /\ past' = [past EXCEPT !.raced = @ \/ \E i \in DOMAIN looks : looks[i].op = "register"]
    /\ UNCHANGED hub

----------------------------------------------------------------------------
(* The server. *)

\* prepareUploadFile refuses what is no text, too large or absent.
PrepareUploadFile(l) == l.op = "upload" => l.arg = "text"

LookServed(i) ==
    LET l == looks[i] IN
    /\ l.got = None /\ PrepareUploadFile(l)
    /\ l.op = "register" => l.step = 2
    /\ hub' = IF l.op = "upload" THEN [hub EXCEPT !.files = @ + 1] ELSE hub
    /\ looks' = [looks EXCEPT ![i].got = hub']
    /\ UNCHANGED <<tui, issued, past, left>>

\* register_robot reads the file, adds its robot, and writes it all back.
RegisterReads(i) ==
    /\ looks[i].op = "register" /\ looks[i].step = 0 /\ looks[i].arg \notin hub.robots
    /\ looks' = [looks EXCEPT ![i].step = 1, ![i].draft = hub.robots \union {looks[i].arg}]
    /\ UNCHANGED <<hub, tui, issued, past, left>>

RegisterWrites(i) ==
    /\ looks[i].op = "register" /\ looks[i].step = 1
    /\ hub' = [hub EXCEPT !.robots = looks[i].draft]
    /\ looks' = [looks EXCEPT ![i].step = 2]
    /\ UNCHANGED <<tui, issued, past, left>>

\* The Watch is started again.
WatchRestarts ==
    /\ Left("moves") /\ Spend("moves") /\ hub.live # hub.robots
    /\ hub' = [hub EXCEPT !.live = hub.robots]
    /\ UNCHANGED <<tui, looks, issued, past>>

----------------------------------------------------------------------------
(* Answers. *)

\* The finally of a command, when all it asked for is there: of another command's, too.
Done(i, t) ==
    IF looks[i].cmd = 0 \/ \E j \in DOMAIN looks \ {i} : looks[j].cmd = looks[i].cmd
    THEN t ELSE [t EXCEPT !.busy = FALSE]

Doubt(l) == IF l.crossed THEN past.doubt \union {PlaceOf(l.op)} ELSE past.doubt \ {PlaceOf(l.op)}

Answers(i, op, t) ==
    /\ looks[i].got # None /\ looks[i].op = op
    /\ looks' = RemoveAt(looks, i)
    /\ tui' = Done(i, t)
    /\ UNCHANGED <<hub, issued, left>>

StateRead(i) ==
    /\ Answers(i, "state", [tui EXCEPT !.live = looks[i].got.live, !.files = looks[i].got.files])
    /\ past' = [past EXCEPT !.doubt = Doubt(looks[i])]

RefreshConfig(i) ==
    /\ Answers(i, "config", [tui EXCEPT !.config = looks[i].got.robots, !.error = FALSE])
    /\ past' = [past EXCEPT !.doubt = Doubt(looks[i])]

Uploads(i) ==
    /\ Answers(i, "upload", [tui EXCEPT !.live = looks[i].got.live, !.files = looks[i].got.files,
                                        !.uploaded = TRUE])
    /\ past' = [past EXCEPT !.doubt = Doubt(looks[i])]

Keeps(i) == past' = [past EXCEPT !.doubt = Doubt(looks[i]), !.kept = @ \union {looks[i].arg}]
\* MUTANT: the view stays.
RegisteredHere(i) ==
    /\ Answers(i, "register", [tui EXCEPT !.config = looks[i].got.robots, !.selected = looks[i].arg])
    /\ Keeps(i)
\* The configuration comes with the answer; an earlier error stays.
RobotRegistered(i) ==
    /\ Answers(i, "register", [tui EXCEPT !.config = looks[i].got.robots, !.selected = looks[i].arg,
                                          !.active = "config"])
    /\ Keeps(i)

\* refreshLlmStatus: the settings are shown as being checked, then tested.
LlmSettings(i) ==
    /\ looks[i].op = "llm" /\ looks[i].got # None /\ looks[i].step = 0
    /\ tui' = [tui EXCEPT !.llm = "checking"]
    /\ looks' = [looks EXCEPT ![i].step = 1, ![i].got = None]
    /\ UNCHANGED <<hub, issued, past, left>>

LlmTested(i) ==
    /\ looks[i].step = 1
    /\ Answers(i, "llm", [tui EXCEPT !.llm = IF looks[i].got.judges THEN "ok" ELSE "failed"])
    /\ UNCHANGED past

\* A robot that is configured is refused, and a file that is no text.
Refused(l) == ~PrepareUploadFile(l) \/ (l.op = "register" /\ l.step = 0 /\ l.arg \in hub.robots)

\* refresh, refreshConfig and refreshLlmStatus keep a failure to themselves; the others tell it.
LookFails(i) ==
    LET l == looks[i] IN
    /\ Refused(l) \/ Left("failures")
    /\ IF Refused(l) THEN UNCHANGED left ELSE Spend("failures")
    /\ looks' = RemoveAt(looks, i)
    /\ tui' = Done(i, CASE l.op = "config" -> [tui EXCEPT !.error = TRUE]
                        [] l.op = "llm" -> [tui EXCEPT !.llm = "unavailable"]
                        [] OTHER -> tui)
    /\ past' = [past EXCEPT !.doubt = @ \union {PlaceOf(l.op)}]
    /\ UNCHANGED <<hub, issued>>

ViewNext ==
    \/ \E v \in Views : ParseView(v)
    \/ \E r \in Robots : RegisterRobot(r) \/ \E v \in Details : SelectRobot(r, v)
    \/ RefreshAll \/ \E file \in {"text", "binary"} : UploadFile(file)
    \/ WatchRestarts
    \/ \E i \in DOMAIN looks :
        \/ LookServed(i) \/ RegisterReads(i) \/ RegisterWrites(i)
        \/ StateRead(i) \/ RefreshConfig(i) \/ Uploads(i) \/ RobotRegistered(i)
        \/ LlmSettings(i) \/ LlmTested(i) \/ LookFails(i)

----------------------------------------------------------------------------
(* Properties. *)

ViewTypeOK ==
    /\ tui.active \in Views \union Details \union {"chat", "config", "uploads"} /\ tui.selected \in Robots \union {None}
    /\ tui.llm \in Judged \union {"checking"} /\ hub.robots \subseteq Robots
    /\ past.doubt \subseteq {"state", "config", "llm"}

Looked(place) == place \notin past.doubt /\ \A i \in DOMAIN looks : PlaceOf(looks[i].op) # place

\* However commands overlap: the detail of a robot is of the robot that was asked for last, and
\* "not found" is not said of a configured one; the configuration and the uploads are the
\* server's; nothing is said to be busy, or being checked, that is over.  Exempt is a place
\* whose last answer crossed a registration or an upload, or failed; and a robot that was said
\* to be registered may have been lost only if two registrations met.
ViewsAgree ==
    /\ tui.active \in Details => past.asked = <<tui.selected, tui.active>>
    /\ Looked("config") => /\ tui.config = hub.robots
                           /\ Panel = "not found" => tui.selected \notin hub.robots
                           /\ Panel = "none" /\ tui.active = "robots" => hub.robots = {}
                           /\ Counts.robots >= Cardinality(hub.robots)
    /\ Looked("state") => Counts.uploads = hub.files /\ Panel # "one of none"
    /\ Panel = "not loaded" => \E i \in DOMAIN looks : looks[i].op = "config"
    /\ tui.llm = "checking" => \E i \in DOMAIN looks : looks[i].op = "llm"
    /\ tui.busy => \E i \in DOMAIN looks : looks[i].cmd > 0
    /\ past.raced \/ past.kept \subseteq hub.robots
=============================================================================
