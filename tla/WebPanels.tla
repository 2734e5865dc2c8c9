------------------------------ MODULE WebPanels ------------------------------
(***************************************************************************)
(* The pages of the web client and the panels on them that ask the server  *)
(* by themselves: settings, hardware, memory, and the configuration that   *)
(* the Dashboard loads for them.                                           *)
(*                                                                         *)
(* A page that is left unmounts its panels: their state is lost, and an    *)
(* answer that comes later finds nobody, except for what it tells the      *)
(* Dashboard.  Buttons are guarded one by one by their own spinner; what   *)
(* two of them show in one place is whatever came back last.               *)
(*                                                                         *)
(* What a user enters is a serial number: the settings typed, the source   *)
(* of a driver, a query, a file.                                           *)
(***************************************************************************)
EXTENDS EventBudget, Sequences, SequencesExt

CONSTANTS
    Pages,        \* PAGE_KEYS
    Landing,      \* addresses the client is opened at: pages, no page (None) or a bad one
    DefaultPage,
    Defaulted,    \* the drivers whose schema gives its field a default
    MaxCalls      \* bound on the requests under way

ASSUME WebPanelsAssumption == DefaultPage \in Pages /\ None \notin Pages \union Nat

VARIABLES
    page, urls, entry,   \* activePage; the browser's history, and the current entry of it
    mount,               \* how many times a page was mounted
    serial,              \* what was entered so far
    saved, robots,       \* the server: the LLM settings, the robots of the configuration
    panel,               \* the state of the panels on the page
    config,              \* configResponse and its doubt
    calls                \* requests under way

panelVars == <<page, urls, entry, mount, serial, saved, robots, panel, config, calls>>

\* The place in which an operation shows its answer.
Slot(op) ==
    CASE op \in {"load", "save", "test"} -> "llm"
      [] op \in {"integrate", "register"} -> "driver"
      [] OTHER -> op
Places == {"llm", "driver", "check", "audit", "wipe", "search", "upload", "config"}

\* `doubt' is no state of the code: it marks the places whose last answer crossed another
\* request of the same place, or failed.
Fresh == [llm |-> None, form |-> None, check |-> None, driver |-> None,
          field |-> [driver |-> None, extra |-> None], registered |-> None,
          asked |-> None, found |-> None, file |-> None, about |-> None,
          spin |-> {}, say |-> [s \in Places |-> "none"], doubt |-> {}]

\* What mounting a page asks for: the two effects of SettingsPanel.
OnMount(p) == IF p = "settings" THEN {"check", "load"} ELSE {}

PageOf(url) == IF url = None THEN DefaultPage ELSE url
FirstCall(o) == [op |-> o, mount |-> 0, arg |-> None, got |-> None, crossed |-> FALSE]

\* Seen from when the first configuration has been loaded, or from the start on the hardware page.
PanelInit ==
    /\ page \in {IF a \in Pages THEN a ELSE DefaultPage : a \in Landing}
    /\ urls \in {<<IF a \in Pages \union {None} THEN a ELSE DefaultPage>> : a \in Landing}
    /\ PageOf(urls[1]) = page
    /\ entry = 1 /\ mount = 0 /\ serial = 0 /\ saved = 0 /\ robots = 0
    /\ panel = Fresh
    /\ config = [shown |-> IF page = "hardware" THEN None ELSE 0, loading |-> page = "hardware",
                 doubt |-> FALSE]
    /\ LET asked == IF page = "hardware" THEN {"config"} ELSE OnMount(page) IN
        calls = [n \in 1 .. Cardinality(asked) |-> FirstCall(SetToSeq(asked)[n])]

----------------------------------------------------------------------------
(* Requests. *)

Crossing(op) == \E i \in DOMAIN calls : Slot(calls[i].op) = Slot(op)

\* The requests under way once those of ops are sent.
With(ops, arg, m) ==
    LET cross == [i \in DOMAIN calls |->
                    [calls[i] EXCEPT !.crossed = @ \/ \E o \in ops : Slot(o) = Slot(calls[i].op)]]
        call(o) == [op |-> o, mount |-> m, arg |-> arg, got |-> None, crossed |-> Crossing(o)]
    IN cross \o [n \in 1 .. Cardinality(ops) |-> call(SetToSeq(ops)[n])]

Call(op, arg) == Len(calls) < MaxCalls /\ calls' = With({op}, arg, mount)

\* The server's part: update_llm_settings keeps what was not sent; the others read.
PanelServed(i) ==
    LET c == calls[i] IN
    /\ c.got = None
    /\ saved' = IF c.op = "save" /\ c.arg # None THEN c.arg ELSE saved
    /\ robots' = IF c.op = "register" THEN robots + 1 ELSE robots
    /\ calls' = [calls EXCEPT ![i].got =
                   CASE c.op \in {"load", "save", "test"} -> saved'
                     [] c.op = "config" -> robots
                     [] c.op = "register" -> c.arg.shown
                     [] OTHER -> IF c.arg = None THEN 0 ELSE c.arg]
    /\ UNCHANGED <<page, urls, entry, mount, serial, panel, config, left>>

----------------------------------------------------------------------------
(* usePageNavigation and renderPageContent. *)

\* setActivePage: another page unmounts the panels of this one.
Show(p) ==
    /\ page' = p
    /\ IF p = page THEN UNCHANGED <<mount, panel, calls>>
       ELSE /\ mount' = mount + 1
            /\ panel' = Fresh
            /\ calls' = With(OnMount(p), None, mount + 1)

\* MUTANT: every choice of a page is an entry of the history.
NavigateAlways(p) ==
    /\ Left("moves") /\ Spend("moves")
    /\ urls' = Append(SubSeq(urls, 1, entry), p) /\ entry' = entry + 1
    /\ Show(p)
    /\ UNCHANGED <<serial, saved, robots, config>>
\* navigate(page): the same page leaves no second entry in the history.
Navigate(p) ==
    /\ Left("moves") /\ Spend("moves")
    /\ IF PageOf(urls[entry]) = p THEN UNCHANGED <<urls, entry>>
       ELSE /\ urls' = Append(SubSeq(urls, 1, entry), p)
            /\ entry' = entry + 1
    /\ Show(p)
    /\ UNCHANGED <<serial, saved, robots, config>>

\* syncFromUrl, on popstate.
PopState(e) ==
    /\ Left("moves") /\ Spend("moves")
    /\ e # entry
    /\ entry' = e
    /\ Show(PageOf(urls[e]))
    /\ UNCHANGED <<urls, serial, saved, robots, config>>

----------------------------------------------------------------------------
(* The handlers of the panels, up to their await. *)

Enter == Left("entries") /\ Spend("entries") /\ serial' = serial + 1
Press == Left("presses") /\ Spend("presses") /\ UNCHANGED serial
On(p, spinner) == page = p /\ spinner \notin panel.spin
Stays == UNCHANGED <<page, urls, entry, mount, saved, robots, config>>

TypeSettings ==
    /\ page = "settings" /\ Enter
    /\ panel' = [panel EXCEPT !.form = serial']
    /\ UNCHANGED calls /\ Stays

HandleSave ==
    /\ On("settings", "save") /\ Press
    /\ Call("save", panel.form)
    /\ panel' = [panel EXCEPT !.spin = @ \union {"save"}, !.say["llm"] = "none"]
    /\ Stays

HandleTest ==
    /\ On("settings", "test") /\ Press
    /\ Call("test", None)
    /\ panel' = [panel EXCEPT !.spin = @ \union {"test"}, !.say["llm"] = "none"]
    /\ Stays

\* handleExportAudit and handleWorkspaceReset.
HandleExport(op) ==
    /\ On("settings", op) /\ Press
    /\ Call(op, None)
    /\ panel' = [panel EXCEPT !.spin = @ \union {op}, !.say[op] = "none"]
    /\ Stays

\* handleFinish of the hardware page: the result on show goes away.
HandleIntegrate ==
    /\ On("hardware", "integrate") /\ Enter
    /\ Call("integrate", serial')
    /\ panel' = [panel EXCEPT !.spin = @ \union {"integrate"}, !.say["driver"] = "none",
                              !.driver = None]
    /\ Stays

\* The form is there with the result.
RegisterForm == panel.driver # None

\* What its fields hold is sent.
HandleRegister ==
    /\ On("hardware", "register") /\ Press /\ RegisterForm
    /\ Call("register", [shown |-> panel.driver, field |-> panel.field])
    /\ panel' = [panel EXCEPT !.spin = @ \union {"register"}, !.registered = None]
    /\ Stays

\* runSearch: Enter in the field searches again while the button is loading.
RunSearch ==
    /\ page = "memory" /\ Enter
    /\ Call("search", serial')
    /\ panel' = [panel EXCEPT !.spin = @ \union {"search"}, !.asked = serial']
    /\ Stays

\* beforeUpload refuses a file that validateUploadFile does not like.
BeforeUpload ==
    /\ page = "memory" /\ Enter
    /\ panel' = [panel EXCEPT !.file = serial', !.about = serial', !.say["upload"] = "error",
                              !.doubt = IF Crossing("upload") THEN @ \union {"upload"} ELSE @ \ {"upload"}]
    /\ calls' = [i \in DOMAIN calls |-> [calls[i] EXCEPT !.crossed = @ \/ calls[i].op = "upload"]]
    /\ Stays

\* customRequest.
CustomRequest ==
    /\ page = "memory" /\ Enter
    /\ Call("upload", serial')
    /\ panel' = [panel EXCEPT !.file = serial', !.about = None, !.say["upload"] = "none"]
    /\ Stays

\* loadConfiguration, from the refresh button of ConfigPanel.
LoadConfiguration ==
    /\ page = "hardware" /\ Press
    /\ ~config.loading
    /\ Call("config", None)
    /\ config' = [config EXCEPT !.loading = TRUE]
    /\ UNCHANGED <<page, urls, entry, mount, saved, robots, panel>>

----------------------------------------------------------------------------
(* The handlers after their await. *)

\* The component that asked is still mounted (for the effects: they were not cancelled).
Here(c) == c.mount = mount

\* The panel once c is answered: its place shows the answer.
Answered(c, said) ==
    [panel EXCEPT !.spin = @ \ {c.op}, !.say[Slot(c.op)] = said,
                  !.doubt = IF c.crossed
                            THEN @ \union {Slot(c.op)} ELSE @ \ {Slot(c.op)}]

\* MUTANT: the form keeps what it holds.
RefillKeeps(p, d) == [p EXCEPT !.driver = d, !.registered = None, !.field.driver = d]
\* The effect on [result] fills the form: what the schema gives no default keeps its value.
Refill(p, d) ==
    [p EXCEPT !.driver = d, !.registered = None, !.field.driver = d,
              !.field.extra = IF d \in Defaulted THEN d ELSE @]

Finishes(i) == calls[i].got # None /\ calls' = RemoveAt(calls, i)

\* fetchLLMSettings, saveLLMSettings and testLLMSettings all show the settings they return.
SettingsAnswered(i) ==
    LET c == calls[i] IN
    /\ Finishes(i) /\ Slot(c.op) = "llm"
    /\ \E said \in IF c.op = "test" THEN {"success", "error"} ELSE {"success"} :
        LET p == Answered(c, IF c.op = "load" THEN panel.say["llm"] ELSE said) IN
        panel' = IF Here(c) THEN [p EXCEPT !.llm = c.got, !.form = IF c.op = "load" THEN c.got ELSE @]
                 ELSE panel
    /\ UNCHANGED <<page, urls, entry, mount, serial, saved, robots, config, left>>

\* The state check, the audit, and the reset that the Dashboard hears of in any case.
ReportAnswered(i) ==
    LET c == calls[i] IN
    /\ Finishes(i) /\ c.op \in {"check", "audit", "wipe"}
    /\ panel' = IF Here(c) THEN [Answered(c, "success") EXCEPT !.check = IF c.op = "check" THEN c.got ELSE @]
                ELSE panel
    /\ UNCHANGED <<page, urls, entry, mount, serial, saved, robots, config, left>>

Integrated(i) ==
    LET c == calls[i] IN
    /\ Finishes(i) /\ c.op = "integrate"
    /\ panel' = IF Here(c) THEN Refill(Answered(c, "success"), c.got) ELSE panel
    /\ UNCHANGED <<page, urls, entry, mount, serial, saved, robots, config, left>>

\* MUTANT: the Dashboard is not told.
RegisteredUntold(i) ==
    /\ calls[i].op = "register" /\ Finishes(i)
    /\ panel' = [panel EXCEPT !.spin = @ \ {"register"}]
    /\ UNCHANGED <<page, urls, entry, mount, serial, saved, robots, config, left>>
\* onRobotRegistered is called whether or not the panel is still there.
Registered(i) ==
    LET c == calls[i] IN
    /\ c.got # None /\ c.op = "register"
    /\ calls' = RemoveAt(With({"config"}, None, mount), i)
    /\ config' = [config EXCEPT !.loading = TRUE]
    /\ panel' = IF Here(c) THEN [Answered(c, panel.say["driver"]) EXCEPT !.registered = c.got] ELSE panel
    /\ UNCHANGED <<page, urls, entry, mount, serial, saved, robots, left>>

Found(i) ==
    LET c == calls[i] IN
    /\ Finishes(i) /\ c.op = "search"
    /\ panel' = IF Here(c) THEN [Answered(c, "none") EXCEPT !.found = c.got] ELSE panel
    /\ UNCHANGED <<page, urls, entry, mount, serial, saved, robots, config, left>>

Uploaded(i) ==
    LET c == calls[i] IN
    /\ Finishes(i) /\ c.op = "upload"
    /\ panel' = IF Here(c) THEN [Answered(c, "success") EXCEPT !.about = c.got] ELSE panel
    /\ UNCHANGED <<page, urls, entry, mount, serial, saved, robots, config, left>>

ConfigLoaded(i) ==
    LET c == calls[i] IN
    /\ Finishes(i) /\ c.op = "config"
    /\ config' = [shown |-> c.got, loading |-> FALSE, doubt |-> c.crossed]
    /\ UNCHANGED <<page, urls, entry, mount, serial, saved, robots, panel, left>>

\* Any of them may fail, served or not.
PanelCallFails(i) ==
    LET c == calls[i] IN
    /\ Left("failures") /\ Spend("failures")
    /\ calls' = RemoveAt([j \in DOMAIN calls |->
                   [calls[j] EXCEPT !.crossed = @ \/ (c.op = "register" /\ calls[j].op = "config")]], i)
    /\ panel' = IF Here(c) /\ c.op # "config"
                THEN [Answered(c, "error") EXCEPT !.doubt = @ \union {Slot(c.op)}, !.about = IF c.op = "upload" THEN c.arg ELSE @]
                ELSE panel
    /\ config' = [config EXCEPT !.doubt = @ \/ c.op \in {"config", "register"},
                                !.loading = @ /\ c.op # "config"]
    /\ UNCHANGED <<page, urls, entry, mount, serial, saved, robots>>

PanelNext ==
    \/ \E p \in Pages : Navigate(p)
    \/ \E e \in DOMAIN urls : PopState(e)
    \/ TypeSettings \/ HandleSave \/ HandleTest \/ \E op \in {"audit", "wipe"} : HandleExport(op)
    \/ HandleIntegrate \/ HandleRegister \/ RunSearch \/ BeforeUpload \/ CustomRequest
    \/ LoadConfiguration
    \/ \E i \in DOMAIN calls :
        \/ PanelServed(i)
        \/ SettingsAnswered(i) \/ ReportAnswered(i) \/ Integrated(i) \/ Registered(i)
        \/ Found(i) \/ Uploaded(i) \/ ConfigLoaded(i) \/ PanelCallFails(i)

----------------------------------------------------------------------------
(* Properties. *)

PanelTypeOK ==
    /\ page \in Pages /\ entry \in DOMAIN urls
    /\ \A i \in DOMAIN calls : Slot(calls[i].op) \in Places /\ calls[i].mount \in 0 .. mount
    /\ panel.doubt \subseteq Places /\ panel.spin \subseteq {"save", "test", "audit", "wipe",
                                                             "integrate", "register", "search"}
    /\ panel.llm \in (0 .. serial) \union {None} /\ saved \in 0 .. serial

\* The address, the page and the Back button agree: the page is the one its address names, and
\* going back always shows another page.
HistoryIsHonest ==
    /\ PageOf(urls[entry]) = page
    /\ \A e \in DOMAIN urls : e > 1 => PageOf(urls[e]) # PageOf(urls[e - 1])

\* Each place of a panel shows the answer to the last request made for it, unless that request
\* failed, or crossed another one of the same place, which no button prevents.
Undoubted(op) == ~Crossing(op) /\ Slot(op) \notin panel.doubt
PanelsShowTheLatest ==
    /\ Undoubted("load") /\ panel.llm # None => panel.llm = saved
    /\ Undoubted("search") => panel.found = panel.asked
    /\ Undoubted("upload") => panel.about = panel.file
    /\ Undoubted("register") /\ panel.driver # None => panel.registered \in {None, panel.driver}
    /\ ~Crossing("config") /\ ~Crossing("register") /\ ~config.doubt => config.shown = robots

\* What is registered is what was on show when Register was pressed: the driver's directory,
\* and the field when the schema gives it a default, are those of the integration shown, not
\* of an earlier one.
RegisteredAsShown ==
    \A i \in DOMAIN calls :
        LET c == calls[i] IN
        c.op = "register" =>
            /\ c.arg.field.driver = c.arg.shown
            /\ c.arg.shown \in Defaulted => c.arg.field.extra = c.arg.shown
=============================================================================
