------------------------------ MODULE ZagaApp ------------------------------
(***************************************************************************)
(* The management app (src/app/ZagaApp.cpp).  One thread pumps the         *)
(* window's messages, in the main loop, in the loop of a prompt or in the  *)
(* one of a message box; it stands still while an elevated installer runs. *)
(* What it shows comes from a copy of the machine's state made at each     *)
(* refresh, and from check-in threads that post their result to the        *)
(* window.  Any other process may change the machine at any time.  The     *)
(* text of the last message, layout and fonts are left out.                *)
(***************************************************************************)
EXTENDS Naturals, Sequences

CONSTANTS
    Thread,         \* check-in threads that may be under way at once
    Machines,       \* machines the app may be opened on
    MaxClicks,      \* bound: clicks the user makes in one session
    MaxForeign,     \* bound: changes that other processes make in it
    ForeignWrites   \* what they may change

Store == {"none", "local", "portal"}    \* no record, without, with bearer token
Conn == {"Unknown", "Checking", "Online", "Offline"}
Result == Conn \ {"Checking"}

Machine == [store: Store, due: BOOLEAN, lock: BOOLEAN, code: BOOLEAN, url: BOOLEAN]

Commands == {"enroll", "apply-code", "fetch-token", "enable", "disable", "uninstall"}
Job == Commands \union {"none", "start", "refresh", "checkin", "package"}

\* Where a thread may pump messages; those with a prompt the user may answer.
Prompt == {"url", "code", "confirm"}
Pumping == Prompt \union {"loop", "removed"}
Refreshing == {"gate", "settings", "enrolled", "checkin"}

ASSUME AppAssumption ==
    /\ Machines \subseteq Machine
    /\ MaxClicks \in Nat /\ MaxForeign \in Nat
    /\ ForeignWrites \subseteq {"store", "due", "lock", "code", "url"}

VARIABLES
    machine,    \* the store, whether its deadline has come, and the settings
    model,      \* g_model, without conn
    conn,       \* g_model.conn
    screen,     \* what the last WM_PAINT drew, and with it g_buttons
    dirty,      \* does Windows owe the window a WM_PAINT?
    window,     \* "creating" while g_wnd is not set, "open", "gone"
    at,         \* what the app's thread is doing
    job,        \* the command or refresh it is doing it for
    queue,      \* messages posted to the window: results and "close"
    quit,       \* has a quit message been posted?
    thread,     \* check-in threads: "none", "reads", "calls"
    clicks,     \* how many the user has made
    foreign,    \* history: how often other processes changed the machine, and
                \* whether they did since the last refresh began
    newest,     \* history: the result of the check-in that ended last
    overlap,    \* history: was a check-in begun before the one before was over?
    orphan      \* history: will the last check-in begun never answer?

ui == <<model, conn, screen, dirty>>
pump == <<window, queue, quit>>
world == <<machine, clicks, foreign>>
checkins == <<thread, newest, overlap, orphan>>
vars == <<world, ui, pump, at, job, checkins>>

\* LockGate::describe: is the device gated?
Locked(m) == m.lock /\ (m.store = "none" \/ m.due)

View(m) ==
    [provisioned |-> m.store # "none", locked |-> Locked(m), lock |-> m.lock,
     code |-> m.code, url |-> m.url, enrolled |-> m.store = "portal"]

Blank ==
    [provisioned |-> FALSE, locked |-> FALSE, lock |-> FALSE,
     code |-> FALSE, url |-> FALSE, enrolled |-> FALSE]

Shown == [model |-> model, conn |-> conn]

\* The app's thread comes to WM_CREATE inside CreateWindowExW.
Init ==
    /\ machine \in Machines
    /\ model = Blank /\ conn = "Unknown" /\ screen = [model |-> Blank, conn |-> "Unknown"]
    /\ dirty = TRUE /\ window = "creating"
    /\ at = "gate" /\ job = "start"
    /\ queue = <<>> /\ quit = FALSE
    /\ thread = [t \in Thread |-> "none"]
    /\ clicks = 0 /\ foreign = [all |-> 0, now |-> FALSE]
    /\ newest = "Unknown" /\ overlap = FALSE /\ orphan = FALSE

GoTo(place, what) == at' = place /\ job' = what

-----------------------------------------------------------------------------
(* refreshModel: three looks at the machine.                               *)

RefreshGate ==
    /\ at = "gate"
    /\ model' = [model EXCEPT !.provisioned = machine.store # "none",
                              !.locked = Locked(machine)]
    /\ foreign' = [foreign EXCEPT !.now = FALSE]
    /\ GoTo("settings", job)
    /\ UNCHANGED <<machine, clicks, conn, screen, dirty, pump, checkins>>

RefreshSettings ==
    /\ at = "settings"
    /\ model' = [model EXCEPT !.lock = machine.lock, !.code = machine.code,
                              !.url = machine.url]
    /\ GoTo("enrolled", job)
    /\ UNCHANGED <<world, conn, screen, dirty, pump, checkins>>

\* The store is loaded anew.  A removal that failed is not followed by a
\* check-in, every other refresh is.
RefreshEnrolled ==
    /\ at = "enrolled"
    /\ model' = [model EXCEPT !.enrolled = machine.store = "portal"]
    /\ IF job = "uninstall"
       THEN GoTo("loop", "none") /\ dirty' = TRUE
       ELSE GoTo("checkin", job) /\ UNCHANGED dirty
    /\ UNCHANGED <<world, conn, screen, pump, checkins>>

-----------------------------------------------------------------------------
(* Check-ins.                                                              *)

UnderWay == \E t \in Thread : thread[t] # "none"
Results == \E i \in DOMAIN queue : queue[i] \in Result

\* Not the code: what an earlier check-in found stays on show.
NotEnrolledKept == ~model.enrolled /\ newest' = "Unknown" /\ UNCHANGED <<conn, orphan, thread>>

\* Not the code: the connection is left without a value.
NotEnrolledEmpty ==
    ~model.enrolled /\ conn' = "" /\ newest' = "Unknown" /\ UNCHANGED <<thread, orphan>>

NotEnrolled ==
    /\ ~model.enrolled
    /\ conn' = "Unknown" /\ newest' = "Unknown"
    /\ UNCHANGED <<thread, orphan>>

\* CreateThread, and its failure, which nobody looks at.
Begin ==
    /\ model.enrolled
    /\ conn' = "Checking"
    /\ \/ \E t \in Thread :
             /\ thread[t] = "none"
             /\ thread' = [thread EXCEPT ![t] = "reads"]
             /\ orphan' = FALSE
       \/ thread' = thread /\ orphan' = TRUE
    /\ UNCHANGED newest

\* startCheckIn, and the end of the handler that calls it.  Only "Check in now"
\* on a device that is not enrolled ends without InvalidateRect.
StartCheckIn ==
    /\ at = "checkin"
    /\ NotEnrolled \/ Begin
    /\ overlap' = (UnderWay \/ Results)
    /\ dirty' = (dirty \/ model.enrolled \/ job # "checkin")
    /\ GoTo(IF job = "start" THEN "created" ELSE "loop", "none")
    /\ UNCHANGED <<world, model, screen, pump>>

\* PostMessageW to g_wnd: before it is set, and after the window is destroyed,
\* the message goes nowhere.
Post(t, result) ==
    /\ thread' = [thread EXCEPT ![t] = "none"]
    /\ newest' = result
    /\ queue' = IF window = "open" THEN Append(queue, result) ELSE queue
    /\ orphan' = (orphan \/ window = "creating")

\* Not the code: a thread with nothing to do ends without a word.
ThreadReadsSilent(t) ==
    /\ thread[t] = "reads"
    /\ thread' = [thread EXCEPT ![t] = IF machine.url /\ machine.store = "portal"
                                        THEN "calls" ELSE "none"]
    /\ UNCHANGED <<world, ui, pump, at, job, newest, overlap, orphan>>

\* checkInThread takes portal and token from the machine, not from the model.
ThreadReads(t) ==
    /\ thread[t] = "reads"
    /\ IF machine.url /\ machine.store = "portal"
       THEN /\ thread' = [thread EXCEPT ![t] = "calls"]
            /\ UNCHANGED <<queue, newest, orphan>>
       ELSE Post(t, "Unknown")
    /\ UNCHANGED <<world, ui, window, quit, at, job, overlap>>

\* The heartbeat is answered, or given up.
ThreadCalls(t) ==
    /\ thread[t] = "calls"
    /\ \E result \in {"Online", "Offline"} : Post(t, result)
    /\ UNCHANGED <<world, ui, window, quit, at, job, overlap>>

\* CreateWindowExW returns, g_wnd is set, ShowWindow and UpdateWindow paint.
WindowCreated ==
    /\ at = "created"
    /\ window' = "open"
    /\ screen' = Shown /\ dirty' = FALSE
    /\ GoTo("loop", "none")
    /\ UNCHANGED <<world, model, conn, queue, quit, checkins>>

-----------------------------------------------------------------------------
(* Messages.  Windows hands out posted messages first, then a quit message, *)
(* then the user's input, and WM_PAINT when there is nothing else.          *)

\* WM_APP_CONN
DispatchResult ==
    /\ at \in Pumping /\ queue # <<>> /\ Head(queue) \in Result
    /\ conn' = Head(queue) /\ queue' = Tail(queue)
    /\ dirty' = TRUE
    /\ UNCHANGED <<world, model, screen, window, quit, at, job, checkins>>

\* WM_CLOSE is left to DefWindowProcW, which destroys the window; WM_DESTROY.
DispatchClose ==
    /\ at \in Pumping /\ queue # <<>> /\ Head(queue) = "close"
    /\ window' = "gone" /\ queue' = <<>> /\ quit' = TRUE
    /\ UNCHANGED <<world, ui, at, job, checkins>>

QuitNext == quit /\ queue = <<>>

\* Not the code: the prompt's loop swallows the quit message.
QuitPromptSwallowed ==
    /\ QuitNext /\ at \in Prompt
    /\ quit' = FALSE
    /\ GoTo("loop", "none")
    /\ UNCHANGED <<world, ui, window, queue, checkins>>

\* A prompt's loop posts the quit message again and gives up its question.
QuitPrompt ==
    /\ QuitNext /\ at \in Prompt
    /\ quit' = TRUE
    /\ GoTo("loop", "none")
    /\ UNCHANGED <<world, ui, window, queue, checkins>>

\* The main loop ends and the process with it.
Leave ==
    /\ QuitNext /\ at = "loop"
    /\ GoTo("ended", "none")
    /\ window' = "gone"
    /\ thread' = [t \in Thread |-> "none"]
    /\ UNCHANGED <<world, ui, queue, quit, newest, overlap, orphan>>

\* WM_PAINT
Paint ==
    /\ at \in Pumping /\ window = "open" /\ queue = <<>> /\ ~quit
    /\ dirty
    /\ screen' = Shown /\ dirty' = FALSE
    /\ UNCHANGED <<world, model, conn, pump, at, job, checkins>>

-----------------------------------------------------------------------------
(* The user.                                                               *)

UsersTurn == window = "open" /\ queue = <<>> /\ ~quit

\* A click is looked up in the buttons that were painted.
Click(enabled, place, what) ==
    /\ at = "loop" /\ UsersTurn /\ enabled /\ clicks < MaxClicks
    /\ clicks' = clicks + 1
    /\ GoTo(place, what)
    /\ UNCHANGED <<machine, foreign, ui, pump, checkins>>

ClickRefresh == Click(TRUE, "gate", "refresh")
ClickCheckIn == Click(screen.model.enrolled, "checkin", "checkin")
OnFetch == Click(screen.model.enrolled, "installer", "fetch-token")
OnEnroll == Click(TRUE, "url", "enroll")
OnEnterCode == Click(screen.model.provisioned, "code", "apply-code")

\* Whether a code is asked for is decided by the model; the setup package, if
\* its uninstaller is found beside the app, is asked for none.
OnUninstall ==
    \/ Click(TRUE, IF model.code THEN "code" ELSE "confirm", "uninstall")
    \/ Click(TRUE, "confirm", "package")

\* Not the code: the switch is read when it is clicked.
OnToggleLockLive ==
    \/ Click(machine.lock, "installer", "disable")
    \/ Click(~machine.lock /\ model.provisioned, "installer", "enable")

\* The click means what the model says, whatever the button said.  A device
\* that is not provisioned is not armed; the app says so.
OnToggleLock ==
    \/ Click(model.lock, "installer", "disable")
    \/ Click(~model.lock /\ model.provisioned, "installer", "enable")
    \/ /\ at = "loop" /\ UsersTurn
       /\ ~model.lock /\ ~model.provisioned
       /\ dirty' = TRUE
       /\ UNCHANGED <<world, model, conn, screen, pump, at, job, checkins>>

\* The answer to a prompt: what comes after it.
Answer ==
    /\ at \in Prompt /\ UsersTurn
    /\ \/ at = "url" /\ GoTo("code", job) /\ UNCHANGED quit
       \/ at = "code" /\ job = "uninstall" /\ GoTo("confirm", job) /\ UNCHANGED quit
       \/ at = "code" /\ job # "uninstall" /\ GoTo("installer", job) /\ UNCHANGED quit
       \/ at = "confirm" /\ job # "package" /\ GoTo("installer", job) /\ UNCHANGED quit
       \/ at = "confirm" /\ job = "package" /\ GoTo("loop", "none") /\ quit' = TRUE
    /\ UNCHANGED <<world, ui, window, queue, checkins>>

\* Cancel, an empty text, or No.
Cancel ==
    /\ at \in Prompt /\ UsersTurn
    /\ GoTo("loop", "none")
    /\ UNCHANGED <<world, ui, pump, checkins>>

\* The user, or another program, asks the window to close.
AskClose ==
    /\ window = "open"
    /\ \A i \in DOMAIN queue : queue[i] # "close"
    /\ queue' = Append(queue, "close")
    /\ UNCHANGED <<world, ui, window, quit, at, job, checkins>>

-----------------------------------------------------------------------------
(* The installer, run elevated while the app waits.                        *)

\* What a command that ends with 0 leaves behind.  A fresh record has a
\* deadline long past; a code for the removal was typed if the model asked.
Succeeded(m) ==
    CASE job = "enroll" ->
            {[m EXCEPT !.store = "portal", !.due = TRUE, !.url = TRUE]}
      [] job = "apply-code" -> {n \in {[m EXCEPT !.due = FALSE]} : m.store # "none"}
      [] job = "fetch-token" ->
            {n \in {[m EXCEPT !.due = FALSE]} : m.store = "portal" /\ m.url}
      [] job = "enable" -> {[m EXCEPT !.lock = TRUE]}
      [] job = "disable" -> {[m EXCEPT !.lock = FALSE]}
      [] job = "uninstall" ->
            {n \in {[m EXCEPT !.lock = FALSE, !.code = FALSE, !.url = FALSE]} :
                m.code => model.code}

\* And one that does not: enroll sets the portal before it calls it.
Failed(m) ==
    CASE job = "enroll" -> {[m EXCEPT !.url = TRUE]}
      [] job \in {"apply-code", "fetch-token"} -> {m}
      [] job = "uninstall" -> {n \in {m} : m.code}
      [] OTHER -> {}

\* Not the code: the model is only refreshed after a success.
PrivilegedEndsHalfSeen ==
    /\ at = "installer" /\ job # "uninstall"
    /\ \/ machine' \in Succeeded(machine) /\ GoTo("gate", job)
       \/ machine' \in Failed(machine) /\ GoTo("loop", "none")
    /\ UNCHANGED <<clicks, foreign, ui, pump, checkins>>

\* doPrivileged: whatever came of it, refresh and check in.
PrivilegedEnds ==
    /\ at = "installer" /\ job # "uninstall"
    /\ machine' \in Succeeded(machine) \union Failed(machine)
    /\ GoTo("gate", job)
    /\ UNCHANGED <<clicks, foreign, ui, pump, checkins>>

UninstallEnds ==
    /\ at = "installer" /\ job = "uninstall"
    /\ \/ machine' \in Succeeded(machine) /\ GoTo("removed", job)
       \/ machine' \in Failed(machine) /\ GoTo("gate", job)
    /\ UNCHANGED <<clicks, foreign, ui, pump, checkins>>

\* The installer is not there, or the user declines the UAC prompt.
Declined ==
    /\ at = "installer"
    /\ IF job = "uninstall" THEN GoTo("loop", "none") ELSE GoTo("gate", job)
    /\ UNCHANGED <<world, ui, pump, checkins>>

\* The message box that reports the removal ends, and then the app.
Removed ==
    /\ at = "removed" /\ (UsersTurn \/ QuitNext)
    /\ quit' = TRUE
    /\ GoTo("loop", "none")
    /\ UNCHANGED <<world, ui, window, queue, checkins>>

-----------------------------------------------------------------------------
(* Everybody else: commands typed elsewhere, the hourly check-in, midnight. *)

Changed(m) ==
    {n \in Machine : \E f \in ForeignWrites : n # m /\ n = [m EXCEPT ![f] = n[f]]}

Foreign ==
    /\ at # "ended" /\ foreign.all < MaxForeign
    /\ machine' \in Changed(machine)
    /\ foreign' = [all |-> foreign.all + 1, now |-> TRUE]
    /\ UNCHANGED <<clicks, ui, pump, at, job, checkins>>

\* GetMessageW waits; a process that has ended does nothing either.
Waits == at \in Pumping \union {"ended"} /\ UNCHANGED vars

\* What the app's thread does without the user, the UAC prompt included: it
\* times out.
AppStep ==
    \/ RefreshGate \/ RefreshSettings \/ RefreshEnrolled \/ StartCheckIn \/ WindowCreated
    \/ DispatchResult \/ DispatchClose \/ QuitPrompt \/ Leave
    \/ PrivilegedEnds \/ UninstallEnds \/ Declined

ThreadStep(t) == ThreadReads(t) \/ ThreadCalls(t)

Next ==
    \/ AppStep \/ Paint
    \/ \E t \in Thread : ThreadStep(t)
    \/ ClickRefresh \/ ClickCheckIn \/ OnFetch \/ OnEnroll \/ OnEnterCode
    \/ OnUninstall \/ OnToggleLock \/ Answer \/ Cancel \/ AskClose \/ Removed
    \/ Foreign \/ Waits

Spec ==
    /\ Init /\ [][Next]_vars
    /\ WF_vars(AppStep)
    /\ WF_vars(QuitNext /\ Removed)
    /\ \A t \in Thread : WF_vars(ThreadStep(t))

-----------------------------------------------------------------------------
TypeOK ==
    /\ machine \in Machine
    /\ model \in [DOMAIN Blank -> BOOLEAN] /\ conn \in Conn
    /\ screen \in [model: [DOMAIN Blank -> BOOLEAN], conn: Conn]
    /\ dirty \in BOOLEAN /\ window \in {"creating", "open", "gone"}
    /\ at \in Pumping \union Refreshing \union {"created", "installer", "ended"}
    /\ job \in Job
    /\ queue \in Seq(Result \union {"close"}) /\ quit \in BOOLEAN
    /\ thread \in [Thread -> {"none", "reads", "calls"}]
    /\ clicks \in 0 .. MaxClicks /\ foreign \in [all: 0 .. MaxForeign, now: BOOLEAN]
    /\ newest \in Result /\ overlap \in BOOLEAN /\ orphan \in BOOLEAN

AtRest == at \in Prompt \union {"loop"} /\ ~quit

\* Between two actions of the user the copy is what the machine is, whatever
\* the app's own commands did to it, unless another process changed something
\* since the last refresh began.
ModelIsCurrent == AtRest /\ ~foreign.now => model = View(machine)

\* What is on the screen is the model and the connection, or about to be
\* redrawn: no change is left unseen until something else happens to repaint.
ScreenCatchesUp == window = "open" /\ at \in Pumping => dirty \/ screen = Shown

\* "Read-only status comes straight from the tested core"
\* (FUNCTIONALITY.md:71-72), although it is a copy of a copy: what is on show is
\* the machine, but for what another process did and a repaint that is due.
ShowsTheMachine == ModelIsCurrent /\ ScreenCatchesUp

\* The switch is moved the way its button says, unless the click came before a
\* repaint that was due: a command moved the switch and the button still
\* showed the old label.  And "Provision the device, then run enable to arm it"
\* (Installer.cpp:300): the installer does not look; the app arms no device
\* without a record, unless another process took it away behind its back.
SwitchIsObeyed ==
    [][job = "none" /\ job' \in {"enable", "disable"} =>
          /\ dirty \/ job' = (IF screen.model.lock THEN "disable" ELSE "enable")
          /\ job' = "enable" => machine.store # "none" \/ foreign.now]_vars

\* "whether the portal is reachable right now" (FUNCTIONALITY.md:64): when all
\* is quiet the last check-in's result is shown, unless an older one was still
\* under way when it began, or it cannot answer.
AnswerIsNewest ==
    at = "loop" /\ window = "open" /\ ~UnderWay /\ ~Results /\ ~overlap /\ ~orphan
        => conn = newest

\* "Checking..." does not stay, unless the thread could not be created, or was
\* faster than the creation of the window it posts to.
CheckingEnds == conn = "Checking" ~> (conn # "Checking" \/ orphan \/ at = "ended")

\* A quit message, in whatever loop it arrives, ends the app: "Put it back so
\* the main loop still sees it" (ZagaApp.cpp:413-414).
QuitEndsApp == quit ~> at = "ended"

=============================================================================
