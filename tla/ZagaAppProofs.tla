--------------------------- MODULE ZagaAppProofs ---------------------------
(***************************************************************************)
(* What the management app shows and does, whatever other processes do to  *)
(* the machine behind its back, however its check-ins overlap and whatever *)
(* the user clicks: for any number of threads, clicks and changes.         *)
(***************************************************************************)
EXTENDS ZagaApp, SequenceTheorems, TLAPS

\* What the app's thread may be doing, and for which job.
Places ==
    /\ at \in {"gate", "settings", "enrolled"} => job \in Commands \union {"start", "refresh"}
    /\ at = "checkin" => job \in Commands \union {"start", "refresh", "checkin"}
    /\ at \in {"installer", "url", "code"} => job \in Commands
    /\ at = "confirm" => job \in Commands \union {"package"}
    /\ at \in {"loop", "created"} => job = "none"

\* While it does not pump messages the window cannot go and no quit can come.
Undisturbed ==
    at \in Refreshing \union {"created", "installer"} => window # "gone" /\ ~quit

\* What the copy holds of the machine, look by look.
Gate(m) == model.provisioned = (m.store # "none") /\ model.locked = Locked(m)
Settings(m) == model.lock = m.lock /\ model.code = m.code /\ model.url = m.url
Enrolled(m) == model.enrolled = (m.store = "portal")

Copied ==
    ~quit /\ ~foreign.now =>
        /\ at \in Prompt \union {"loop", "installer", "checkin", "created", "settings", "enrolled"}
               => Gate(machine)
        /\ at \in Prompt \union {"loop", "installer", "checkin", "created", "enrolled"}
               => Settings(machine)
        /\ at \in Prompt \union {"loop", "installer", "checkin", "created"}
               => Enrolled(machine)

\* What is on the screen, up to a repaint that is due.
Drawn ==
    /\ window = "open" /\ at \in Pumping \union {"installer"} => dirty \/ screen = Shown
    /\ at = "checkin" /\ job = "checkin" =>
           dirty \/ (screen = Shown /\ model.enrolled)

\* The last check-in has answered, or is the only one under way, or its answer
\* is the only one posted.
Answered == ~UnderWay /\ ~Results /\ conn = newest

Calling ==
    /\ ~Results
    /\ \E t \in Thread :
          thread[t] # "none" /\ \A u \in Thread : thread[u] # "none" => u = t

Posted ==
    /\ ~UnderWay
    /\ \E i \in DOMAIN queue :
          /\ queue[i] \in Result /\ queue[i] = newest
          /\ \A j \in DOMAIN queue : queue[j] \in Result => j = i

OneAnswer == window # "gone" /\ ~overlap /\ ~orphan => Answered \/ Calling \/ Posted

Inv == TypeOK /\ Places /\ Undisturbed /\ Copied /\ Drawn /\ OneAnswer

-----------------------------------------------------------------------------
(* Types.                                                                  *)

ModelType ==
    [provisioned: BOOLEAN, locked: BOOLEAN, lock: BOOLEAN,
     code: BOOLEAN, url: BOOLEAN, enrolled: BOOLEAN]

LEMMA ModelTypeIs == ModelType = [DOMAIN Blank -> BOOLEAN]
  BY DEF ModelType, Blank

\* A copy taken of a machine, one field after the other.
LEMMA CopiesTyped ==
    ASSUME NEW m \in Machine, NEW c \in ModelType
    PROVE  /\ [c EXCEPT !.provisioned = m.store # "none", !.locked = Locked(m)] \in ModelType
           /\ [c EXCEPT !.lock = m.lock, !.code = m.code, !.url = m.url] \in ModelType
           /\ [c EXCEPT !.enrolled = m.store = "portal"] \in ModelType
  <1>1. Locked(m) \in BOOLEAN
    BY DEF Locked, Machine
  <1> QED  BY <1>1 DEF ModelType, Machine

LEMMA MachinesTyped ==
    ASSUME NEW m \in Machine, job \in Commands
    PROVE  Succeeded(m) \subseteq Machine /\ Failed(m) \subseteq Machine
  <1>1. /\ [m EXCEPT !.store = "portal", !.due = TRUE, !.url = TRUE] \in Machine
        /\ [m EXCEPT !.due = FALSE] \in Machine
        /\ [m EXCEPT !.lock = TRUE] \in Machine /\ [m EXCEPT !.lock = FALSE] \in Machine
        /\ [m EXCEPT !.lock = FALSE, !.code = FALSE, !.url = FALSE] \in Machine
        /\ [m EXCEPT !.url = TRUE] \in Machine
    BY DEF Machine, Store
  <1>2. CASE job = "enroll"
    BY <1>1, <1>2 DEF Succeeded, Failed
  <1>3. CASE job \in {"apply-code", "fetch-token"}
    BY <1>1, <1>3 DEF Succeeded, Failed
  <1>4. CASE job \in {"enable", "disable"}
    BY <1>1, <1>4 DEF Succeeded, Failed
  <1>5. CASE job = "uninstall"
    BY <1>1, <1>5 DEF Succeeded, Failed
  <1> QED  BY <1>2, <1>3, <1>4, <1>5 DEF Commands

Message == Result \union {"close"}

LEMMA QueueFacts ==
    ASSUME NEW q \in Seq(Message)
    PROVE  /\ \A x \in Message : /\ Append(q, x) \in Seq(Message)
                                 /\ Len(Append(q, x)) = Len(q) + 1
                                 /\ \A i \in 1..Len(q) : Append(q, x)[i] = q[i]
                                 /\ Append(q, x)[Len(q) + 1] = x
           /\ q # <<>> => /\ Head(q) = q[1] /\ Head(q) \in Message /\ Len(q) \in Nat \ {0}
                          /\ Tail(q) \in Seq(Message) /\ Len(Tail(q)) = Len(q) - 1
                          /\ \A i \in 1..Len(q) - 1 : Tail(q)[i] = q[i + 1]
           /\ DOMAIN q = 1..Len(q) /\ Len(q) \in Nat
  OBVIOUS

-----------------------------------------------------------------------------
(* Every step keeps the types.                                             *)

LEMMA TypedInit == Init => TypeOK
  <1>1. Blank \in ModelType
    BY DEF Blank, ModelType
  <1>2. <<>> \in Seq(Message) /\ 0 \in 0..MaxClicks /\ 0 \in 0..MaxForeign
    BY AppAssumption
  <1> SUFFICES ASSUME Init PROVE TypeOK
    OBVIOUS
  <1>3. machine \in Machine
    BY AppAssumption DEF Init
  <1>4. screen \in [model: [DOMAIN Blank -> BOOLEAN], conn: Conn]
    BY <1>1, ModelTypeIs DEF Init, Conn
  <1>5. foreign \in [all: 0..MaxForeign, now: BOOLEAN]
    BY <1>2 DEF Init
  <1> QED
    BY <1>1, <1>2, <1>3, <1>4, <1>5, ModelTypeIs
    DEF Init, TypeOK, Conn, Result, Message, Pumping, Prompt, Refreshing, Job, Commands

\* The places and jobs there are.
LEMMA PlacesAre ==
    /\ Pumping = {"url", "code", "confirm", "loop", "removed"}
    /\ Refreshing = {"gate", "settings", "enrolled", "checkin"}
    /\ Job = {"enroll", "apply-code", "fetch-token", "enable", "disable", "uninstall",
              "none", "start", "refresh", "checkin", "package"}
    /\ Conn = {"Unknown", "Checking", "Online", "Offline"}
    /\ Result = {"Unknown", "Online", "Offline"}
  BY DEF Pumping, Prompt, Refreshing, Job, Commands, Conn, Result

LEMMA PostTyped ==
    ASSUME TypeOK, NEW t \in Thread, NEW result \in Result, Post(t, result)
    PROVE  /\ thread' \in [Thread -> {"none", "reads", "calls"}]
           /\ newest' \in Result /\ orphan' \in BOOLEAN
           /\ queue' \in Seq(Message)
  <1>1. result \in Message /\ queue \in Seq(Message)
    BY DEF Message, TypeOK
  <1>2. Append(queue, result) \in Seq(Message)
    BY <1>1, QueueFacts
  <1> QED  BY <1>1, <1>2 DEF Post, TypeOK

LEMMA TypedStep ==
    ASSUME TypeOK, Places, [Next]_vars
    PROVE  TypeOK'
  <1>1. model \in ModelType /\ queue \in Seq(Message)
    BY ModelTypeIs DEF TypeOK, Message
  <1>2. TypeOK' <=>
            /\ machine' \in Machine
            /\ model' \in ModelType /\ conn' \in Conn
            /\ screen' \in [model: ModelType, conn: Conn]
            /\ dirty' \in BOOLEAN /\ window' \in {"creating", "open", "gone"}
            /\ at' \in Pumping \union Refreshing \union {"created", "installer", "ended"}
            /\ job' \in Job
            /\ queue' \in Seq(Message) /\ quit' \in BOOLEAN
            /\ thread' \in [Thread -> {"none", "reads", "calls"}]
            /\ clicks' \in 0 .. MaxClicks
            /\ foreign' \in [all: 0 .. MaxForeign, now: BOOLEAN]
            /\ newest' \in Result /\ overlap' \in BOOLEAN /\ orphan' \in BOOLEAN
    BY ModelTypeIs DEF TypeOK, Message
  <1>3. /\ machine \in Machine
        /\ model \in ModelType /\ conn \in Conn
        /\ screen \in [model: ModelType, conn: Conn]
        /\ dirty \in BOOLEAN /\ window \in {"creating", "open", "gone"}
        /\ at \in Pumping \union Refreshing \union {"created", "installer", "ended"}
        /\ job \in Job
        /\ queue \in Seq(Message) /\ quit \in BOOLEAN
        /\ thread \in [Thread -> {"none", "reads", "calls"}]
        /\ clicks \in 0 .. MaxClicks
        /\ foreign \in [all: 0 .. MaxForeign, now: BOOLEAN]
        /\ newest \in Result /\ overlap \in BOOLEAN /\ orphan \in BOOLEAN
    BY ModelTypeIs DEF TypeOK, Message
  <1>4. CASE RefreshGate
    <2>1. model' \in ModelType
      BY <1>3, <1>4, CopiesTyped DEF RefreshGate
    <2>2. foreign' \in [all: 0 .. MaxForeign, now: BOOLEAN]
      BY <1>3, <1>4 DEF RefreshGate
    <2> QED  BY <1>2, <1>3, <1>4, <2>1, <2>2, PlacesAre, SMTT(40)
         DEF RefreshGate, GoTo, pump, checkins
  <1>5. CASE RefreshSettings
    <2>1. model' \in ModelType
      BY <1>3, <1>5, CopiesTyped DEF RefreshSettings
    <2> QED
      BY <1>2, <1>3, <1>5, <2>1, PlacesAre DEF RefreshSettings, GoTo, pump, checkins, world
  <1>6. CASE RefreshEnrolled
    <2>1. model' \in ModelType
      BY <1>3, <1>6, CopiesTyped DEF RefreshEnrolled
    <2> QED
      BY <1>2, <1>3, <1>6, <2>1, PlacesAre DEF RefreshEnrolled, GoTo, pump, checkins, world
  <1>7. CASE StartCheckIn
    <2>1. /\ thread' \in [Thread -> {"none", "reads", "calls"}]
          /\ newest' \in Result /\ orphan' \in BOOLEAN /\ conn' \in Conn
      BY <1>3, <1>7, PlacesAre DEF StartCheckIn, NotEnrolled, Begin
    <2>2. overlap' \in BOOLEAN /\ dirty' \in BOOLEAN
      <3>1. UnderWay \in BOOLEAN /\ Results \in BOOLEAN
        BY DEF UnderWay, Results
      <3>2. model.enrolled \in BOOLEAN
        BY <1>3 DEF ModelType
      <3>3. overlap' = (UnderWay \/ Results)
            /\ dirty' = (dirty \/ model.enrolled \/ job # "checkin")
        BY <1>7 DEF StartCheckIn
      <3> QED  BY <3>3, Zenon
    <2> QED
      BY <1>2, <1>3, <1>7, <2>1, <2>2, PlacesAre DEF StartCheckIn, GoTo, pump, world
  <1>8. CASE \E t \in Thread : ThreadStep(t)
    <2> SUFFICES ASSUME NEW t \in Thread, ThreadStep(t) PROVE TypeOK'
      BY <1>8
    <2>1. ASSUME NEW result \in Result, Post(t, result)
          PROVE  /\ thread' \in [Thread -> {"none", "reads", "calls"}]
                 /\ newest' \in Result /\ orphan' \in BOOLEAN
                 /\ queue' \in Seq(Message)
      BY <2>1, PostTyped
    <2>2. /\ thread' \in [Thread -> {"none", "reads", "calls"}]
          /\ newest' \in Result /\ orphan' \in BOOLEAN
          /\ queue' \in Seq(Message)
      BY <1>3, <2>1, PlacesAre DEF ThreadStep, ThreadReads, ThreadCalls
    <2> QED
      BY <1>2, <1>3, <2>2 DEF ThreadStep, ThreadReads, ThreadCalls, world, ui
  <1>9. CASE WindowCreated
    <2>1. screen' \in [model: ModelType, conn: Conn]
      BY <1>3, <1>9 DEF WindowCreated, Shown
    <2> QED  BY <1>2, <1>3, <1>9, <2>1, PlacesAre DEF WindowCreated, GoTo, world, checkins
  <1>10. CASE DispatchResult
    <2>1. Tail(queue) \in Seq(Message)
      BY <1>3, <1>10, QueueFacts DEF DispatchResult
    <2> QED  BY <1>2, <1>3, <1>10, <2>1, PlacesAre DEF DispatchResult, world, checkins
  <1>11. CASE DispatchClose
    <2>1. <<>> \in Seq(Message)
      OBVIOUS
    <2> QED  BY <1>2, <1>3, <1>11, <2>1, PlacesAre DEF DispatchClose, world, checkins, ui
  <1>12. CASE QuitPrompt \/ Removed
    BY <1>2, <1>3, <1>12, PlacesAre DEF QuitPrompt, Removed, GoTo, world, ui, checkins
  <1>13. CASE Leave
    BY <1>2, <1>3, <1>13, PlacesAre DEF Leave, GoTo, world, ui
  <1>14. CASE Paint
    <2>1. screen' \in [model: ModelType, conn: Conn]
      BY <1>3, <1>14 DEF Paint, Shown
    <2> QED  BY <1>2, <1>3, <1>14, <2>1 DEF Paint, world, pump, checkins
  <1>15. ASSUME NEW enabled, NEW place, NEW what, Click(enabled, place, what),
                place \in {"gate", "checkin", "installer", "url", "code", "confirm"},
                what \in Job
         PROVE  TypeOK'
    <2>1. clicks' \in 0..MaxClicks
      BY <1>3, <1>15, AppAssumption DEF Click
    <2> QED
      BY <1>2, <1>3, <1>15, <2>1, PlacesAre DEF Click, GoTo, ui, pump, checkins
  <1>16. CASE ClickRefresh \/ ClickCheckIn \/ OnFetch \/ OnEnroll \/ OnEnterCode \/ OnUninstall
    BY <1>15, <1>16, PlacesAre
    DEF ClickRefresh, ClickCheckIn, OnFetch, OnEnroll, OnEnterCode, OnUninstall
  <1>17. CASE OnToggleLock
    BY <1>2, <1>3, <1>15, <1>17, PlacesAre DEF OnToggleLock, world, pump, checkins
  <1>18. CASE Answer \/ Cancel
    BY <1>2, <1>3, <1>18, PlacesAre DEF Answer, Cancel, GoTo, world, ui, pump, checkins
  <1>19. CASE AskClose
    <2>1. Append(queue, "close") \in Seq(Message)
      BY <1>3, QueueFacts DEF Message
    <2> QED  BY <1>2, <1>3, <1>19, <2>1 DEF AskClose, world, ui, checkins
  <1>20. CASE PrivilegedEnds \/ UninstallEnds
    <2>1. job \in Commands
      BY <1>20 DEF PrivilegedEnds, UninstallEnds, Places
    <2>2. machine' \in Machine
      BY <1>3, <1>20, <2>1, MachinesTyped DEF PrivilegedEnds, UninstallEnds
    <2> QED
      BY <1>2, <1>3, <1>20, <2>2, PlacesAre
      DEF PrivilegedEnds, UninstallEnds, GoTo, ui, pump, checkins
  <1>21. CASE Declined
    BY <1>2, <1>3, <1>21, PlacesAre DEF Declined, GoTo, world, ui, pump, checkins
  <1>22. CASE Foreign
    <2>1. machine' \in Machine
      BY <1>22 DEF Foreign, Changed
    <2>2. foreign' \in [all: 0 .. MaxForeign, now: BOOLEAN]
      BY <1>3, <1>22, AppAssumption DEF Foreign
    <2> QED  BY <1>2, <1>3, <1>22, <2>1, <2>2 DEF Foreign, ui, pump, checkins
  <1>23. CASE UNCHANGED vars
    BY <1>2, <1>3, <1>23 DEF vars, world, ui, pump, checkins
  <1> QED
    BY <1>4, <1>5, <1>6, <1>7, <1>8, <1>9, <1>10, <1>11, <1>12, <1>13, <1>14, <1>16, <1>17,
       <1>18, <1>19, <1>20, <1>21, <1>22, <1>23 DEF Next, AppStep, Waits

-----------------------------------------------------------------------------
(* Where the app's thread is.                                              *)

\* What the user may ask for from the main loop, and where that leads.
Asked ==
    {<<"gate", "refresh">>, <<"checkin", "checkin">>, <<"installer", "fetch-token">>,
     <<"url", "enroll">>, <<"code", "apply-code">>, <<"code", "uninstall">>,
     <<"confirm", "uninstall">>, <<"confirm", "package">>,
     <<"installer", "disable">>, <<"installer", "enable">>}

LEMMA ClicksAre ==
    ASSUME ClickRefresh \/ ClickCheckIn \/ OnFetch \/ OnEnroll \/ OnEnterCode \/ OnUninstall
    PROVE  /\ at = "loop" /\ UsersTurn /\ UNCHANGED <<machine, foreign, ui, pump, checkins>>
           /\ <<at', job'>> \in Asked
           /\ job' \notin {"enable", "disable"}
           /\ at' = "checkin" => screen.model.enrolled
  BY DEF ClickRefresh, ClickCheckIn, OnFetch, OnEnroll, OnEnterCode, OnUninstall, Click, GoTo,
         Asked

LEMMA TogglesAre ==
    ASSUME OnToggleLock
    PROVE  /\ at = "loop" /\ UsersTurn
           /\ \/ /\ UNCHANGED <<machine, foreign, ui, pump, checkins>>
                 /\ at' = "installer"
                 /\ \/ job' = "disable" /\ model.lock
                    \/ job' = "enable" /\ ~model.lock /\ model.provisioned
              \/ /\ dirty' = TRUE
                 /\ UNCHANGED <<world, model, conn, screen, pump, at, job, checkins>>
  BY DEF OnToggleLock, Click, GoTo

LEMMA PlacesStep ==
    ASSUME TypeOK, Places, Undisturbed, [Next]_vars
    PROVE  Places' /\ Undisturbed'
  <1>1. /\ at \in Pumping \union Refreshing \union {"created", "installer", "ended"}
        /\ quit \in BOOLEAN
    BY DEF TypeOK
  <1>2. CASE RefreshGate \/ RefreshSettings \/ RefreshEnrolled
    BY <1>1, <1>2, PlacesAre
    DEF RefreshGate, RefreshSettings, RefreshEnrolled, GoTo, pump, Places, Undisturbed
  <1>3. CASE StartCheckIn
    BY <1>1, <1>3, PlacesAre DEF StartCheckIn, GoTo, pump, Places, Undisturbed
  <1>4. CASE \E t \in Thread : ThreadStep(t)
    BY <1>4 DEF ThreadStep, ThreadReads, ThreadCalls, Places, Undisturbed
  <1>5. CASE WindowCreated \/ QuitPrompt \/ Removed \/ Leave \/ Declined
    BY <1>1, <1>5, PlacesAre
    DEF WindowCreated, QuitPrompt, Removed, Leave, Declined, GoTo, pump, Places, Undisturbed
  <1>6. CASE DispatchResult \/ DispatchClose
    BY <1>1, <1>6, PlacesAre DEF DispatchResult, DispatchClose, Places, Undisturbed
  <1>7. CASE Paint \/ Foreign \/ UNCHANGED vars
    BY <1>7 DEF Paint, Foreign, vars, pump, Places, Undisturbed
  <1>8. CASE ClickRefresh \/ ClickCheckIn \/ OnFetch \/ OnEnroll \/ OnEnterCode \/ OnUninstall
    <2>1. UsersTurn /\ UNCHANGED pump /\ <<at', job'>> \in Asked
      BY <1>8, ClicksAre
    <2> QED
      BY <2>1, PlacesAre DEF UsersTurn, pump, Asked, Places, Undisturbed, Commands, Prompt
  <1>9. CASE OnToggleLock
    <2>1. CASE UNCHANGED pump /\ at' = "installer" /\ job' \in {"enable", "disable"}
      <3>1. UsersTurn
        BY <1>9, TogglesAre
      <3> QED
        BY <2>1, <3>1, PlacesAre DEF UsersTurn, pump, Places, Undisturbed, Commands, Prompt
    <2>2. CASE UNCHANGED <<pump, at, job>>
      BY <2>2 DEF pump, Places, Undisturbed
    <2> QED  BY <1>9, <2>1, <2>2, TogglesAre
  <1>10. CASE Answer \/ Cancel
    BY <1>1, <1>10, PlacesAre
    DEF Answer, Cancel, UsersTurn, GoTo, pump, Places, Undisturbed, Prompt
  <1>11. CASE AskClose
    BY <1>11 DEF AskClose, Places, Undisturbed
  <1>12. CASE PrivilegedEnds \/ UninstallEnds
    BY <1>1, <1>12, PlacesAre
    DEF PrivilegedEnds, UninstallEnds, GoTo, pump, Places, Undisturbed
  <1> QED
    BY <1>2, <1>3, <1>4, <1>5, <1>6, <1>7, <1>8, <1>9, <1>10, <1>11, <1>12
    DEF Next, AppStep, Waits

-----------------------------------------------------------------------------
(* The copy follows the machine.                                           *)

LEMMA CopiedStays ==
    ASSUME Copied, UNCHANGED <<model, machine>>, quit' = FALSE => quit = FALSE,
           quit \in BOOLEAN, quit' \in BOOLEAN, foreign'.now = foreign.now,
           \/ UNCHANGED at
           \/ at' \in {"gate", "removed", "ended"}
           \/ at \in Prompt \union {"loop", "installer", "checkin", "created"}
           \/ quit'
    PROVE  Copied'
  <1>1. at' = at => Copied'
    BY DEF Copied, Gate, Settings, Enrolled, Locked
  <1>2. at' \in {"gate", "removed", "ended"} \/ quit' => Copied'
    BY DEF Copied, Prompt
  <1>3. at \in Prompt \union {"loop", "installer", "checkin", "created"} => Copied'
    BY DEF Copied, Gate, Settings, Enrolled, Locked
  <1> QED  BY <1>1, <1>2, <1>3

LEMMA CopiedStep ==
    ASSUME TypeOK, TypeOK', Places, Undisturbed, Copied, [Next]_vars
    PROVE  Copied'
  <1>1. /\ quit \in BOOLEAN /\ quit' \in BOOLEAN /\ model \in ModelType
        /\ foreign \in [all: 0 .. MaxForeign, now: BOOLEAN]
        /\ at \in Pumping \union Refreshing \union {"created", "installer", "ended"}
    BY ModelTypeIs DEF TypeOK
  <1>2. CASE RefreshGate
    <2>1. Gate(machine)'
      BY <1>1, <1>2 DEF RefreshGate, Gate, ModelType, Locked
    <2> QED  BY <1>2, <2>1 DEF RefreshGate, GoTo, Copied, Prompt
  <1>3. CASE RefreshSettings
    <2>1. at = "settings" /\ at' = "enrolled" /\ UNCHANGED <<machine, foreign, quit>>
      BY <1>3 DEF RefreshSettings, GoTo, pump, world
    <2>2. Settings(machine)' /\ (Gate(machine) => Gate(machine)')
      BY <1>1, <1>3, <2>1 DEF RefreshSettings, Gate, Settings, ModelType, Locked
    <2> QED  BY <2>1, <2>2 DEF Copied, Prompt
  <1>4. CASE RefreshEnrolled
    <2>1. /\ at = "enrolled" /\ at' \in {"loop", "checkin"}
          /\ UNCHANGED <<machine, foreign, quit>>
      BY <1>4 DEF RefreshEnrolled, GoTo, pump, world
    <2>2. /\ Enrolled(machine)' /\ (Gate(machine) => Gate(machine)')
          /\ Settings(machine) => Settings(machine)'
      BY <1>1, <1>4, <2>1 DEF RefreshEnrolled, Gate, Settings, Enrolled, ModelType, Locked
    <2> QED  BY <2>1, <2>2 DEF Copied, Prompt
  <1>5. CASE StartCheckIn
    BY <1>1, <1>5, CopiedStays DEF StartCheckIn, GoTo, pump, world
  <1>6. CASE \E t \in Thread : ThreadStep(t)
    BY <1>1, <1>6, CopiedStays DEF ThreadStep, ThreadReads, ThreadCalls, world, ui
  <1>7. CASE WindowCreated
    BY <1>1, <1>7, CopiedStays DEF WindowCreated, world
  <1>8. CASE DispatchResult \/ DispatchClose
    BY <1>1, <1>8, CopiedStays DEF DispatchResult, DispatchClose, world, ui
  <1>9. CASE QuitPrompt \/ Removed
    BY <1>1, <1>9, CopiedStays DEF QuitPrompt, Removed, GoTo, world, ui
  <1>10. CASE Leave
    BY <1>1, <1>10, CopiedStays DEF Leave, GoTo, world, ui
  <1>11. CASE Declined
    BY <1>1, <1>11, CopiedStays DEF Declined, GoTo, world, ui, pump
  <1>12. CASE Paint \/ UNCHANGED vars
    BY <1>1, <1>12, CopiedStays DEF Paint, vars, world, ui, pump
  <1>13. CASE ClickRefresh \/ ClickCheckIn \/ OnFetch \/ OnEnroll \/ OnEnterCode \/ OnUninstall
    <2>1. at = "loop" /\ UNCHANGED <<machine, foreign, model, quit>>
      BY <1>13, ClicksAre DEF ui, pump
    <2> QED  BY <1>1, <2>1, CopiedStays
  <1>14. CASE OnToggleLock
    <2>1. at = "loop" /\ UNCHANGED <<machine, foreign, model, quit>>
      BY <1>14, TogglesAre DEF ui, pump, world
    <2> QED  BY <1>1, <2>1, CopiedStays
  <1>15. CASE Answer \/ Cancel
    <2>1. /\ at \in Prompt /\ UNCHANGED <<machine, foreign, model>>
          /\ quit' = FALSE => quit = FALSE
      BY <1>1, <1>15 DEF Answer, Cancel, world, ui, pump
    <2> QED  BY <1>1, <2>1, CopiedStays
  <1>16. CASE AskClose
    BY <1>1, <1>16, CopiedStays DEF AskClose, world, ui
  <1>17. CASE PrivilegedEnds \/ UninstallEnds
    <2>1. at' \in {"gate", "removed"}
      BY <1>17 DEF PrivilegedEnds, UninstallEnds, GoTo
    <2> QED  BY <2>1 DEF Copied, Prompt
  <1>18. CASE Foreign
    BY <1>18 DEF Foreign, Copied
  <1> QED
    BY <1>2, <1>3, <1>4, <1>5, <1>6, <1>7, <1>8, <1>9, <1>10, <1>11, <1>12, <1>13, <1>14,
       <1>15, <1>16, <1>17, <1>18 DEF Next, AppStep, Waits

-----------------------------------------------------------------------------
(* The screen follows the copy.                                            *)

LEMMA DrawnStep ==
    ASSUME TypeOK, Places, Undisturbed, Drawn, [Next]_vars
    PROVE  Drawn'
  <1>1. /\ dirty \in BOOLEAN /\ model \in ModelType
        /\ window \in {"creating", "open", "gone"}
        /\ at \in Pumping \union Refreshing \union {"created", "installer", "ended"}
    BY ModelTypeIs DEF TypeOK
  <1>2. CASE RefreshGate \/ RefreshSettings
    BY <1>2, PlacesAre DEF RefreshGate, RefreshSettings, GoTo, Drawn
  <1>3. CASE RefreshEnrolled
    BY <1>3, PlacesAre DEF RefreshEnrolled, GoTo, Drawn, Places, Commands
  <1>4. CASE StartCheckIn
    <2>1. CASE job = "start"
      BY <1>4, <2>1, PlacesAre DEF StartCheckIn, GoTo, Drawn
    <2>2. CASE job # "start" /\ job # "checkin"
      BY <1>1, <1>4, <2>2, PlacesAre DEF StartCheckIn, GoTo, Drawn
    <2>3. CASE job = "checkin"
      <3>1. dirty \/ model.enrolled
        BY <1>4, <2>3 DEF StartCheckIn, Drawn
      <3> QED  BY <1>1, <1>4, <2>3, <3>1, PlacesAre DEF StartCheckIn, GoTo, Drawn
    <2> QED  BY <2>1, <2>2, <2>3
  <1>5. CASE \E t \in Thread : ThreadStep(t)
    BY <1>5 DEF ThreadStep, ThreadReads, ThreadCalls, ui, Drawn, Shown
  <1>6. CASE WindowCreated
    <2>1. screen' = Shown' /\ at' = "loop"
      BY <1>6 DEF WindowCreated, GoTo, Shown
    <2> QED  BY <2>1 DEF Drawn
  <1>7. CASE DispatchResult
    BY <1>7, PlacesAre DEF DispatchResult, Drawn
  <1>8. CASE DispatchClose
    BY <1>8, PlacesAre DEF DispatchClose, Drawn, ui
  <1>9. CASE QuitPrompt \/ Removed \/ Leave \/ Declined \/ Answer \/ Cancel
    <2>1. UNCHANGED ui /\ window' \in {window, "gone"}
      BY <1>9 DEF QuitPrompt, Removed, Leave, Declined, Answer, Cancel, pump
    <2>2. at \in Pumping \union {"installer"} /\ at' # "checkin"
      BY <1>9, PlacesAre
      DEF QuitPrompt, Removed, Leave, Declined, Answer, Cancel, GoTo, Prompt
    <2> QED  BY <2>1, <2>2 DEF ui, Drawn, Shown
  <1>10. CASE Paint
    <2>1. screen' = Shown' /\ at' \in Pumping
      BY <1>10 DEF Paint, Shown, pump
    <2> QED  BY <2>1, PlacesAre DEF Drawn
  <1>11. CASE ClickRefresh \/ ClickCheckIn \/ OnFetch \/ OnEnroll \/ OnEnterCode \/ OnUninstall
    <2>1. /\ at = "loop" /\ window = "open" /\ UNCHANGED <<ui, window>>
          /\ at' = "checkin" => screen.model.enrolled
      BY <1>11, ClicksAre DEF UsersTurn, pump
    <2>2. dirty \/ screen = Shown
      BY <2>1, PlacesAre DEF Drawn
    <2>3. at' = "checkin" => dirty \/ (screen = Shown /\ model.enrolled)
      BY <2>1, <2>2 DEF Shown
    <2> QED  BY <2>1, <2>2, <2>3 DEF ui, Drawn, Shown
  <1>12. CASE OnToggleLock
    <2>1. at = "loop" /\ window = "open"
      BY <1>12, TogglesAre DEF UsersTurn
    <2>2. dirty \/ screen = Shown
      BY <2>1, PlacesAre DEF Drawn
    <2>3. /\ at' # "checkin"
          /\ dirty' \/ UNCHANGED ui
      BY <1>12, <2>1, TogglesAre
    <2> QED  BY <2>2, <2>3 DEF ui, Drawn, Shown
  <1>13. CASE AskClose \/ Foreign \/ UNCHANGED vars
    BY <1>13 DEF AskClose, Foreign, vars, ui, pump, Drawn, Shown
  <1>14. CASE PrivilegedEnds \/ UninstallEnds
    <2>1. at = "installer" /\ at' \in {"gate", "removed"} /\ UNCHANGED <<ui, window>>
      BY <1>14 DEF PrivilegedEnds, UninstallEnds, GoTo, pump
    <2> QED  BY <2>1 DEF ui, Drawn, Shown
  <1> QED
    BY <1>2, <1>3, <1>4, <1>5, <1>6, <1>7, <1>8, <1>9, <1>10, <1>11, <1>12, <1>13, <1>14
    DEF Next, AppStep, Waits

-----------------------------------------------------------------------------
(* One check-in at a time has one answer.                                  *)

LEMMA AnswerStays ==
    ASSUME OneAnswer, UNCHANGED <<checkins, conn, queue>>, window' # "gone" => window # "gone"
    PROVE  OneAnswer'
  <1>1. UNCHANGED <<thread, newest, overlap, orphan>>
    BY DEF checkins
  <1>2. /\ Answered => Answered'
        /\ Calling => Calling'
        /\ Posted => Posted'
    BY <1>1 DEF Answered, Calling, Posted, UnderWay, Results
  <1> QED  BY <1>1, <1>2 DEF OneAnswer

LEMMA PostAnswers ==
    ASSUME TypeOK, OneAnswer, NEW t \in Thread, thread[t] # "none", NEW result \in Result,
           Post(t, result), UNCHANGED <<window, overlap, conn>>
    PROVE  OneAnswer'
  <1> SUFFICES ASSUME window' # "gone", ~overlap', ~orphan' PROVE Posted'
    BY DEF OneAnswer
  <1>1. /\ window = "open" /\ ~overlap /\ ~orphan
        /\ thread' = [thread EXCEPT ![t] = "none"] /\ newest' = result
        /\ queue' = Append(queue, result)
    BY DEF Post, TypeOK
  <1>2. UnderWay
    BY DEF UnderWay
  <1>3. Calling
    BY <1>1, <1>2 DEF OneAnswer, Answered, Posted
  <1>4. \A u \in Thread : thread[u] # "none" => u = t
    BY <1>3 DEF Calling
  <1>5. ~UnderWay'
    BY <1>1, <1>4 DEF UnderWay, TypeOK
  <1>6. queue \in Seq(Message) /\ result \in Message
    BY DEF TypeOK, Message
  <1>7. /\ queue' \in Seq(Message) /\ Len(queue') = Len(queue) + 1
        /\ \A i \in 1..Len(queue) : queue'[i] = queue[i]
        /\ queue'[Len(queue) + 1] = result
        /\ Len(queue) \in Nat /\ DOMAIN queue = 1..Len(queue)
        /\ DOMAIN queue' = 1..Len(queue')
    <2>1. queue' \in Seq(Message)
      BY <1>1, <1>6, QueueFacts
    <2> QED  BY <1>1, <1>6, <2>1, QueueFacts
  <1>8. \A i \in 1..Len(queue) : queue[i] \notin Result
    BY <1>3, <1>7 DEF Calling, Results
  <1>9. \A j \in DOMAIN queue' : queue'[j] \in Result => j = Len(queue) + 1
    <2> SUFFICES ASSUME NEW j \in DOMAIN queue', j # Len(queue) + 1
                 PROVE  queue'[j] \notin Result
      OBVIOUS
    <2>1. j \in 1..Len(queue)
      BY <1>7
    <2> QED  BY <1>7, <1>8, <2>1
  <1>10. Len(queue) + 1 \in DOMAIN queue'
    BY <1>7
  <1> QED  BY <1>1, <1>5, <1>7, <1>9, <1>10 DEF Posted

LEMMA CheckInStarts ==
    ASSUME TypeOK, StartCheckIn
    PROVE  OneAnswer'
  <1> SUFFICES ASSUME ~overlap', ~orphan' PROVE Answered' \/ Calling'
    BY DEF OneAnswer
  <1>1. ~UnderWay /\ ~Results /\ queue' = queue
    BY DEF StartCheckIn, pump
  <1>2. ~Results'
    BY <1>1 DEF Results
  <1>3. CASE NotEnrolled
    <2>1. ~UnderWay'
      BY <1>1, <1>3 DEF NotEnrolled, UnderWay
    <2> QED  BY <1>2, <1>3, <2>1 DEF NotEnrolled, Answered
  <1>4. CASE Begin
    <2>1. PICK t \in Thread : thread' = [thread EXCEPT ![t] = "reads"]
      BY <1>4 DEF Begin
    <2>2. thread'[t] = "reads" /\ \A u \in Thread \ {t} : thread'[u] = "none"
      BY <1>1, <2>1 DEF UnderWay, TypeOK
    <2> QED  BY <1>2, <2>2 DEF Calling
  <1> QED  BY <1>3, <1>4 DEF StartCheckIn

LEMMA ResultShown ==
    ASSUME TypeOK, OneAnswer, DispatchResult
    PROVE  OneAnswer'
  <1> SUFFICES ASSUME window # "gone", ~overlap, ~orphan PROVE Answered'
    BY DEF DispatchResult, OneAnswer, checkins
  <1>1. /\ queue \in Seq(Message) /\ queue # <<>> /\ Head(queue) \in Result
        /\ conn' = Head(queue) /\ queue' = Tail(queue)
        /\ UNCHANGED <<thread, newest>>
    BY DEF DispatchResult, TypeOK, Message, checkins
  <1>2. /\ Head(queue) = queue[1] /\ 1 \in DOMAIN queue
        /\ queue' \in Seq(Message) /\ Len(queue') = Len(queue) - 1 /\ Len(queue) \in Nat
        /\ \A i \in 1..Len(queue) - 1 : queue'[i] = queue[i + 1]
        /\ DOMAIN queue = 1..Len(queue)
        /\ DOMAIN queue' = 1..Len(queue')
    <2>1. queue' \in Seq(Message)
      BY <1>1, QueueFacts
    <2> QED  BY <1>1, <2>1, QueueFacts
  <1>3. Results
    BY <1>1, <1>2 DEF Results
  <1>4. Posted
    BY <1>3 DEF OneAnswer, Answered, Calling
  <1>5. queue[1] = newest /\ \A j \in DOMAIN queue : queue[j] \in Result => j = 1
    BY <1>1, <1>2, <1>4 DEF Posted
  <1>6. ~Results'
    <2> SUFFICES ASSUME NEW i \in DOMAIN queue', queue'[i] \in Result PROVE FALSE
      BY DEF Results
    <2>1. i + 1 \in DOMAIN queue /\ queue[i + 1] \in Result /\ i + 1 # 1
      BY <1>2
    <2> QED  BY <1>5, <2>1
  <1>7. ~UnderWay'
    BY <1>1, <1>4 DEF Posted, UnderWay
  <1> QED  BY <1>1, <1>2, <1>5, <1>6, <1>7 DEF Answered

LEMMA ClosePosted ==
    ASSUME TypeOK, OneAnswer, AskClose
    PROVE  OneAnswer'
  <1>1. /\ queue \in Seq(Message) /\ queue' = Append(queue, "close")
        /\ UNCHANGED <<thread, newest, overlap, orphan, conn, window>>
    BY DEF AskClose, TypeOK, Message, checkins, ui
  <1>2. /\ Len(queue') = Len(queue) + 1 /\ Len(queue) \in Nat
        /\ \A i \in 1..Len(queue) : queue'[i] = queue[i]
        /\ queue'[Len(queue) + 1] = "close"
        /\ DOMAIN queue = 1..Len(queue) /\ DOMAIN queue' = 1..Len(queue')
    <2>1. "close" \in Message /\ queue' \in Seq(Message)
      BY <1>1, QueueFacts DEF Message
    <2> QED  BY <1>1, <2>1, QueueFacts
  <1>3. "close" \notin Result
    BY PlacesAre
  <1>4. /\ \A i \in DOMAIN queue : i \in DOMAIN queue' /\ queue'[i] = queue[i]
        /\ \A i \in DOMAIN queue' : queue'[i] \in Result => i \in DOMAIN queue
    BY <1>2, <1>3
  <1>5. /\ Results' <=> Results
        /\ UnderWay' <=> UnderWay
    BY <1>1, <1>4 DEF Results, UnderWay
  <1>6. /\ Answered => Answered'
        /\ Calling => Calling'
        /\ Posted => Posted'
    BY <1>1, <1>4, <1>5 DEF Answered, Calling, Posted
  <1> QED  BY <1>1, <1>6 DEF OneAnswer

LEMMA OneAnswerStep ==
    ASSUME TypeOK, Undisturbed, OneAnswer, [Next]_vars
    PROVE  OneAnswer'
  <1>1. CASE \E t \in Thread : ThreadStep(t)
    <2> SUFFICES ASSUME NEW t \in Thread, ThreadStep(t) PROVE OneAnswer'
      BY <1>1
    <2>1. thread[t] # "none" /\ UNCHANGED <<window, overlap, conn>>
      BY DEF ThreadStep, ThreadReads, ThreadCalls, ui
    <2>2. ASSUME NEW result \in Result, Post(t, result) PROVE OneAnswer'
      BY <2>1, <2>2, PostAnswers
    <2>3. ASSUME thread' = [thread EXCEPT ![t] = "calls"], UNCHANGED <<queue, newest, orphan>>
          PROVE  OneAnswer'
      <3>1. \A u \in Thread : thread'[u] # "none" <=> thread[u] # "none"
        BY <2>1, <2>3 DEF TypeOK
      <3>2. /\ Answered => Answered'
            /\ Calling => Calling'
            /\ Posted => Posted'
        BY <2>1, <2>3, <3>1 DEF Answered, Calling, Posted, UnderWay, Results
      <3> QED  BY <2>1, <2>3, <3>2 DEF OneAnswer
    <2>4. ThreadReads(t) => OneAnswer'
      BY <2>2, <2>3, PlacesAre DEF ThreadReads
    <2>5. ThreadCalls(t) => OneAnswer'
      BY <2>2, PlacesAre DEF ThreadCalls
    <2> QED  BY <2>4, <2>5 DEF ThreadStep
  <1>2. CASE DispatchClose \/ Leave
    BY <1>2 DEF DispatchClose, Leave, OneAnswer
  <1>3. CASE WindowCreated
    <2>1. UNCHANGED <<checkins, conn, queue>> /\ window # "gone"
      BY <1>3 DEF WindowCreated, Undisturbed
    <2> QED  BY <2>1, AnswerStays
  <1>4. CASE RefreshGate \/ RefreshSettings \/ RefreshEnrolled
    BY <1>4, AnswerStays DEF RefreshGate, RefreshSettings, RefreshEnrolled, pump
  <1>5. CASE QuitPrompt \/ Removed \/ Declined \/ Answer \/ Cancel
    BY <1>5, AnswerStays DEF QuitPrompt, Removed, Declined, Answer, Cancel, ui, pump
  <1>6. CASE Paint \/ Foreign \/ PrivilegedEnds \/ UninstallEnds
    BY <1>6, AnswerStays DEF Paint, Foreign, PrivilegedEnds, UninstallEnds, ui, pump
  <1>7. CASE UNCHANGED vars
    BY <1>7, AnswerStays DEF vars, ui, pump
  <1>8. CASE ClickRefresh \/ ClickCheckIn \/ OnFetch \/ OnEnroll \/ OnEnterCode \/ OnUninstall
    BY <1>8, AnswerStays, ClicksAre DEF ui, pump
  <1>9. CASE OnToggleLock
    BY <1>9, AnswerStays, TogglesAre DEF ui, pump
  <1> QED
    BY <1>1, <1>2, <1>3, <1>4, <1>5, <1>6, <1>7, <1>8, <1>9,
       CheckInStarts, ResultShown, ClosePosted DEF Next, AppStep, Waits

-----------------------------------------------------------------------------
(* What the run checks, for any number of threads, clicks and changes.     *)

LEMMA SoundInit == Init => Inv
  <1> SUFFICES ASSUME Init PROVE Inv
    OBVIOUS
  <1>1. Places /\ Undisturbed /\ Copied /\ Drawn
    BY PlacesAre DEF Init, Places, Undisturbed, Copied, Drawn, Prompt
  <1>2. OneAnswer
    BY DEF Init, OneAnswer, Answered, UnderWay, Results
  <1> QED  BY <1>1, <1>2, TypedInit DEF Inv

LEMMA SoundStep == Inv /\ [Next]_vars => Inv'
  <1> SUFFICES ASSUME Inv, [Next]_vars PROVE Inv'
    OBVIOUS
  <1>1. TypeOK'
    BY TypedStep DEF Inv
  <1>2. Places' /\ Undisturbed'
    BY PlacesStep DEF Inv
  <1>3. Copied'
    BY <1>1, CopiedStep DEF Inv
  <1>4. Drawn'
    BY DrawnStep DEF Inv
  <1>5. OneAnswer'
    BY OneAnswerStep DEF Inv
  <1> QED  BY <1>1, <1>2, <1>3, <1>4, <1>5 DEF Inv

LEMMA Sound == Spec => []Inv
  <1>1. Spec => Init /\ [][Next]_vars
    BY PTL DEF Spec
  <1> QED  BY <1>1, SoundInit, SoundStep, PTL

\* Every variable keeps its type.
THEOREM TypeCorrect == Spec => []TypeOK
  <1>1. Inv => TypeOK
    BY DEF Inv
  <1> QED  BY <1>1, Sound, PTL

LEMMA CopyIsTheMachine ==
    ASSUME Inv
    PROVE  ModelIsCurrent
  <1> SUFFICES ASSUME AtRest, ~foreign.now PROVE model = View(machine)
    BY DEF ModelIsCurrent
  <1>1. Gate(machine) /\ Settings(machine) /\ Enrolled(machine)
    BY DEF AtRest, Inv, Copied
  <1>2. model \in ModelType
    BY ModelTypeIs DEF Inv, TypeOK
  <1> QED  BY <1>1, <1>2 DEF Gate, Settings, Enrolled, View, ModelType

\* What is on show is what the machine is, but for what another process did
\* since the last refresh began and a repaint that is due: no command, click,
\* prompt, late result or failure leaves the copy or the screen behind.
THEOREM ShowsTheMachineEver == Spec => []ShowsTheMachine
  <1>1. Inv => ShowsTheMachine
    BY CopyIsTheMachine DEF ShowsTheMachine, ScreenCatchesUp, Inv, Drawn
  <1> QED  BY <1>1, Sound, PTL

\* When all is quiet the window shows the result of the check-in that ended
\* last, whatever was clicked, posted and closed on the way, unless an older
\* one was still under way when it began, or it cannot answer.
THEOREM AnswerIsNewestEver == Spec => []AnswerIsNewest
  <1>1. Inv => AnswerIsNewest
    BY DEF Inv, AnswerIsNewest, OneAnswer, Answered, Calling, Posted, UnderWay, Results
  <1> QED  BY <1>1, Sound, PTL

\* Nothing but a click on the switch moves it.
LEMMA OnlyTheSwitch ==
    ASSUME [Next]_vars, job = "none", job' \in {"enable", "disable"}
    PROVE  OnToggleLock
  <1>1. job' # job
    OBVIOUS
  <1>2. ~(ClickRefresh \/ ClickCheckIn \/ OnFetch \/ OnEnroll \/ OnEnterCode \/ OnUninstall)
    BY ClicksAre
  <1>3. ~AppStep
    BY DEF AppStep, RefreshGate, RefreshSettings, RefreshEnrolled, StartCheckIn,
           WindowCreated, DispatchResult, DispatchClose, QuitPrompt, Leave, PrivilegedEnds,
           UninstallEnds, Declined, GoTo
  <1>4. ~(\E t \in Thread : ThreadStep(t)) /\ ~Paint /\ ~Foreign
    BY <1>1 DEF ThreadStep, ThreadReads, ThreadCalls, Paint, Foreign
  <1>5. ~(Answer \/ Cancel \/ Removed) /\ ~AskClose
    BY <1>1 DEF Answer, Cancel, Removed, AskClose, GoTo
  <1>6. ~UNCHANGED vars
    BY <1>1 DEF vars
  <1> QED  BY <1>2, <1>3, <1>4, <1>5, <1>6 DEF Next, Waits

\* The switch is moved the way its button says, unless a repaint was due, and
\* no device without a record is armed, unless another process took the record
\* away behind the app's back.
THEOREM SwitchIsObeyedEver == Spec => SwitchIsObeyed
  <1> DEFINE Obeyed ==
        job = "none" /\ job' \in {"enable", "disable"} =>
            /\ dirty \/ job' = (IF screen.model.lock THEN "disable" ELSE "enable")
            /\ job' = "enable" => machine.store # "none" \/ foreign.now
  <1>1. Inv /\ [Next]_vars => [Obeyed]_vars
    <2> SUFFICES ASSUME Inv, [Next]_vars, job = "none", job' \in {"enable", "disable"}
                 PROVE  Obeyed
      BY DEF Obeyed
    <2>1. OnToggleLock
      BY OnlyTheSwitch
    <2>2. /\ at = "loop" /\ UsersTurn
          /\ \/ job' = "disable" /\ model.lock
             \/ job' = "enable" /\ ~model.lock /\ model.provisioned
      BY <2>1, TogglesAre
    <2>3. dirty \/ screen.model.lock = model.lock
      BY <2>2, PlacesAre DEF Inv, Drawn, UsersTurn, Shown
    <2>4. ~foreign.now => model.provisioned = (machine.store # "none")
      BY <2>2 DEF Inv, Copied, UsersTurn, Gate
    <2> QED  BY <2>2, <2>3, <2>4
  <1> HIDE DEF Obeyed
  <1>2. Spec => [][Next]_vars
    BY PTL DEF Spec
  <1>3. Spec => [][Obeyed]_vars
    BY <1>1, <1>2, Sound, PTL
  <1> QED  BY <1>3 DEF Obeyed, SwitchIsObeyed

=============================================================================
