-------------------------- MODULE InstallerProofs --------------------------
(***************************************************************************)
(* What the installer's commands keep true of the machine, however they    *)
(* are cut short: killed between two changes, refused a copy or a key,     *)
(* overtaken by schtasks.exe or by a restart.  Types hold for any number   *)
(* of installers at once; the rest for one at a time.                      *)
(***************************************************************************)
EXTENDS Installer, SequenceTheorems, TLAPS

\* Nobody runs two installers at once.
OneInstaller == \A p, q \in Process : p = q

\* A process is where its command is: what is left to do is the end of it.
PlanOf(run) ==
    /\ run.cmd = "none" => run.todo = <<>>
    /\ run.cmd # "none" =>
          /\ run.cmd \in Commands /\ Len(run.todo) <= Len(Steps[run.cmd])
          /\ \A i \in 1..Len(run.todo) :
                run.todo[i] = Steps[run.cmd][Len(Steps[run.cmd]) - Len(run.todo) + i]
    /\ run.cmd = "protect" => run.arg \in Code

Plan == \A p \in Process : PlanOf(running[p])

\* schtasks.exe that outlives its command may undo what a later one did.
LateSpoils == late # {} => "task" \in spoiled

\* The process runs this command, and so many steps of it are left.
In(p, cmd, least, most) ==
    running[p].cmd = cmd /\ Len(running[p].todo) \in least..most

\* The file is there to stay, or is known to be spoiled.
Stays(f) == (f \in present /\ f \notin doomed) \/ f \in spoiled

KeysGone == present \intersect Key = {} \/ "dll" \in spoiled
TaskGone == "task" \notin present \/ "task" \in spoiled
Leaves(f) == f \in present => f \in doomed

\* What an install has reached so far.
Installing(p) ==
    /\ In(p, "install", 7, 9) \/ In(p, "register", 3, 5) => Stays("dll")
    /\ In(p, "install", 7, 7) \/ In(p, "register", 3, 3) => "provider" \in present
    /\ In(p, "install", 3, 5) \/ In(p, "register", 2, 5) => Stays("exe")

\* What a removal has reached so far.
Removing(p) ==
    /\ In(p, "uninstall", 6, 7) \/ In(p, "unregister", 3, 4) => "class" \notin present
    /\ In(p, "uninstall", 6, 6) \/ In(p, "unregister", 3, 3) => "provider" \notin present
    /\ In(p, "uninstall", 0, 5) \/ In(p, "unregister", 0, 2) => KeysGone
    /\ In(p, "uninstall", 0, 9) \/ In(p, "unregister", 0, 5) => TaskGone
    /\ In(p, "uninstall", 0, 8) => "entry" \notin present
    /\ In(p, "uninstall", 0, 4) => "shortcut" \notin present
    /\ In(p, "uninstall", 0, 3) => Leaves("app")
    /\ In(p, "uninstall", 0, 2) => Leaves("dll")
    /\ In(p, "uninstall", 0, 1) => Leaves("exe")
    /\ In(p, "uninstall", 0, 0) => settings = NoSettings

\* A lone filter is known to be spoiled, or about to be taken off.
FilterHasProvider ==
    "filter" \in present /\ "provider" \notin present =>
        \/ "filter" \in spoiled
        \/ \E p \in Process : In(p, "uninstall", 6, 6) \/ In(p, "unregister", 3, 3)

\* What a finished uninstall leaves, until the next command.
Removed ==
    outcome = "uninstall" =>
        /\ settings = NoSettings
        /\ TaskGone /\ KeysGone /\ \A f \in File : Leaves(f)
        /\ "entry" \notin present /\ "shortcut" \notin present

Machine ==
    /\ FilterHasProvider
    /\ present \intersect Key # {} => Stays("dll")
    /\ "schedule" \notin Commands /\ "task" \in present =>
           Stays("exe") \/ "task" \in spoiled
    /\ \A p \in Process : running[p].cmd # "none" => outcome = "none"
    /\ Removed

TInv == TypeOK /\ Plan /\ LateSpoils

Inv == TInv /\ Machine /\ \A p \in Process : Installing(p) /\ Removing(p)

-----------------------------------------------------------------------------
(* The lists of steps, one by one.                                         *)

LEMMA PutsDropsDoes ==
    /\ \A x \in Artefact : Put(x) \in StepType /\ Drop(x) \in StepType
    /\ \A x \in Deed : Do(x) \in StepType
  BY DEF Put, Drop, Do, StepType

LEMMA StepsDiffer ==
    /\ \A x, y : Put(x) # Drop(y) /\ Put(x) # Do(y) /\ Drop(x) # Do(y)
    /\ \A x, y : Put(x) = Put(y) => x = y
    /\ \A x, y : Drop(x) = Drop(y) => x = y
    /\ \A x, y : Do(x) = Do(y) => x = y
  BY DEF Put, Drop, Do

LEMMA Joined ==
    ASSUME NEW s \in Seq(StepType), NEW t \in Seq(StepType)
    PROVE  /\ s \o t \in Seq(StepType) /\ Len(s \o t) = Len(s) + Len(t)
           /\ \A i \in 1..Len(s) : (s \o t)[i] = s[i]
           /\ \A i \in 1..Len(t) : (s \o t)[Len(s) + i] = t[i]
  <1>1. Len(s) \in Nat /\ Len(t) \in Nat
    OBVIOUS
  <1>2. s \o t \in Seq(StepType) /\ Len(s \o t) = Len(s) + Len(t)
    BY ConcatProperties
  <1>3. ASSUME NEW i \in 1..Len(s) PROVE (s \o t)[i] = s[i]
    OBVIOUS
  <1>4. ASSUME NEW i \in 1..Len(t) PROVE (s \o t)[Len(s) + i] = t[i]
    OBVIOUS
  <1> QED  BY <1>2, <1>3, <1>4

\* Three steps between what comes before and what comes after them.
LEMMA Spliced ==
    ASSUME NEW a \in Seq(StepType), NEW r \in Seq(StepType), NEW b \in Seq(StepType),
           Len(r) = 3
    PROVE  /\ a \o r \o b \in Seq(StepType)
           /\ Len(a \o r \o b) = Len(a) + 3 + Len(b)
           /\ \A i \in 1..Len(a) : (a \o r \o b)[i] = a[i]
           /\ \A i \in 1..3 : (a \o r \o b)[Len(a) + i] = r[i]
           /\ \A i \in 1..Len(b) : (a \o r \o b)[Len(a) + 3 + i] = b[i]
  <1> DEFINE c == a \o r
             d == c \o b
  <1>1. /\ c \in Seq(StepType) /\ Len(c) = Len(a) + Len(r)
        /\ \A i \in 1..Len(a) : c[i] = a[i]
        /\ \A i \in 1..Len(r) : c[Len(a) + i] = r[i]
    BY Joined
  <1> HIDE DEF c
  <1>2. /\ d \in Seq(StepType) /\ Len(d) = Len(c) + Len(b)
        /\ \A i \in 1..Len(c) : d[i] = c[i]
        /\ \A i \in 1..Len(b) : d[Len(c) + i] = b[i]
    BY <1>1, Joined
  <1> HIDE DEF d
  <1>3. Len(a) \in Nat /\ Len(b) \in Nat
    OBVIOUS
  <1>4. Len(c) = Len(a) + 3
    BY <1>1
  <1>5. /\ \A i \in 1..Len(a) : d[i] = a[i]
        /\ \A i \in 1..3 : d[Len(a) + i] = r[i]
    BY <1>1, <1>2, <1>3, <1>4
  <1>6. \A i \in 1..Len(b) : d[Len(a) + 3 + i] = b[i]
    BY <1>2, <1>4
  <1>7. d \in Seq(StepType) /\ Len(d) = Len(a) + 3 + Len(b)
    BY <1>2, <1>4
  <1> QED  BY <1>5, <1>6, <1>7 DEF d, c

LEMMA RegistrationIs ==
    /\ RegisterSteps \in Seq(StepType) /\ Len(RegisterSteps) = 3
    /\ RegisterSteps[1] = Put("class") /\ RegisterSteps[2] = Put("provider")
    /\ RegisterSteps[3] = Put("filter")
    /\ UnregisterSteps \in Seq(StepType) /\ Len(UnregisterSteps) = 3
    /\ UnregisterSteps[1] = Drop("class") /\ UnregisterSteps[2] = Drop("provider")
    /\ UnregisterSteps[3] = Drop("filter")
  <1>1. \A x \in Key : Put(x) \in StepType /\ Drop(x) \in StepType
    BY PutsDropsDoes DEF Artefact
  <1> QED  BY <1>1 DEF RegisterSteps, UnregisterSteps, Key

LEMMA InstallIs ==
    /\ InstallSteps \in Seq(StepType) /\ Len(InstallSteps) = 10
    /\ InstallSteps[1] = Put("dll") /\ InstallSteps[2] = Put("class")
    /\ InstallSteps[3] = Put("provider") /\ InstallSteps[4] = Put("filter")
    /\ InstallSteps[5] = Put("exe") /\ InstallSteps[6] = Put("app")
    /\ InstallSteps[7] = Put("shortcut") /\ InstallSteps[8] = Put("task")
    /\ InstallSteps[9] = Put("entry") /\ InstallSteps[10] = Do("disarm")
  <1> DEFINE a == <<Put("dll")>>
             b == <<Put("exe"), Put("app"), Put("shortcut"), Put("task"),
                    Put("entry"), Do("disarm")>>
             d == a \o RegisterSteps \o b
  <1>1. /\ \A x \in {"dll", "exe", "app", "shortcut", "task", "entry"} :
              Put(x) \in StepType
        /\ Do("disarm") \in StepType
    BY PutsDropsDoes DEF Artefact, File, Deed
  <1>2. a \in Seq(StepType) /\ b \in Seq(StepType) /\ Len(a) = 1 /\ Len(b) = 6
    BY <1>1
  <1>3. /\ a[1] = Put("dll")
        /\ b[1] = Put("exe") /\ b[2] = Put("app") /\ b[3] = Put("shortcut")
        /\ b[4] = Put("task") /\ b[5] = Put("entry") /\ b[6] = Do("disarm")
    OBVIOUS
  <1>4. InstallSteps = d
    BY DEF InstallSteps
  <1> HIDE DEF a, b
  <1>5. /\ d \in Seq(StepType) /\ Len(d) = Len(a) + 3 + Len(b)
        /\ \A i \in 1..Len(a) : d[i] = a[i]
        /\ \A i \in 1..3 : d[Len(a) + i] = RegisterSteps[i]
        /\ \A i \in 1..Len(b) : d[Len(a) + 3 + i] = b[i]
    <2>1. RegisterSteps \in Seq(StepType) /\ Len(RegisterSteps) = 3
      BY RegistrationIs
    <2> QED  BY <1>2, <2>1, Spliced, ZenonT(40)
  <1> HIDE DEF d
  <1> QED  BY <1>2, <1>3, <1>4, <1>5, RegistrationIs

LEMMA UninstallIs ==
    /\ UninstallSteps \in Seq(StepType) /\ Len(UninstallSteps) = 10
    /\ UninstallSteps[1] = Drop("task") /\ UninstallSteps[2] = Drop("entry")
    /\ UninstallSteps[3] = Drop("class") /\ UninstallSteps[4] = Drop("provider")
    /\ UninstallSteps[5] = Drop("filter") /\ UninstallSteps[6] = Drop("shortcut")
    /\ UninstallSteps[7] = Drop("app") /\ UninstallSteps[8] = Drop("dll")
    /\ UninstallSteps[9] = Drop("exe") /\ UninstallSteps[10] = Do("clear")
  <1> DEFINE a == <<Drop("task"), Drop("entry")>>
             b == <<Drop("shortcut"), Drop("app"), Drop("dll"), Drop("exe"), Do("clear")>>
             d == a \o UnregisterSteps \o b
  <1>1. /\ \A x \in {"dll", "exe", "app", "shortcut", "task", "entry"} :
              Drop(x) \in StepType
        /\ Do("clear") \in StepType
    BY PutsDropsDoes DEF Artefact, File, Deed
  <1>2. a \in Seq(StepType) /\ b \in Seq(StepType) /\ Len(a) = 2 /\ Len(b) = 5
    BY <1>1
  <1>3. /\ a[1] = Drop("task") /\ a[2] = Drop("entry")
        /\ b[1] = Drop("shortcut") /\ b[2] = Drop("app") /\ b[3] = Drop("dll")
        /\ b[4] = Drop("exe") /\ b[5] = Do("clear")
    OBVIOUS
  <1>4. UninstallSteps = d
    BY DEF UninstallSteps
  <1> HIDE DEF a, b
  <1>5. /\ d \in Seq(StepType) /\ Len(d) = Len(a) + 3 + Len(b)
        /\ \A i \in 1..Len(a) : d[i] = a[i]
        /\ \A i \in 1..3 : d[Len(a) + i] = UnregisterSteps[i]
        /\ \A i \in 1..Len(b) : d[Len(a) + 3 + i] = b[i]
    <2>1. UnregisterSteps \in Seq(StepType) /\ Len(UnregisterSteps) = 3
      BY RegistrationIs
    <2> QED  BY <1>2, <2>1, Spliced, ZenonT(40)
  <1> HIDE DEF d
  <1> QED  BY <1>2, <1>3, <1>4, <1>5, RegistrationIs

LEMMA SetupIs ==
    LET reg == Steps["register"]  unreg == Steps["unregister"] IN
    /\ reg \in Seq(StepType) /\ Len(reg) = 6
    /\ reg[1] = Do("unpack") /\ reg[2] = Put("class") /\ reg[3] = Put("provider")
    /\ reg[4] = Put("filter") /\ reg[5] = Put("task") /\ reg[6] = Do("disarm")
    /\ unreg \in Seq(StepType) /\ Len(unreg) = 6
    /\ unreg[1] = Drop("task") /\ unreg[2] = Drop("class") /\ unreg[3] = Drop("provider")
    /\ unreg[4] = Drop("filter") /\ unreg[5] = Do("clear") /\ unreg[6] = Do("erase")
  <1> DEFINE a == <<Do("unpack")>>
             b == <<Put("task"), Do("disarm")>>
             c == <<Drop("task")>>
             e == <<Do("clear"), Do("erase")>>
             d == a \o RegisterSteps \o b
             f == c \o UnregisterSteps \o e
  <1>1. /\ Put("task") \in StepType /\ Drop("task") \in StepType
        /\ \A x \in {"unpack", "disarm", "clear", "erase"} : Do(x) \in StepType
    BY PutsDropsDoes DEF Artefact, Deed
  <1>2. a \in Seq(StepType) /\ Len(a) = 1 /\ b \in Seq(StepType) /\ Len(b) = 2
    BY <1>1
  <1>9. c \in Seq(StepType) /\ Len(c) = 1 /\ e \in Seq(StepType) /\ Len(e) = 2
    BY <1>1
  <1>3. /\ a[1] = Do("unpack") /\ b[1] = Put("task") /\ b[2] = Do("disarm")
        /\ c[1] = Drop("task") /\ e[1] = Do("clear") /\ e[2] = Do("erase")
    OBVIOUS
  <1>4. Steps["register"] = d /\ Steps["unregister"] = f
    BY DEF Steps
  <1> HIDE DEF a, b, c, e
  <1>5. /\ d \in Seq(StepType) /\ Len(d) = Len(a) + 3 + Len(b)
        /\ \A i \in 1..Len(a) : d[i] = a[i]
        /\ \A i \in 1..3 : d[Len(a) + i] = RegisterSteps[i]
        /\ \A i \in 1..Len(b) : d[Len(a) + 3 + i] = b[i]
    <2>1. RegisterSteps \in Seq(StepType) /\ Len(RegisterSteps) = 3
      BY RegistrationIs
    <2> QED  BY <1>2, <2>1, Spliced, ZenonT(40)
  <1>6. /\ f \in Seq(StepType) /\ Len(f) = Len(c) + 3 + Len(e)
        /\ \A i \in 1..Len(c) : f[i] = c[i]
        /\ \A i \in 1..3 : f[Len(c) + i] = UnregisterSteps[i]
        /\ \A i \in 1..Len(e) : f[Len(c) + 3 + i] = e[i]
    <2>1. UnregisterSteps \in Seq(StepType) /\ Len(UnregisterSteps) = 3
      BY RegistrationIs
    <2> QED  BY <1>9, <2>1, Spliced, ZenonT(40)
  <1> HIDE DEF d, f
  <1>7. /\ d \in Seq(StepType) /\ Len(d) = 6
        /\ d[1] = Do("unpack") /\ d[2] = Put("class") /\ d[3] = Put("provider")
        /\ d[4] = Put("filter") /\ d[5] = Put("task") /\ d[6] = Do("disarm")
    BY <1>2, <1>3, <1>5, RegistrationIs
  <1>8. /\ f \in Seq(StepType) /\ Len(f) = 6
        /\ f[1] = Drop("task") /\ f[2] = Drop("class") /\ f[3] = Drop("provider")
        /\ f[4] = Drop("filter") /\ f[5] = Do("clear") /\ f[6] = Do("erase")
    BY <1>9, <1>3, <1>6, RegistrationIs
  <1> QED  BY <1>4, <1>7, <1>8

LEMMA ShortCommandsAre ==
    /\ Steps["install"] = InstallSteps /\ Steps["uninstall"] = UninstallSteps
    /\ Steps["schedule"] = <<Put("task")>> /\ Steps["unschedule"] = <<Drop("task")>>
    /\ Steps["seturl"] = <<Do("seturl")>> /\ Steps["enable"] = <<Do("arm")>>
    /\ Steps["disable"] = <<Do("disarm")>> /\ Steps["protect"] = <<Do("protect")>>
    /\ Steps["unprotect"] = <<Do("unprotect")>>
  BY DEF Steps

LEMMA CommandsAre ==
    Command = {"install", "uninstall", "register", "unregister", "schedule",
               "unschedule", "seturl", "enable", "disable", "protect", "unprotect"}
  BY DEF Command, Steps

LEMMA StepsTyped == \A cmd \in Command : Steps[cmd] \in Seq(StepType)
  <1>1. /\ Put("task") \in StepType /\ Drop("task") \in StepType
        /\ \A x \in {"seturl", "arm", "disarm", "protect", "unprotect"} :
              Do(x) \in StepType
    BY PutsDropsDoes DEF Artefact, Deed
  <1>2. \A cmd \in {"install", "uninstall", "register", "unregister"} :
           Steps[cmd] \in Seq(StepType)
    BY ShortCommandsAre, InstallIs, UninstallIs, SetupIs
  <1>3. \A cmd \in {"schedule", "unschedule", "seturl", "enable", "disable", "protect",
                    "unprotect"} : Steps[cmd] \in Seq(StepType)
    <2>1. \A s \in StepType : <<s>> \in Seq(StepType)
      OBVIOUS
    <2> QED  BY <1>1, <2>1, ShortCommandsAre
  <1> QED  BY <1>2, <1>3, CommandsAre

\* A process about to make this step is at one of these places.
Place(p, step, cmd, left, at) ==
    running[p].cmd = cmd /\ Len(running[p].todo) = left /\ step = at

LEMMA Places ==
    ASSUME TypeOK, Plan, NEW p \in Process, NEW step, At(p, step)
    PROVE  \/ Place(p, step, "install", 10, Put("dll"))
           \/ Place(p, step, "install", 9, Put("class"))
           \/ Place(p, step, "install", 8, Put("provider"))
           \/ Place(p, step, "install", 7, Put("filter"))
           \/ Place(p, step, "install", 6, Put("exe"))
           \/ Place(p, step, "install", 5, Put("app"))
           \/ Place(p, step, "install", 4, Put("shortcut"))
           \/ Place(p, step, "install", 3, Put("task"))
           \/ Place(p, step, "install", 2, Put("entry"))
           \/ Place(p, step, "install", 1, Do("disarm"))
           \/ Place(p, step, "uninstall", 10, Drop("task"))
           \/ Place(p, step, "uninstall", 9, Drop("entry"))
           \/ Place(p, step, "uninstall", 8, Drop("class"))
           \/ Place(p, step, "uninstall", 7, Drop("provider"))
           \/ Place(p, step, "uninstall", 6, Drop("filter"))
           \/ Place(p, step, "uninstall", 5, Drop("shortcut"))
           \/ Place(p, step, "uninstall", 4, Drop("app"))
           \/ Place(p, step, "uninstall", 3, Drop("dll"))
           \/ Place(p, step, "uninstall", 2, Drop("exe"))
           \/ Place(p, step, "uninstall", 1, Do("clear"))
           \/ Place(p, step, "register", 6, Do("unpack"))
           \/ Place(p, step, "register", 5, Put("class"))
           \/ Place(p, step, "register", 4, Put("provider"))
           \/ Place(p, step, "register", 3, Put("filter"))
           \/ Place(p, step, "register", 2, Put("task"))
           \/ Place(p, step, "register", 1, Do("disarm"))
           \/ Place(p, step, "unregister", 6, Drop("task"))
           \/ Place(p, step, "unregister", 5, Drop("class"))
           \/ Place(p, step, "unregister", 4, Drop("provider"))
           \/ Place(p, step, "unregister", 3, Drop("filter"))
           \/ Place(p, step, "unregister", 2, Do("clear"))
           \/ Place(p, step, "unregister", 1, Do("erase"))
           \/ Place(p, step, "schedule", 1, Put("task"))
           \/ Place(p, step, "unschedule", 1, Drop("task"))
           \/ Place(p, step, "seturl", 1, Do("seturl"))
           \/ Place(p, step, "enable", 1, Do("arm"))
           \/ Place(p, step, "disable", 1, Do("disarm"))
           \/ Place(p, step, "protect", 1, Do("protect"))
           \/ Place(p, step, "unprotect", 1, Do("unprotect"))
  <1> DEFINE todo == running[p].todo
             left == Len(running[p].todo)
             cmd == running[p].cmd
             list == Steps[running[p].cmd]
  <1>1. todo \in Seq(StepType) /\ todo # <<>> /\ step = Head(todo)
    BY DEF TypeOK, At
  <1>2. left \in Nat \ {0} /\ step = todo[1]
    BY <1>1
  <1>3. cmd \in Command /\ left <= Len(list) /\ step = list[Len(list) - left + 1]
    <2>1. cmd # "none"
      BY <1>1 DEF Plan, PlanOf
    <2>2. cmd \in Commands /\ left <= Len(list)
      BY <2>1 DEF Plan, PlanOf
    <2>3. \A i \in 1..left : todo[i] = list[Len(list) - left + i]
      BY <2>1 DEF Plan, PlanOf
    <2>4. 1 \in 1..left
      BY <1>2
    <2> QED  BY <1>2, <2>2, <2>3, <2>4, InstallerAssumption
  <1> HIDE DEF todo, left, list
  <1>4. CASE cmd = "install"
    <2>1. list = InstallSteps
      BY <1>4, ShortCommandsAre DEF list
    <2>2. left \in 1..10 /\ step = InstallSteps[11 - left]
      BY <1>2, <1>3, <2>1, InstallIs
    <2>3. \/ (left = 10 /\ step = Put("dll")) \/ (left = 9 /\ step = Put("class"))
          \/ (left = 8 /\ step = Put("provider")) \/ (left = 7 /\ step = Put("filter"))
          \/ (left = 6 /\ step = Put("exe")) \/ (left = 5 /\ step = Put("app"))
          \/ (left = 4 /\ step = Put("shortcut")) \/ (left = 3 /\ step = Put("task"))
          \/ (left = 2 /\ step = Put("entry")) \/ (left = 1 /\ step = Do("disarm"))
      BY <2>2, InstallIs
    <2> QED  BY <1>4, <2>3, Zenon DEF Place, left
  <1>5. CASE cmd = "uninstall"
    <2>1. list = UninstallSteps
      BY <1>5, ShortCommandsAre DEF list
    <2>2. left \in 1..10 /\ step = UninstallSteps[11 - left]
      BY <1>2, <1>3, <2>1, UninstallIs
    <2>3. \/ (left = 10 /\ step = Drop("task")) \/ (left = 9 /\ step = Drop("entry"))
          \/ (left = 8 /\ step = Drop("class")) \/ (left = 7 /\ step = Drop("provider"))
          \/ (left = 6 /\ step = Drop("filter")) \/ (left = 5 /\ step = Drop("shortcut"))
          \/ (left = 4 /\ step = Drop("app")) \/ (left = 3 /\ step = Drop("dll"))
          \/ (left = 2 /\ step = Drop("exe")) \/ (left = 1 /\ step = Do("clear"))
      BY <2>2, UninstallIs
    <2> QED  BY <1>5, <2>3, Zenon DEF Place, left
  <1>6. CASE cmd = "register"
    <2>1. list = Steps["register"]
      BY <1>6 DEF list
    <2>2. left \in 1..6 /\ step = Steps["register"][7 - left]
      BY <1>2, <1>3, <2>1, SetupIs
    <2>3. \/ (left = 6 /\ step = Do("unpack")) \/ (left = 5 /\ step = Put("class"))
          \/ (left = 4 /\ step = Put("provider")) \/ (left = 3 /\ step = Put("filter"))
          \/ (left = 2 /\ step = Put("task")) \/ (left = 1 /\ step = Do("disarm"))
      BY <2>2, SetupIs
    <2> QED  BY <1>6, <2>3, Zenon DEF Place, left
  <1>7. CASE cmd = "unregister"
    <2>1. list = Steps["unregister"]
      BY <1>7 DEF list
    <2>2. left \in 1..6 /\ step = Steps["unregister"][7 - left]
      BY <1>2, <1>3, <2>1, SetupIs
    <2>3. \/ (left = 6 /\ step = Drop("task")) \/ (left = 5 /\ step = Drop("class"))
          \/ (left = 4 /\ step = Drop("provider")) \/ (left = 3 /\ step = Drop("filter"))
          \/ (left = 2 /\ step = Do("clear")) \/ (left = 1 /\ step = Do("erase"))
      BY <2>2, SetupIs
    <2> QED  BY <1>7, <2>3, Zenon DEF Place, left
  <1>8. CASE cmd \in {"schedule", "unschedule", "seturl", "enable", "disable", "protect",
                      "unprotect"}
    <2>1. Len(list) = 1
      BY <1>8, ShortCommandsAre DEF list
    <2>2. left = 1 /\ step = list[1]
      BY <1>2, <1>3, <2>1
    <2> QED  BY <1>8, <2>2, ShortCommandsAre DEF Place, left, list
  <1> QED  BY <1>3, <1>4, <1>5, <1>6, <1>7, <1>8, CommandsAre

-----------------------------------------------------------------------------
(* How a process goes on, gives up and begins.                             *)

RunType == [cmd: Command \union {"none"}, arg: Argument, todo: Seq(StepType)]

OthersRun(p) == \A q \in Process \ {p} : running'[q] = running[q]

LEMMA GoesOn ==
    ASSUME TypeOK, Plan, NEW p \in Process, NEW n \in 1..3,
           n <= Len(running[p].todo), Proceed(p, n)
    PROVE  /\ running' \in [Process -> RunType] /\ Plan'
           /\ OthersRun(p)
           /\ running'[p].cmd = running[p].cmd /\ running'[p].arg = running[p].arg
           /\ running'[p].cmd # "none"
           /\ Len(running'[p].todo) = Len(running[p].todo) - n
  <1> DEFINE todo == running[p].todo
             rest == SubSeq(todo, n + 1, Len(todo))
             list == Steps[running[p].cmd]
  <1>1. running \in [Process -> RunType] /\ running[p] \in RunType
    BY DEF TypeOK, RunType
  <1>2. todo \in Seq(StepType) /\ Len(todo) \in Nat /\ n \in Nat /\ n <= Len(todo) /\ n >= 1
    BY <1>1 DEF RunType
  <1>3. /\ rest \in Seq(StepType) /\ Len(rest) = Len(todo) - n
        /\ \A i \in 1..Len(rest) : rest[i] = todo[n + i]
    <2> HIDE DEF todo
    <2>1. \A i \in n + 1..Len(todo) : todo[i] \in StepType
      BY <1>2
    <2>2. /\ rest \in Seq(StepType)
          /\ Len(rest) = IF n + 1 <= Len(todo) THEN Len(todo) - (n + 1) + 1 ELSE 0
          /\ \A i \in 1..Len(todo) - (n + 1) + 1 : rest[i] = todo[(n + 1) + i - 1]
      BY <1>2, <2>1, SubSeqProperties
    <2> HIDE DEF rest
    <2>3. Len(rest) = Len(todo) - n
      BY <1>2, <2>2
    <2>4. ASSUME NEW i \in 1..Len(rest) PROVE rest[i] = todo[n + i]
      <3>1. i \in 1..Len(todo) - (n + 1) + 1 /\ (n + 1) + i - 1 = n + i
        BY <1>2, <2>3
      <3> QED  BY <2>2, <3>1
    <2> QED  BY <2>2, <2>3, <2>4
  <1>4. running' = [running EXCEPT ![p].todo = rest]
    BY DEF Proceed
  <1> HIDE DEF todo, rest
  <1>5. /\ running' \in [Process -> RunType] /\ OthersRun(p)
        /\ running'[p].cmd = running[p].cmd /\ running'[p].arg = running[p].arg
        /\ running'[p].todo = rest
    BY <1>1, <1>3, <1>4 DEF RunType, OthersRun
  <1>6. running[p].cmd # "none" /\ PlanOf(running[p])
    <2>1. todo # <<>>
      BY <1>2
    <2> QED  BY <2>1 DEF Plan, PlanOf, todo
  <1>7. /\ running[p].cmd \in Commands /\ Len(todo) <= Len(list)
        /\ \A i \in 1..Len(todo) : todo[i] = list[Len(list) - Len(todo) + i]
    BY <1>6 DEF PlanOf, todo
  <1>8. list \in Seq(StepType)
    BY <1>7, StepsTyped, InstallerAssumption
  <1> HIDE DEF list
  <1>9. /\ Len(rest) <= Len(list)
        /\ \A i \in 1..Len(rest) : rest[i] = list[Len(list) - Len(rest) + i]
    <2>0. Len(list) \in Nat
      BY <1>8
    <2>1. Len(rest) <= Len(list) /\ Len(rest) \in Nat
      BY <1>2, <1>3, <1>7, <2>0
    <2>2. ASSUME NEW i \in 1..Len(rest)
          PROVE  rest[i] = list[Len(list) - Len(rest) + i]
      <3>1. n + i \in 1..Len(todo)
        BY <1>2, <1>3
      <3>2. Len(list) - Len(todo) + (n + i) = Len(list) - Len(rest) + i
        BY <1>2, <1>3, <2>0
      <3>3. todo[n + i] = list[Len(list) - Len(todo) + (n + i)]
        BY <1>7, <3>1
      <3> QED  BY <1>3, <3>2, <3>3
    <2> QED  BY <2>1, <2>2
  <1>10. PlanOf(running'[p])
    BY <1>5, <1>6, <1>7, <1>9 DEF PlanOf, list
  <1>11. Plan'
    BY <1>5, <1>10 DEF Plan, OthersRun
  <1> QED  BY <1>3, <1>5, <1>6, <1>11 DEF todo

LEMMA GoesIdle ==
    ASSUME TypeOK, Plan, NEW p \in Process, running' = [running EXCEPT ![p] = Idle]
    PROVE  /\ running' \in [Process -> RunType] /\ Plan'
           /\ OthersRun(p) /\ running'[p] = Idle
  <1>1. Idle \in RunType
    <2>1. <<>> \in Seq(StepType) /\ "" \in Argument
      BY DEF Argument
    <2> QED  BY <2>1 DEF Idle, RunType
  <1>2. running' \in [Process -> RunType] /\ OthersRun(p) /\ running'[p] = Idle
    BY <1>1 DEF TypeOK, RunType, OthersRun
  <1>3. PlanOf(running'[p])
    BY <1>2 DEF PlanOf, Idle
  <1>4. Plan'
    BY <1>2, <1>3 DEF Plan, OthersRun
  <1> QED  BY <1>2, <1>4

LEMMA Begins ==
    ASSUME TypeOK, Plan, NEW p \in Process, NEW cmd \in Commands, NEW arg \in Argument,
           Start(p, cmd, arg)
    PROVE  /\ running' \in [Process -> RunType] /\ Plan'
           /\ OthersRun(p) /\ running'[p].cmd = cmd
           /\ Len(running'[p].todo) = Len(Steps[cmd])
  <1> DEFINE run == [cmd |-> cmd, arg |-> Kept(cmd, arg), todo |-> Steps[cmd]]
  <1>1. cmd \in Command /\ Steps[cmd] \in Seq(StepType) /\ cmd # "none"
    BY InstallerAssumption, StepsTyped, CommandsAre
  <1>2. /\ run \in RunType /\ run.cmd = cmd /\ run.todo = Steps[cmd]
        /\ run.arg = Kept(cmd, arg)
    <2>1. Kept(cmd, arg) \in Argument
      BY DEF Kept, Argument
    <2> QED  BY <1>1, <2>1 DEF RunType
  <1>3. running' = [running EXCEPT ![p] = run]
    BY DEF Start
  <1> HIDE DEF run
  <1>4. running' \in [Process -> RunType] /\ OthersRun(p) /\ running'[p] = run
    BY <1>2, <1>3 DEF TypeOK, RunType, OthersRun
  <1>5. cmd = "protect" => Kept(cmd, arg) \in Code
    BY DEF Start, Permitted, NeedsCode, Argument, Kept
  <1>6. PlanOf(run)
    <2>1. Len(Steps[cmd]) \in Nat
      BY <1>1
    <2>2. /\ Len(Steps[cmd]) <= Len(Steps[cmd])
          /\ \A i \in 1..Len(Steps[cmd]) : Len(Steps[cmd]) - Len(Steps[cmd]) + i = i
      BY <2>1
    <2> QED  BY <1>1, <1>2, <1>5, <2>2 DEF PlanOf
  <1>7. Plan'
    BY <1>4, <1>6 DEF Plan, OthersRun
  <1> QED  BY <1>2, <1>4, <1>7

-----------------------------------------------------------------------------
(* Where a process is that is about to make a certain step.                *)

AtPlace(p, cmd, left) == running[p].cmd = cmd /\ Len(running[p].todo) = left

LEMMA WhereItPuts ==
    ASSUME TypeOK, Plan, NEW p \in Process
    PROVE  /\ At(p, Put("dll")) => AtPlace(p, "install", 10)
           /\ At(p, Put("class")) =>
                 AtPlace(p, "install", 9) \/ AtPlace(p, "register", 5)
           /\ At(p, Put("provider")) =>
                 AtPlace(p, "install", 8) \/ AtPlace(p, "register", 4)
           /\ At(p, Put("filter")) =>
                 AtPlace(p, "install", 7) \/ AtPlace(p, "register", 3)
           /\ At(p, Put("exe")) => AtPlace(p, "install", 6)
           /\ At(p, Put("app")) => AtPlace(p, "install", 5)
           /\ At(p, Put("shortcut")) => AtPlace(p, "install", 4)
           /\ At(p, Put("entry")) => AtPlace(p, "install", 2)
           /\ At(p, Put("task")) =>
                 \/ AtPlace(p, "install", 3) \/ AtPlace(p, "register", 2)
                 \/ AtPlace(p, "schedule", 1)
  <1>1. ASSUME NEW x, At(p, Put(x)),
               x \in {"dll", "class", "provider", "filter", "exe", "app", "shortcut",
                      "entry", "task"}
        PROVE  \/ x = "dll" /\ AtPlace(p, "install", 10)
               \/ x = "class" /\ (AtPlace(p, "install", 9) \/ AtPlace(p, "register", 5))
               \/ x = "provider" /\ (AtPlace(p, "install", 8) \/ AtPlace(p, "register", 4))
               \/ x = "filter" /\ (AtPlace(p, "install", 7) \/ AtPlace(p, "register", 3))
               \/ x = "exe" /\ AtPlace(p, "install", 6)
               \/ x = "app" /\ AtPlace(p, "install", 5)
               \/ x = "shortcut" /\ AtPlace(p, "install", 4)
               \/ x = "entry" /\ AtPlace(p, "install", 2)
               \/ x = "task" /\ (\/ AtPlace(p, "install", 3) \/ AtPlace(p, "register", 2)
                                 \/ AtPlace(p, "schedule", 1))
    BY <1>1, Places, StepsDiffer DEF Place, AtPlace
  <1> QED  BY <1>1

LEMMA WhereItDrops ==
    ASSUME TypeOK, Plan, NEW p \in Process
    PROVE  /\ At(p, Drop("class")) =>
                 AtPlace(p, "uninstall", 8) \/ AtPlace(p, "unregister", 5)
           /\ At(p, Drop("provider")) =>
                 AtPlace(p, "uninstall", 7) \/ AtPlace(p, "unregister", 4)
           /\ At(p, Drop("filter")) =>
                 AtPlace(p, "uninstall", 6) \/ AtPlace(p, "unregister", 3)
           /\ At(p, Drop("shortcut")) => AtPlace(p, "uninstall", 5)
           /\ At(p, Drop("entry")) => AtPlace(p, "uninstall", 9)
           /\ At(p, Drop("app")) => AtPlace(p, "uninstall", 4)
           /\ At(p, Drop("dll")) => AtPlace(p, "uninstall", 3)
           /\ At(p, Drop("exe")) => AtPlace(p, "uninstall", 2)
           /\ At(p, Drop("task")) =>
                 \/ AtPlace(p, "uninstall", 10) \/ AtPlace(p, "unregister", 6)
                 \/ AtPlace(p, "unschedule", 1)
  <1>1. ASSUME NEW x, At(p, Drop(x)),
               x \in {"class", "provider", "filter", "shortcut", "entry", "app", "dll",
                      "exe", "task"}
        PROVE  \/ x = "class" /\ (AtPlace(p, "uninstall", 8) \/ AtPlace(p, "unregister", 5))
               \/ x = "provider" /\ (AtPlace(p, "uninstall", 7) \/ AtPlace(p, "unregister", 4))
               \/ x = "filter" /\ (AtPlace(p, "uninstall", 6) \/ AtPlace(p, "unregister", 3))
               \/ x = "shortcut" /\ AtPlace(p, "uninstall", 5)
               \/ x = "entry" /\ AtPlace(p, "uninstall", 9)
               \/ x = "app" /\ AtPlace(p, "uninstall", 4)
               \/ x = "dll" /\ AtPlace(p, "uninstall", 3)
               \/ x = "exe" /\ AtPlace(p, "uninstall", 2)
               \/ x = "task" /\ (\/ AtPlace(p, "uninstall", 10) \/ AtPlace(p, "unregister", 6)
                                 \/ AtPlace(p, "unschedule", 1))
    BY <1>1, Places, StepsDiffer DEF Place, AtPlace
  <1> QED  BY <1>1

LEMMA WhereItDoes ==
    ASSUME TypeOK, Plan, NEW p \in Process
    PROVE  /\ At(p, Do("unpack")) => AtPlace(p, "register", 6)
           /\ At(p, Do("erase")) => AtPlace(p, "unregister", 1)
           /\ At(p, Do("clear")) =>
                 AtPlace(p, "uninstall", 1) \/ AtPlace(p, "unregister", 2)
           /\ At(p, Do("disarm")) =>
                 \/ AtPlace(p, "install", 1) \/ AtPlace(p, "register", 1)
                 \/ AtPlace(p, "disable", 1)
           /\ At(p, Do("arm")) => AtPlace(p, "enable", 1)
           /\ At(p, Do("seturl")) => AtPlace(p, "seturl", 1)
           /\ At(p, Do("protect")) => AtPlace(p, "protect", 1)
           /\ At(p, Do("unprotect")) => AtPlace(p, "unprotect", 1)
  <1>1. ASSUME NEW x \in Deed, At(p, Do(x))
        PROVE  \/ x = "unpack" /\ AtPlace(p, "register", 6)
               \/ x = "erase" /\ AtPlace(p, "unregister", 1)
               \/ x = "clear" /\ (AtPlace(p, "uninstall", 1) \/ AtPlace(p, "unregister", 2))
               \/ x = "disarm" /\ (\/ AtPlace(p, "install", 1) \/ AtPlace(p, "register", 1)
                                   \/ AtPlace(p, "disable", 1))
               \/ x = "arm" /\ AtPlace(p, "enable", 1)
               \/ x = "seturl" /\ AtPlace(p, "seturl", 1)
               \/ x = "protect" /\ AtPlace(p, "protect", 1)
               \/ x = "unprotect" /\ AtPlace(p, "unprotect", 1)
    BY <1>1, Places, StepsDiffer DEF Place, AtPlace
  <1> QED  BY <1>1 DEF Deed

-----------------------------------------------------------------------------
(* Types, plans and late schtasks.exe, for any number of processes.        *)

\* What a step does to the process that makes it.
Advances(p, n) ==
    /\ OthersRun(p)
    /\ running'[p].cmd = running[p].cmd /\ running'[p].cmd # "none"
    /\ Len(running'[p].todo) = Len(running[p].todo) - n

LEMMA OneOn ==
    ASSUME TypeOK, Plan, NEW p \in Process, NEW step, At(p, step), Proceed(p, 1)
    PROVE  running' \in [Process -> RunType] /\ Plan' /\ Advances(p, 1)
  <1>1. running[p].todo \in Seq(StepType) /\ running[p].todo # <<>>
    BY DEF TypeOK, At
  <1>2. 1 <= Len(running[p].todo)
    BY <1>1
  <1> QED  BY <1>2, GoesOn DEF Advances

LEMMA Skips ==
    ASSUME TypeOK, Plan, NEW p \in Process
    PROVE  /\ At(p, Put("app")) /\ Proceed(p, 2) =>
                 running' \in [Process -> RunType] /\ Plan' /\ Advances(p, 2)
           /\ At(p, Drop("class")) /\ Proceed(p, Len(UnregisterSteps)) =>
                 running' \in [Process -> RunType] /\ Plan' /\ Advances(p, 3)
  <1>1. ASSUME At(p, Put("app")), Proceed(p, 2)
        PROVE  running' \in [Process -> RunType] /\ Plan' /\ Advances(p, 2)
    <2>0. AtPlace(p, "install", 5)
      BY <1>1, WhereItPuts
    <2>1. 2 <= Len(running[p].todo)
      BY <2>0 DEF AtPlace
    <2> QED  BY <1>1, <2>1, GoesOn DEF Advances
  <1>2. ASSUME At(p, Drop("class")), Proceed(p, Len(UnregisterSteps))
        PROVE  running' \in [Process -> RunType] /\ Plan' /\ Advances(p, 3)
    <2>0. AtPlace(p, "uninstall", 8) \/ AtPlace(p, "unregister", 5)
      BY <1>2, WhereItDrops
    <2>1. 3 <= Len(running[p].todo)
      <3>1. Len(running[p].todo) = 8 \/ Len(running[p].todo) = 5
        BY <2>0 DEF AtPlace
      <3> QED  BY <3>1, SMTT(40)
    <2>2. Len(UnregisterSteps) = 3
      BY RegistrationIs
    <2> QED  BY <1>2, <2>1, <2>2, GoesOn DEF Advances
  <1> QED  BY <1>1, <1>2

LEMMA StepRuns ==
    ASSUME TypeOK, Plan, NEW p \in Process, Step(p)
    PROVE  running' \in [Process -> RunType] /\ Plan'
  <1>1. ASSUME NEW step, At(p, step), Proceed(p, 1)
        PROVE  running' \in [Process -> RunType] /\ Plan'
    BY <1>1, OneOn
  <1>2. CASE GiveUp(p)
    BY <1>2, GoesIdle DEF GiveUp
  <1>3. CASE CopyLibrary(p)
    BY <1>1, <1>2, <1>3 DEF CopyLibrary
  <1>4. CASE CopyInstaller(p) \/ Unpack(p) \/ Erase(p)
    BY <1>1, <1>4 DEF CopyInstaller, Unpack, Erase
  <1>5. CASE CopyApp(p)
    BY <1>1, <1>5, Skips DEF CopyApp
  <1>6. CASE \E k \in Key : WriteKey(p, k) \/ DeleteKey(p, k)
    BY <1>1, <1>2, <1>6 DEF WriteKey, DeleteKey
  <1>7. CASE \E x \in {"shortcut", "entry"} : PutQuietly(p, x) \/ DeleteQuietly(p, x)
    BY <1>1, <1>7 DEF PutQuietly, DeleteQuietly
  <1>8. CASE \E step \in {Put("task"), Drop("task")} : RunSchtasks(p, step)
    BY <1>1, <1>8 DEF RunSchtasks
  <1>9. CASE LoadFails(p)
    BY <1>9, Skips DEF LoadFails
  <1>10. CASE \E f \in File : DeleteFile(p, f)
    BY <1>1, <1>10 DEF DeleteFile
  <1>11. CASE SetLockEnabled(p) \/ SetUninstallCode(p) \/ ClearUninstallCode(p)
              \/ SetPortalUrl(p) \/ RemoveAll(p)
    BY <1>1, <1>11 DEF SetLockEnabled, SetUninstallCode, ClearUninstallCode,
                       SetPortalUrl, RemoveAll, Settle
  <1> QED
    BY <1>3, <1>4, <1>5, <1>6, <1>7, <1>8, <1>9, <1>10, <1>11 DEF Step

\* What lies on the machine, the settings and schtasks.exe.
MachineType ==
    /\ present \in SUBSET Artefact
    /\ doomed \in SUBSET File
    /\ settings \in [lock: BOOLEAN, code: Code \union {"none"}, url: BOOLEAN]
    /\ late \in SUBSET {Put("task"), Drop("task")}
    /\ outcome \in {"none", "uninstall"}
    /\ spoiled \in SUBSET Artefact
    /\ LateSpoils

LEMMA ArtefactsAre ==
    /\ File \subseteq Artefact /\ Key \subseteq Artefact
    /\ {"shortcut", "task", "entry"} \subseteq Artefact
    /\ {"task"} \intersect File = {} /\ {"task"} \intersect Key = {}
    /\ "filter" \in Key /\ "filter" # "task"
    /\ "dll" \in File /\ "exe" \in File /\ "app" \in File
  BY DEF Artefact, File, Key

LEMMA StepTypes ==
    ASSUME TypeOK, Plan, LateSpoils, NEW p \in Process, Step(p)
    PROVE  MachineType'
  <1>1. MachineType
    BY DEF MachineType, TypeOK
  <1>2. ASSUME NEW fs \in SUBSET Artefact, PutBack(fs), "task" \notin fs,
               UNCHANGED <<doomed, settings, late, outcome>>
        PROVE  MachineType'
    BY <1>1, <1>2, ArtefactsAre DEF MachineType, PutBack, LateSpoils
  <1>3. CASE UNCHANGED <<present, doomed, settings, late, outcome, spoiled>>
    BY <1>1, <1>3 DEF MachineType, LateSpoils
  <1>12. ASSUME NEW f \in File, CopyFails(f), UNCHANGED <<doomed, settings, late, outcome>>,
                spoiled' = spoiled \/ spoiled' = spoiled \union ({f} \ (present' \ doomed))
         PROVE  MachineType'
    <2>1. present' \in SUBSET Artefact /\ spoiled' \in SUBSET Artefact
      BY <1>1, <1>12, ArtefactsAre DEF CopyFails, MachineType
    <2>2. spoiled \subseteq spoiled'
      BY <1>12
    <2> QED  BY <1>1, <1>12, <2>1, <2>2 DEF MachineType, LateSpoils
  <1>4. CASE CopyLibrary(p) \/ CopyInstaller(p) \/ CopyApp(p) \/ Unpack(p)
    <2>2. "dll" \in File /\ "exe" \in File /\ "app" \in File
      BY DEF File
    <2>1. /\ {"dll"} \in SUBSET Artefact /\ {"exe"} \in SUBSET Artefact
          /\ {"app"} \in SUBSET Artefact /\ File \union {"shortcut"} \in SUBSET Artefact
          /\ "task" \notin File \union {"shortcut"}
      BY DEF Artefact, File
    <2> QED  BY <1>2, <1>4, <1>12, <2>1, <2>2
      DEF CopyLibrary, CopyInstaller, CopyApp, Unpack, CopyMissed
  <1>5. CASE \E k \in Key : WriteKey(p, k) \/ DeleteKey(p, k)
    BY <1>1, <1>5, ArtefactsAre DEF WriteKey, DeleteKey, MachineType, LateSpoils
  <1>6. CASE \E x \in {"shortcut", "entry"} : PutQuietly(p, x) \/ DeleteQuietly(p, x)
    BY <1>1, <1>6, ArtefactsAre DEF PutQuietly, DeleteQuietly, MachineType, LateSpoils
  <1>7. CASE \E step \in {Put("task"), Drop("task")} : RunSchtasks(p, step)
    BY <1>1, <1>7, ArtefactsAre DEF RunSchtasks, Schedule, MachineType, LateSpoils
  <1>8. CASE LoadFails(p)
    BY <1>1, <1>8, ArtefactsAre DEF LoadFails, MachineType, LateSpoils
  <1>9. CASE Erase(p) \/ \E f \in File : DeleteFile(p, f)
    BY <1>1, <1>9 DEF Erase, DeleteFile, MachineType, LateSpoils
  <1>10. ASSUME NEW new \in [lock: BOOLEAN, code: Code \union {"none"}, url: BOOLEAN],
                NEW x, Settle(p, x, new)
         PROVE  MachineType'
    BY <1>1, <1>10 DEF Settle, MachineType, LateSpoils
  <1>11. CASE SetLockEnabled(p) \/ SetUninstallCode(p) \/ ClearUninstallCode(p)
              \/ SetPortalUrl(p) \/ RemoveAll(p)
    <2>1. settings \in [lock: BOOLEAN, code: Code \union {"none"}, url: BOOLEAN]
      BY <1>1 DEF MachineType
    <2>2. CASE SetUninstallCode(p)
      <3>1. running[p].arg \in Code
        BY <2>2, WhereItDoes DEF SetUninstallCode, Settle, AtPlace, Plan, PlanOf
      <3>2. [settings EXCEPT !.code = running[p].arg]
               \in [lock: BOOLEAN, code: Code \union {"none"}, url: BOOLEAN]
        BY <2>1, <3>1
      <3> QED  BY <1>10, <2>1, <2>2, <3>2 DEF SetUninstallCode
    <2>3. /\ [settings EXCEPT !.lock = TRUE]
                \in [lock: BOOLEAN, code: Code \union {"none"}, url: BOOLEAN]
          /\ [settings EXCEPT !.lock = FALSE]
                \in [lock: BOOLEAN, code: Code \union {"none"}, url: BOOLEAN]
          /\ [settings EXCEPT !.url = TRUE]
                \in [lock: BOOLEAN, code: Code \union {"none"}, url: BOOLEAN]
          /\ [settings EXCEPT !.code = "none"]
                \in [lock: BOOLEAN, code: Code \union {"none"}, url: BOOLEAN]
          /\ NoSettings \in [lock: BOOLEAN, code: Code \union {"none"}, url: BOOLEAN]
      BY <2>1 DEF NoSettings
    <2>4. CASE SetLockEnabled(p) \/ ClearUninstallCode(p) \/ SetPortalUrl(p) \/ RemoveAll(p)
      BY <1>10, <2>3, <2>4 DEF SetLockEnabled, ClearUninstallCode, SetPortalUrl, RemoveAll
    <2> QED  BY <1>11, <2>2, <2>4
  <1> QED
    BY <1>4, <1>5, <1>6, <1>7, <1>8, <1>9, <1>11 DEF Step

LEMMA TypedInit == Init => TInv
  <1>1. <<>> \in Seq(StepType) /\ "" \in Argument
    BY DEF Argument
  <1>2. Idle \in RunType
    BY <1>1 DEF Idle, RunType
  <1>3. PlanOf(Idle)
    BY DEF PlanOf, Idle
  <1> SUFFICES ASSUME Init PROVE TInv
    OBVIOUS
  <1>4. running \in [Process -> RunType] /\ Plan
    BY <1>2, <1>3 DEF Init, Plan
  <1>5. settings \in [lock: BOOLEAN, code: Code \union {"none"}, url: BOOLEAN]
    BY DEF Init, NoSettings
  <1> QED  BY <1>4, <1>5 DEF Init, TInv, TypeOK, LateSpoils, RunType

LEMMA TypedStep == TInv /\ [Next]_vars => TInv'
  <1> SUFFICES ASSUME TInv, [Next]_vars PROVE TInv'
    OBVIOUS
  <1>1. TypeOK /\ Plan /\ LateSpoils /\ MachineType
    BY DEF TInv, MachineType, TypeOK
  <1>2. MachineType' /\ running' \in [Process -> RunType] /\ Plan' => TInv'
    BY DEF MachineType, TInv, TypeOK, RunType
  <1>3. ASSUME NEW p \in Process, Step(p) PROVE TInv'
    BY <1>1, <1>2, <1>3, StepRuns, StepTypes
  <1>4. ASSUME NEW p \in Process, NEW cmd \in Commands, NEW arg \in Argument,
               Start(p, cmd, arg)
        PROVE  TInv'
    <2>1. MachineType'
      BY <1>1, <1>4 DEF Start, MachineType, LateSpoils
    <2> QED  BY <1>1, <1>2, <1>4, <2>1, Begins
  <1>5. ASSUME NEW p \in Process, Finish(p) \/ Kill(p) PROVE TInv'
    <2>1. running' = [running EXCEPT ![p] = Idle]
      BY <1>5 DEF Finish, Kill
    <2>2. EndsAtFilter({p}) \subseteq {"filter"} /\ {"filter"} \subseteq Artefact
      BY DEF EndsAtFilter, Artefact, Key
    <2>3. running[p].cmd \in Command \union {"none"}
      BY <1>1 DEF TypeOK
    <2>4. MachineType'
      BY <1>1, <1>5, <2>2, <2>3 DEF Finish, Kill, MachineType, LateSpoils
    <2> QED  BY <1>1, <1>2, <2>1, <2>4, GoesIdle
  <1>6. ASSUME NEW step \in late, SchtasksEnds(step) PROVE TInv'
    <2>1. MachineType'
      BY <1>1, <1>6, ArtefactsAre DEF SchtasksEnds, Schedule, MachineType, LateSpoils
    <2>2. running' = running
      BY <1>6 DEF SchtasksEnds
    <2> QED  BY <1>1, <1>2, <2>1, <2>2 DEF TypeOK, RunType, Plan
  <1>7. CASE Restart
    <2>1. EndsAtFilter(Process) \subseteq {"filter"} /\ {"filter"} \subseteq Artefact
      BY DEF EndsAtFilter, Artefact, Key
    <2>2. MachineType'
      BY <1>1, <1>7, <2>1 DEF Restart, MachineType, LateSpoils
    <2>3. Idle \in RunType /\ PlanOf(Idle)
      <3>1. <<>> \in Seq(StepType) /\ "" \in Argument
        BY DEF Argument
      <3> QED  BY <3>1 DEF Idle, RunType, PlanOf
    <2>4. running' \in [Process -> RunType] /\ Plan'
      BY <1>7, <2>3 DEF Restart, Plan
    <2> QED  BY <1>2, <2>2, <2>4
  <1>8. CASE UNCHANGED vars
    BY <1>1, <1>8 DEF vars, TInv, TypeOK, Plan, LateSpoils
  <1> QED  BY <1>3, <1>4, <1>5, <1>6, <1>7, <1>8 DEF Next

\* Every variable keeps its type, for any number of installers at once.
THEOREM TypeCorrect == Spec => []TypeOK
  <1>1. TInv => TypeOK
    BY DEF TInv
  <1> QED  BY <1>1, TypedInit, TypedStep, PTL DEF Spec

-----------------------------------------------------------------------------
(* One installer at a time: what the machine is like at each of its steps. *)

LEMMA KeysAre ==
    \A S : S \intersect Key = {} <=> "class" \notin S /\ "provider" \notin S
                                     /\ "filter" \notin S
  BY DEF Key

\* What the invariant says of the one process, and of the machine beside it.
Core(p) ==
    /\ Installing(p) /\ Removing(p)
    /\ "filter" \in present /\ "provider" \notin present =>
           \/ "filter" \in spoiled
           \/ In(p, "uninstall", 6, 6) \/ In(p, "unregister", 3, 3)
    /\ present \intersect Key # {} => Stays("dll")
    /\ "schedule" \notin Commands /\ "task" \in present =>
           Stays("exe") \/ "task" \in spoiled

LEMMA NoPlace ==
    ASSUME TInv, NEW p \in Process, GiveUp(p)
    PROVE  running'[p].cmd = "none"
  <1>1. running'[p] = Idle
    BY GoesIdle DEF TInv, GiveUp
  <1>2. Idle.cmd = "none"
    BY DEF Idle
  <1> QED  BY <1>1, <1>2, Zenon

\* A process that does none of the four long commands is bound by nothing.
LEMMA ElsewhereKeeps ==
    ASSUME TInv, NEW p \in Process, Core(p), UNCHANGED <<present, doomed, spoiled>>,
           running'[p].cmd \notin {"install", "uninstall", "register", "unregister"},
           ~(In(p, "uninstall", 6, 6) \/ In(p, "unregister", 3, 3))
    PROVE  Core(p)'
  BY DEF Core, Installing, Removing, In, Stays

LEMMA CopyLibraryKeeps ==
    ASSUME TInv, NEW p \in Process, Core(p), CopyLibrary(p)
    PROVE  Core(p)'
  <1>1. At(p, Put("dll")) /\ UNCHANGED <<doomed>>
    BY DEF CopyLibrary
  <1>2. AtPlace(p, "install", 10)
    BY <1>1, WhereItPuts DEF TInv
  <1>3. CASE PutBack({"dll"}) /\ Proceed(p, 1)
    <2>1. Advances(p, 1)
      BY <1>1, <1>3, OneOn DEF TInv
    <2>2. AtPlace(p, "install", 9)'
      BY <1>2, <2>1 DEF Advances, AtPlace
    <2> QED  BY <1>1, <1>2, <1>3, <2>2, KeysAre
      DEF Core, Installing, Removing, In, Stays, KeysGone, TaskGone, Leaves, AtPlace, PutBack
  <1>4. CASE CopyMissed("dll") /\ GiveUp(p)
    <2>1. running'[p].cmd = "none"
      BY <1>4, NoPlace
    <2>2. Stays("dll")'
      BY <1>1, <1>4 DEF CopyMissed, Stays
    <2>3. present' \in {present, present \ {"dll"}} /\ spoiled \subseteq spoiled'
      BY <1>4 DEF CopyMissed, CopyFails
    <2> QED  BY <1>1, <1>2, <2>1, <2>2, <2>3, KeysAre
      DEF Core, Installing, Removing, In, Stays, AtPlace
  <1> QED  BY <1>3, <1>4 DEF CopyLibrary

LEMMA CopyInstallerKeeps ==
    ASSUME TInv, NEW p \in Process, Core(p), CopyInstaller(p)
    PROVE  Core(p)'
  <1>1. At(p, Put("exe")) /\ UNCHANGED <<doomed>>
    BY DEF CopyInstaller
  <1>2. AtPlace(p, "install", 6)
    BY <1>1, WhereItPuts DEF TInv
  <1>3. CASE PutBack({"exe"}) /\ Proceed(p, 1)
    <2>1. Advances(p, 1)
      BY <1>1, <1>3, OneOn DEF TInv
    <2>2. AtPlace(p, "install", 5)'
      BY <1>2, <2>1 DEF Advances, AtPlace
    <2> QED  BY <1>1, <1>2, <1>3, <2>2, KeysAre
      DEF Core, Installing, Removing, In, Stays, KeysGone, TaskGone, Leaves, AtPlace, PutBack
  <1>4. CASE CopyMissed("exe") /\ Proceed(p, 1)
    <2>1. Advances(p, 1)
      BY <1>1, <1>4, OneOn DEF TInv
    <2>2. AtPlace(p, "install", 5)'
      BY <1>2, <2>1 DEF Advances, AtPlace
    <2>3. Stays("exe")'
      BY <1>1, <1>4 DEF CopyMissed, Stays
    <2>4. present' \in {present, present \ {"exe"}} /\ spoiled \subseteq spoiled'
      BY <1>4 DEF CopyMissed, CopyFails
    <2> QED  BY <1>1, <1>2, <2>2, <2>3, <2>4, KeysAre
      DEF Core, Installing, Removing, In, Stays, AtPlace
  <1> QED  BY <1>3, <1>4 DEF CopyInstaller

LEMMA CopyAppKeeps ==
    ASSUME TInv, NEW p \in Process, Core(p), CopyApp(p)
    PROVE  Core(p)'
  <1>1. At(p, Put("app")) /\ UNCHANGED <<doomed>>
    BY DEF CopyApp
  <1>2. AtPlace(p, "install", 5)
    BY <1>1, WhereItPuts DEF TInv
  <1>3. CASE PutBack({"app"}) /\ Proceed(p, 1)
    <2>1. Advances(p, 1)
      BY <1>1, <1>3, OneOn DEF TInv
    <2>2. AtPlace(p, "install", 4)'
      BY <1>2, <2>1 DEF Advances, AtPlace
    <2> QED  BY <1>1, <1>2, <1>3, <2>2, KeysAre
      DEF Core, Installing, Removing, In, Stays, KeysGone, TaskGone, Leaves, AtPlace, PutBack
  <1>4. CASE CopyFails("app") /\ UNCHANGED spoiled /\ Proceed(p, 2)
    <2>1. Advances(p, 2)
      BY <1>1, <1>4, Skips DEF TInv
    <2>2. AtPlace(p, "install", 3)'
      BY <1>2, <2>1 DEF Advances, AtPlace
    <2>3. present' \in {present, present \ {"app"}} /\ spoiled' = spoiled
      BY <1>4 DEF CopyFails
    <2> QED  BY <1>1, <1>2, <2>2, <2>3, KeysAre
      DEF Core, Installing, Removing, In, Stays, AtPlace
  <1> QED  BY <1>3, <1>4 DEF CopyApp

LEMMA UnpackKeeps ==
    ASSUME TInv, NEW p \in Process, Core(p), Unpack(p)
    PROVE  Core(p)'
  <1>1. At(p, Do("unpack")) /\ UNCHANGED <<doomed>>
    BY DEF Unpack
  <1>2. AtPlace(p, "register", 6)
    BY <1>1, WhereItDoes DEF TInv
  <1>3. CASE PutBack(File \union {"shortcut"}) /\ Proceed(p, 1)
    <2>1. Advances(p, 1)
      BY <1>1, <1>3, OneOn DEF TInv
    <2>2. AtPlace(p, "register", 5)'
      BY <1>2, <2>1 DEF Advances, AtPlace
    <2> QED  BY <1>1, <1>2, <1>3, <2>2, KeysAre
      DEF Core, Installing, Removing, In, Stays, KeysGone, TaskGone, Leaves, AtPlace, PutBack, File
  <1> QED  BY <1>3 DEF Unpack

LEMMA WriteClassKeeps ==
    ASSUME TInv, NEW p \in Process, Core(p), WriteKey(p, "class")
    PROVE  Core(p)'
  <1>1. At(p, Put("class")) /\ UNCHANGED <<doomed>>
    BY DEF WriteKey
  <1>2. AtPlace(p, "install", 9) \/ AtPlace(p, "register", 5)
    BY <1>1, WhereItPuts DEF TInv
  <1>3. CASE /\ present' = present \union {"class"} /\ Proceed(p, 1)
             /\ spoiled' = spoiled
    <2>1. Advances(p, 1)
      BY <1>1, <1>3, OneOn DEF TInv
    <2>2. CASE AtPlace(p, "install", 9)
      <3>1. AtPlace(p, "install", 8)'
        BY <2>1, <2>2 DEF Advances, AtPlace
      <3> QED  BY <1>1, <1>3, <2>2, <3>1, KeysAre
        DEF Core, Installing, Removing, In, Stays, KeysGone, TaskGone, Leaves, AtPlace
    <2>3. CASE AtPlace(p, "register", 5)
      <3>1. AtPlace(p, "register", 4)'
        BY <2>1, <2>3 DEF Advances, AtPlace
      <3> QED  BY <1>1, <1>3, <2>3, <3>1, KeysAre
        DEF Core, Installing, Removing, In, Stays, KeysGone, TaskGone, Leaves, AtPlace
    <2> QED  BY <1>2, <2>2, <2>3
  <1>4. CASE UNCHANGED <<present, spoiled>> /\ GiveUp(p)
    <2>1. running'[p].cmd = "none"
      BY <1>4, NoPlace
    <2> QED  BY <1>1, <1>2, <1>4, <2>1, ElsewhereKeeps DEF In, AtPlace
  <1> QED  BY <1>3, <1>4 DEF WriteKey

LEMMA WriteProviderKeeps ==
    ASSUME TInv, NEW p \in Process, Core(p), WriteKey(p, "provider")
    PROVE  Core(p)'
  <1>1. At(p, Put("provider")) /\ UNCHANGED <<doomed>>
    BY DEF WriteKey
  <1>2. AtPlace(p, "install", 8) \/ AtPlace(p, "register", 4)
    BY <1>1, WhereItPuts DEF TInv
  <1>3. CASE /\ present' = present \union {"provider"} /\ Proceed(p, 1)
             /\ spoiled' = spoiled \ {"filter"}
    <2>1. Advances(p, 1)
      BY <1>1, <1>3, OneOn DEF TInv
    <2>2. CASE AtPlace(p, "install", 8)
      <3>1. AtPlace(p, "install", 7)'
        BY <2>1, <2>2 DEF Advances, AtPlace
      <3> QED  BY <1>1, <1>3, <2>2, <3>1, KeysAre
        DEF Core, Installing, Removing, In, Stays, KeysGone, TaskGone, Leaves, AtPlace
    <2>3. CASE AtPlace(p, "register", 4)
      <3>1. AtPlace(p, "register", 3)'
        BY <2>1, <2>3 DEF Advances, AtPlace
      <3> QED  BY <1>1, <1>3, <2>3, <3>1, KeysAre
        DEF Core, Installing, Removing, In, Stays, KeysGone, TaskGone, Leaves, AtPlace
    <2> QED  BY <1>2, <2>2, <2>3
  <1>4. CASE UNCHANGED <<present, spoiled>> /\ GiveUp(p)
    <2>1. running'[p].cmd = "none"
      BY <1>4, NoPlace
    <2> QED  BY <1>1, <1>2, <1>4, <2>1, ElsewhereKeeps DEF In, AtPlace
  <1> QED  BY <1>3, <1>4 DEF WriteKey

LEMMA WriteFilterKeeps ==
    ASSUME TInv, NEW p \in Process, Core(p), WriteKey(p, "filter")
    PROVE  Core(p)'
  <1>1. At(p, Put("filter")) /\ UNCHANGED <<doomed>>
    BY DEF WriteKey
  <1>2. AtPlace(p, "install", 7) \/ AtPlace(p, "register", 3)
    BY <1>1, WhereItPuts DEF TInv
  <1>3. CASE /\ present' = present \union {"filter"} /\ Proceed(p, 1)
             /\ spoiled' = spoiled
    <2>1. Advances(p, 1)
      BY <1>1, <1>3, OneOn DEF TInv
    <2>2. CASE AtPlace(p, "install", 7)
      <3>1. AtPlace(p, "install", 6)'
        BY <2>1, <2>2 DEF Advances, AtPlace
      <3> QED  BY <1>1, <1>3, <2>2, <3>1, KeysAre
        DEF Core, Installing, Removing, In, Stays, KeysGone, TaskGone, Leaves, AtPlace
    <2>3. CASE AtPlace(p, "register", 3)
      <3>1. AtPlace(p, "register", 2)'
        BY <2>1, <2>3 DEF Advances, AtPlace
      <3> QED  BY <1>1, <1>3, <2>3, <3>1, KeysAre
        DEF Core, Installing, Removing, In, Stays, KeysGone, TaskGone, Leaves, AtPlace
    <2> QED  BY <1>2, <2>2, <2>3
  <1>4. CASE UNCHANGED <<present, spoiled>> /\ GiveUp(p)
    <2>1. running'[p].cmd = "none"
      BY <1>4, NoPlace
    <2> QED  BY <1>1, <1>2, <1>4, <2>1, ElsewhereKeeps DEF In, AtPlace
  <1> QED  BY <1>3, <1>4 DEF WriteKey

LEMMA PutShortcutKeeps ==
    ASSUME TInv, NEW p \in Process, Core(p), PutQuietly(p, "shortcut")
    PROVE  Core(p)'
  <1>1. At(p, Put("shortcut")) /\ UNCHANGED <<doomed, spoiled>>
    BY DEF PutQuietly
  <1>2. AtPlace(p, "install", 4)
    BY <1>1, WhereItPuts DEF TInv
  <1>3. CASE present' \in {present, present \union {"shortcut"}} /\ Proceed(p, 1)
    <2>1. Advances(p, 1)
      BY <1>1, <1>3, OneOn DEF TInv
    <2>2. AtPlace(p, "install", 3)'
      BY <1>2, <2>1 DEF Advances, AtPlace
    <2> QED  BY <1>1, <1>2, <1>3, <2>2, KeysAre
      DEF Core, Installing, Removing, In, Stays, KeysGone, TaskGone, Leaves, AtPlace
  <1> QED  BY <1>3 DEF PutQuietly

LEMMA DropShortcutKeeps ==
    ASSUME TInv, NEW p \in Process, Core(p), DeleteQuietly(p, "shortcut")
    PROVE  Core(p)'
  <1>1. At(p, Drop("shortcut")) /\ UNCHANGED <<doomed, spoiled>>
    BY DEF DeleteQuietly
  <1>2. AtPlace(p, "uninstall", 5)
    BY <1>1, WhereItDrops DEF TInv
  <1>3. CASE present' = present \ {"shortcut"} /\ Proceed(p, 1)
    <2>1. Advances(p, 1)
      BY <1>1, <1>3, OneOn DEF TInv
    <2>2. AtPlace(p, "uninstall", 4)'
      BY <1>2, <2>1 DEF Advances, AtPlace
    <2> QED  BY <1>1, <1>2, <1>3, <2>2, KeysAre
      DEF Core, Installing, Removing, In, Stays, KeysGone, TaskGone, Leaves, AtPlace
  <1> QED  BY <1>3 DEF DeleteQuietly

LEMMA PutEntryKeeps ==
    ASSUME TInv, NEW p \in Process, Core(p), PutQuietly(p, "entry")
    PROVE  Core(p)'
  <1>1. At(p, Put("entry")) /\ UNCHANGED <<doomed, spoiled>>
    BY DEF PutQuietly
  <1>2. AtPlace(p, "install", 2)
    BY <1>1, WhereItPuts DEF TInv
  <1>3. CASE present' \in {present, present \union {"entry"}} /\ Proceed(p, 1)
    <2>1. Advances(p, 1)
      BY <1>1, <1>3, OneOn DEF TInv
    <2>2. AtPlace(p, "install", 1)'
      BY <1>2, <2>1 DEF Advances, AtPlace
    <2> QED  BY <1>1, <1>2, <1>3, <2>2, KeysAre
      DEF Core, Installing, Removing, In, Stays, KeysGone, TaskGone, Leaves, AtPlace
  <1> QED  BY <1>3 DEF PutQuietly

LEMMA DropEntryKeeps ==
    ASSUME TInv, NEW p \in Process, Core(p), DeleteQuietly(p, "entry")
    PROVE  Core(p)'
  <1>1. At(p, Drop("entry")) /\ UNCHANGED <<doomed, spoiled>>
    BY DEF DeleteQuietly
  <1>2. AtPlace(p, "uninstall", 9)
    BY <1>1, WhereItDrops DEF TInv
  <1>3. CASE present' = present \ {"entry"} /\ Proceed(p, 1)
    <2>1. Advances(p, 1)
      BY <1>1, <1>3, OneOn DEF TInv
    <2>2. AtPlace(p, "uninstall", 8)'
      BY <1>2, <2>1 DEF Advances, AtPlace
    <2> QED  BY <1>1, <1>2, <1>3, <2>2, KeysAre
      DEF Core, Installing, Removing, In, Stays, KeysGone, TaskGone, Leaves, AtPlace
  <1> QED  BY <1>3 DEF DeleteQuietly

LEMMA DeleteClassKeeps ==
    ASSUME TInv, NEW p \in Process, Core(p), DeleteKey(p, "class")
    PROVE  Core(p)'
  <1>1. At(p, Drop("class")) /\ UNCHANGED <<doomed>>
    BY DEF DeleteKey
  <1>2. AtPlace(p, "uninstall", 8) \/ AtPlace(p, "unregister", 5)
    BY <1>1, WhereItDrops DEF TInv
  <1>3. CASE /\ present' = present \ {"class"} /\ spoiled' = spoiled \ {"class"}
             /\ Proceed(p, 1)
    <2>1. Advances(p, 1)
      BY <1>1, <1>3, OneOn DEF TInv
    <2>2. CASE AtPlace(p, "uninstall", 8)
      <3>1. AtPlace(p, "uninstall", 7)'
        BY <2>1, <2>2 DEF Advances, AtPlace
      <3> QED  BY <1>1, <1>3, <2>2, <3>1, KeysAre
        DEF Core, Installing, Removing, In, Stays, KeysGone, TaskGone, Leaves, AtPlace
    <2>3. CASE AtPlace(p, "unregister", 5)
      <3>1. AtPlace(p, "unregister", 4)'
        BY <2>1, <2>3 DEF Advances, AtPlace
      <3> QED  BY <1>1, <1>3, <2>3, <3>1, KeysAre
        DEF Core, Installing, Removing, In, Stays, KeysGone, TaskGone, Leaves, AtPlace
    <2> QED  BY <1>2, <2>2, <2>3
  <1> QED  BY <1>3 DEF DeleteKey

LEMMA DeleteProviderKeeps ==
    ASSUME TInv, NEW p \in Process, Core(p), DeleteKey(p, "provider")
    PROVE  Core(p)'
  <1>1. At(p, Drop("provider")) /\ UNCHANGED <<doomed>>
    BY DEF DeleteKey
  <1>2. AtPlace(p, "uninstall", 7) \/ AtPlace(p, "unregister", 4)
    BY <1>1, WhereItDrops DEF TInv
  <1>3. CASE /\ present' = present \ {"provider"} /\ spoiled' = spoiled \ {"provider"}
             /\ Proceed(p, 1)
    <2>1. Advances(p, 1)
      BY <1>1, <1>3, OneOn DEF TInv
    <2>2. CASE AtPlace(p, "uninstall", 7)
      <3>1. AtPlace(p, "uninstall", 6)'
        BY <2>1, <2>2 DEF Advances, AtPlace
      <3> QED  BY <1>1, <1>3, <2>2, <3>1, KeysAre
        DEF Core, Installing, Removing, In, Stays, KeysGone, TaskGone, Leaves, AtPlace
    <2>3. CASE AtPlace(p, "unregister", 4)
      <3>1. AtPlace(p, "unregister", 3)'
        BY <2>1, <2>3 DEF Advances, AtPlace
      <3> QED  BY <1>1, <1>3, <2>3, <3>1, KeysAre
        DEF Core, Installing, Removing, In, Stays, KeysGone, TaskGone, Leaves, AtPlace
    <2> QED  BY <1>2, <2>2, <2>3
  <1> QED  BY <1>3 DEF DeleteKey

LEMMA DeleteFilterKeeps ==
    ASSUME TInv, NEW p \in Process, Core(p), DeleteKey(p, "filter")
    PROVE  Core(p)'
  <1>1. At(p, Drop("filter")) /\ UNCHANGED <<doomed>>
    BY DEF DeleteKey
  <1>2. AtPlace(p, "uninstall", 6) \/ AtPlace(p, "unregister", 3)
    BY <1>1, WhereItDrops DEF TInv
  <1>3. CASE /\ present' = present \ {"filter"} /\ spoiled' = spoiled \ {"filter"}
             /\ Proceed(p, 1)
    <2>1. Advances(p, 1)
      BY <1>1, <1>3, OneOn DEF TInv
    <2>2. CASE AtPlace(p, "uninstall", 6)
      <3>1. AtPlace(p, "uninstall", 5)'
        BY <2>1, <2>2 DEF Advances, AtPlace
      <3> QED  BY <1>1, <1>3, <2>2, <3>1, KeysAre
        DEF Core, Installing, Removing, In, Stays, KeysGone, TaskGone, Leaves, AtPlace
    <2>3. CASE AtPlace(p, "unregister", 3)
      <3>1. AtPlace(p, "unregister", 2)'
        BY <2>1, <2>3 DEF Advances, AtPlace
      <3> QED  BY <1>1, <1>3, <2>3, <3>1, KeysAre
        DEF Core, Installing, Removing, In, Stays, KeysGone, TaskGone, Leaves, AtPlace
    <2> QED  BY <1>2, <2>2, <2>3
  <1> QED  BY <1>3 DEF DeleteKey

LEMMA LoadFailsKeeps ==
    ASSUME TInv, NEW p \in Process, Core(p), LoadFails(p)
    PROVE  Core(p)'
  <1>1. At(p, Drop("class")) /\ UNCHANGED <<present, doomed>>
    BY DEF LoadFails
  <1>2. AtPlace(p, "uninstall", 8) \/ AtPlace(p, "unregister", 5)
    BY <1>1, WhereItDrops DEF TInv
  <1>3. Advances(p, 3)
    BY <1>1, Skips DEF LoadFails, TInv
  <1>4. spoiled \subseteq spoiled' /\ ("dll" \in present => "dll" \in spoiled')
    BY DEF LoadFails
  <1>5. KeysGone'
    BY <1>1, <1>4 DEF Core, Stays, KeysGone
  <1>6. CASE AtPlace(p, "uninstall", 8)
    <2>1. AtPlace(p, "uninstall", 5)'
      BY <1>3, <1>6 DEF Advances, AtPlace
    <2> QED  BY <1>1, <1>4, <1>5, <1>6, <2>1
      DEF Core, Installing, Removing, In, Stays, TaskGone, AtPlace
  <1>7. CASE AtPlace(p, "unregister", 5)
    <2>1. AtPlace(p, "unregister", 2)'
      BY <1>3, <1>7 DEF Advances, AtPlace
    <2> QED  BY <1>1, <1>4, <1>5, <1>7, <2>1
      DEF Core, Installing, Removing, In, Stays, TaskGone, AtPlace
  <1> QED  BY <1>2, <1>6, <1>7

LEMMA DeleteAppKeeps ==
    ASSUME TInv, NEW p \in Process, Core(p), DeleteFile(p, "app")
    PROVE  Core(p)'
  <1>1. At(p, Drop("app")) /\ UNCHANGED <<spoiled>>
    BY DEF DeleteFile
  <1>2. AtPlace(p, "uninstall", 4)
    BY <1>1, WhereItDrops DEF TInv
  <1>3. CASE \/ /\ present' = present \ {"app"} /\ UNCHANGED doomed
                /\ Proceed(p, 1)
             \/ /\ doomed' = doomed \union {"app"} /\ UNCHANGED present
                /\ Proceed(p, 1)
    <2>1. Advances(p, 1)
      BY <1>1, <1>3, OneOn DEF TInv
    <2>2. AtPlace(p, "uninstall", 3)'
      BY <1>2, <2>1 DEF Advances, AtPlace
    <2> QED  BY <1>1, <1>2, <1>3, <2>2, KeysAre
      DEF Core, Installing, Removing, In, Stays, KeysGone, TaskGone, Leaves, AtPlace
  <1> QED  BY <1>3 DEF DeleteFile

LEMMA DeleteDllKeeps ==
    ASSUME TInv, NEW p \in Process, Core(p), DeleteFile(p, "dll")
    PROVE  Core(p)'
  <1>1. At(p, Drop("dll")) /\ UNCHANGED <<spoiled>>
    BY DEF DeleteFile
  <1>2. AtPlace(p, "uninstall", 3)
    BY <1>1, WhereItDrops DEF TInv
  <1>3. CASE \/ /\ present' = present \ {"dll"} /\ UNCHANGED doomed
                /\ Proceed(p, 1)
             \/ /\ doomed' = doomed \union {"dll"} /\ UNCHANGED present
                /\ Proceed(p, 1)
    <2>1. Advances(p, 1)
      BY <1>1, <1>3, OneOn DEF TInv
    <2>2. AtPlace(p, "uninstall", 2)'
      BY <1>2, <2>1 DEF Advances, AtPlace
    <2> QED  BY <1>1, <1>2, <1>3, <2>2, KeysAre
      DEF Core, Installing, Removing, In, Stays, KeysGone, TaskGone, Leaves, AtPlace
  <1> QED  BY <1>3 DEF DeleteFile

LEMMA DeleteExeKeeps ==
    ASSUME TInv, NEW p \in Process, Core(p), DeleteFile(p, "exe")
    PROVE  Core(p)'
  <1>1. At(p, Drop("exe")) /\ UNCHANGED <<spoiled>>
    BY DEF DeleteFile
  <1>2. AtPlace(p, "uninstall", 2)
    BY <1>1, WhereItDrops DEF TInv
  <1>3. CASE \/ /\ present' = present \ {"exe"} /\ UNCHANGED doomed
                /\ Proceed(p, 1)
             \/ /\ doomed' = doomed \union {"exe"} /\ UNCHANGED present
                /\ Proceed(p, 1)
    <2>1. Advances(p, 1)
      BY <1>1, <1>3, OneOn DEF TInv
    <2>2. AtPlace(p, "uninstall", 1)'
      BY <1>2, <2>1 DEF Advances, AtPlace
    <2> QED  BY <1>1, <1>2, <1>3, <2>2, KeysAre
      DEF Core, Installing, Removing, In, Stays, KeysGone, TaskGone, Leaves, AtPlace
  <1> QED  BY <1>3 DEF DeleteFile

LEMMA EraseKeeps ==
    ASSUME TInv, NEW p \in Process, Core(p), Erase(p)
    PROVE  Core(p)'
  <1>1. At(p, Do("erase")) /\ UNCHANGED <<doomed, spoiled>>
    BY DEF Erase
  <1>2. AtPlace(p, "unregister", 1)
    BY <1>1, WhereItDoes DEF TInv
  <1>3. CASE present' = present \ (File \union {"shortcut"}) /\ Proceed(p, 1)
    <2>1. Advances(p, 1)
      BY <1>1, <1>3, OneOn DEF TInv
    <2>2. AtPlace(p, "unregister", 0)'
      BY <1>2, <2>1 DEF Advances, AtPlace
    <2> QED  BY <1>1, <1>2, <1>3, <2>2, KeysAre
      DEF Core, Installing, Removing, In, Stays, KeysGone, TaskGone, Leaves, AtPlace, File
  <1> QED  BY <1>3 DEF Erase

LEMMA PutTaskKeeps ==
    ASSUME TInv, NEW p \in Process, Core(p), RunSchtasks(p, Put("task"))
    PROVE  Core(p)'
  <1>1. At(p, Put("task")) /\ UNCHANGED <<doomed>>
    BY DEF RunSchtasks
  <1>2. AtPlace(p, "install", 3) \/ AtPlace(p, "register", 2) \/ AtPlace(p, "schedule", 1)
    BY <1>1, WhereItPuts DEF TInv
  <1>3. AtPlace(p, "schedule", 1) => "schedule" \in Commands
    BY DEF AtPlace, TInv, Plan, PlanOf
  <1>4. CASE /\ Proceed(p, 1)
             /\ \/ /\ present' = present \union {"task"}
                   /\ spoiled' \in {spoiled, spoiled \ {"task"}}
                \/ present' = present /\ spoiled' = spoiled \union {"task"}
    <2>1. Advances(p, 1)
      BY <1>1, <1>4, OneOn DEF TInv
    <2>2. CASE AtPlace(p, "install", 3)
      <3>1. AtPlace(p, "install", 2)'
        BY <2>1, <2>2 DEF Advances, AtPlace
      <3> QED  BY <1>1, <1>4, <2>2, <3>1, <1>3, KeysAre
        DEF Core, Installing, Removing, In, Stays, KeysGone, TaskGone, Leaves, AtPlace
    <2>3. CASE AtPlace(p, "register", 2)
      <3>1. AtPlace(p, "register", 1)'
        BY <2>1, <2>3 DEF Advances, AtPlace
      <3> QED  BY <1>1, <1>4, <2>3, <3>1, <1>3, KeysAre
        DEF Core, Installing, Removing, In, Stays, KeysGone, TaskGone, Leaves, AtPlace
    <2>4. CASE AtPlace(p, "schedule", 1)
      <3>1. AtPlace(p, "schedule", 0)'
        BY <2>1, <2>4 DEF Advances, AtPlace
      <3> QED  BY <1>1, <1>4, <2>4, <3>1, <1>3, KeysAre
        DEF Core, Installing, Removing, In, Stays, KeysGone, TaskGone, Leaves, AtPlace
    <2> QED  BY <1>2, <2>2, <2>3, <2>4
  <1> QED  BY <1>4 DEF RunSchtasks, Schedule, Put

LEMMA DropTaskKeeps ==
    ASSUME TInv, NEW p \in Process, Core(p), RunSchtasks(p, Drop("task"))
    PROVE  Core(p)'
  <1>1. At(p, Drop("task")) /\ UNCHANGED <<doomed>>
    BY DEF RunSchtasks
  <1>2. AtPlace(p, "uninstall", 10) \/ AtPlace(p, "unregister", 6) \/ AtPlace(p, "unschedule", 1)
    BY <1>1, WhereItDrops DEF TInv
  <1>3. CASE /\ Proceed(p, 1)
             /\ \/ /\ present' = present \ {"task"}
                   /\ spoiled' \in {spoiled, spoiled \ {"task"}}
                \/ present' = present /\ spoiled' = spoiled \union {"task"}
    <2>1. Advances(p, 1)
      BY <1>1, <1>3, OneOn DEF TInv
    <2>2. CASE AtPlace(p, "uninstall", 10)
      <3>1. AtPlace(p, "uninstall", 9)'
        BY <2>1, <2>2 DEF Advances, AtPlace
      <3> QED  BY <1>1, <1>3, <2>2, <3>1, KeysAre
        DEF Core, Installing, Removing, In, Stays, KeysGone, TaskGone, Leaves, AtPlace
    <2>3. CASE AtPlace(p, "unregister", 6)
      <3>1. AtPlace(p, "unregister", 5)'
        BY <2>1, <2>3 DEF Advances, AtPlace
      <3> QED  BY <1>1, <1>3, <2>3, <3>1, KeysAre
        DEF Core, Installing, Removing, In, Stays, KeysGone, TaskGone, Leaves, AtPlace
    <2>4. CASE AtPlace(p, "unschedule", 1)
      <3>1. AtPlace(p, "unschedule", 0)'
        BY <2>1, <2>4 DEF Advances, AtPlace
      <3> QED  BY <1>1, <1>3, <2>4, <3>1, KeysAre
        DEF Core, Installing, Removing, In, Stays, KeysGone, TaskGone, Leaves, AtPlace
    <2> QED  BY <1>2, <2>2, <2>3, <2>4
  <1> QED  BY <1>3 DEF RunSchtasks, Schedule, Drop

LEMMA ArmKeeps ==
    ASSUME TInv, NEW p \in Process, NEW new, Core(p), Settle(p, "arm", new)
    PROVE  Core(p)'
  <1>1. At(p, Do("arm")) /\ UNCHANGED <<present, doomed, spoiled>>
    BY DEF Settle
  <1>2. AtPlace(p, "enable", 1)
    BY <1>1, WhereItDoes DEF TInv
  <1>3. CASE Proceed(p, 1)
    <2>1. Advances(p, 1)
      BY <1>1, <1>3, OneOn DEF TInv
    <2>2. AtPlace(p, "enable", 0)'
      BY <1>2, <2>1 DEF Advances, AtPlace
    <2> QED  BY <1>1, <1>2, <1>3, <2>2, KeysAre
      DEF Core, Installing, Removing, In, Stays, KeysGone, TaskGone, Leaves, AtPlace
  <1> QED  BY <1>3 DEF Settle

LEMMA DisarmKeeps ==
    ASSUME TInv, NEW p \in Process, NEW new, Core(p), Settle(p, "disarm", new)
    PROVE  Core(p)'
  <1>1. At(p, Do("disarm")) /\ UNCHANGED <<present, doomed, spoiled>>
    BY DEF Settle
  <1>2. AtPlace(p, "install", 1) \/ AtPlace(p, "register", 1) \/ AtPlace(p, "disable", 1)
    BY <1>1, WhereItDoes DEF TInv
  <1>3. CASE Proceed(p, 1)
    <2>1. Advances(p, 1)
      BY <1>1, <1>3, OneOn DEF TInv
    <2>2. CASE AtPlace(p, "install", 1)
      <3>1. AtPlace(p, "install", 0)'
        BY <2>1, <2>2 DEF Advances, AtPlace
      <3> QED  BY <1>1, <1>3, <2>2, <3>1, KeysAre
        DEF Core, Installing, Removing, In, Stays, KeysGone, TaskGone, Leaves, AtPlace
    <2>3. CASE AtPlace(p, "register", 1)
      <3>1. AtPlace(p, "register", 0)'
        BY <2>1, <2>3 DEF Advances, AtPlace
      <3> QED  BY <1>1, <1>3, <2>3, <3>1, KeysAre
        DEF Core, Installing, Removing, In, Stays, KeysGone, TaskGone, Leaves, AtPlace
    <2>4. CASE AtPlace(p, "disable", 1)
      <3>1. AtPlace(p, "disable", 0)'
        BY <2>1, <2>4 DEF Advances, AtPlace
      <3> QED  BY <1>1, <1>3, <2>4, <3>1, KeysAre
        DEF Core, Installing, Removing, In, Stays, KeysGone, TaskGone, Leaves, AtPlace
    <2> QED  BY <1>2, <2>2, <2>3, <2>4
  <1> QED  BY <1>3 DEF Settle

LEMMA ProtectKeeps ==
    ASSUME TInv, NEW p \in Process, NEW new, Core(p), Settle(p, "protect", new)
    PROVE  Core(p)'
  <1>1. At(p, Do("protect")) /\ UNCHANGED <<present, doomed, spoiled>>
    BY DEF Settle
  <1>2. AtPlace(p, "protect", 1)
    BY <1>1, WhereItDoes DEF TInv
  <1>3. CASE Proceed(p, 1)
    <2>1. Advances(p, 1)
      BY <1>1, <1>3, OneOn DEF TInv
    <2>2. AtPlace(p, "protect", 0)'
      BY <1>2, <2>1 DEF Advances, AtPlace
    <2> QED  BY <1>1, <1>2, <1>3, <2>2, KeysAre
      DEF Core, Installing, Removing, In, Stays, KeysGone, TaskGone, Leaves, AtPlace
  <1> QED  BY <1>3 DEF Settle

LEMMA UnprotectKeeps ==
    ASSUME TInv, NEW p \in Process, NEW new, Core(p), Settle(p, "unprotect", new)
    PROVE  Core(p)'
  <1>1. At(p, Do("unprotect")) /\ UNCHANGED <<present, doomed, spoiled>>
    BY DEF Settle
  <1>2. AtPlace(p, "unprotect", 1)
    BY <1>1, WhereItDoes DEF TInv
  <1>3. CASE Proceed(p, 1)
    <2>1. Advances(p, 1)
      BY <1>1, <1>3, OneOn DEF TInv
    <2>2. AtPlace(p, "unprotect", 0)'
      BY <1>2, <2>1 DEF Advances, AtPlace
    <2> QED  BY <1>1, <1>2, <1>3, <2>2, KeysAre
      DEF Core, Installing, Removing, In, Stays, KeysGone, TaskGone, Leaves, AtPlace
  <1> QED  BY <1>3 DEF Settle

LEMMA SetUrlKeeps ==
    ASSUME TInv, NEW p \in Process, NEW new, Core(p), Settle(p, "seturl", new)
    PROVE  Core(p)'
  <1>1. At(p, Do("seturl")) /\ UNCHANGED <<present, doomed, spoiled>>
    BY DEF Settle
  <1>2. AtPlace(p, "seturl", 1)
    BY <1>1, WhereItDoes DEF TInv
  <1>3. CASE Proceed(p, 1)
    <2>1. Advances(p, 1)
      BY <1>1, <1>3, OneOn DEF TInv
    <2>2. AtPlace(p, "seturl", 0)'
      BY <1>2, <2>1 DEF Advances, AtPlace
    <2> QED  BY <1>1, <1>2, <1>3, <2>2, KeysAre
      DEF Core, Installing, Removing, In, Stays, KeysGone, TaskGone, Leaves, AtPlace
  <1> QED  BY <1>3 DEF Settle

LEMMA ClearKeeps ==
    ASSUME TInv, NEW p \in Process, Core(p), Settle(p, "clear", NoSettings)
    PROVE  Core(p)'
  <1>1. At(p, Do("clear")) /\ UNCHANGED <<present, doomed, spoiled>>
    BY DEF Settle
  <1>2. AtPlace(p, "uninstall", 1) \/ AtPlace(p, "unregister", 2)
    BY <1>1, WhereItDoes DEF TInv
  <1>3. CASE Proceed(p, 1) /\ settings' = NoSettings
    <2>1. Advances(p, 1)
      BY <1>1, <1>3, OneOn DEF TInv
    <2>2. CASE AtPlace(p, "uninstall", 1)
      <3>1. AtPlace(p, "uninstall", 0)'
        BY <2>1, <2>2 DEF Advances, AtPlace
      <3> QED  BY <1>1, <1>3, <2>2, <3>1, KeysAre
        DEF Core, Installing, Removing, In, Stays, KeysGone, TaskGone, Leaves, AtPlace
    <2>3. CASE AtPlace(p, "unregister", 2)
      <3>1. AtPlace(p, "unregister", 1)'
        BY <2>1, <2>3 DEF Advances, AtPlace
      <3> QED  BY <1>1, <1>3, <2>3, <3>1, KeysAre
        DEF Core, Installing, Removing, In, Stays, KeysGone, TaskGone, Leaves, AtPlace
    <2> QED  BY <1>2, <2>2, <2>3
  <1> QED  BY <1>3 DEF Settle

LEMMA StepKeeps ==
    ASSUME TInv, NEW p \in Process, Core(p), Step(p)
    PROVE  Core(p)'
  <1>1. CASE \E k \in Key : WriteKey(p, k) \/ DeleteKey(p, k)
    BY <1>1, WriteClassKeeps, WriteProviderKeeps, WriteFilterKeeps,
       DeleteClassKeeps, DeleteProviderKeeps, DeleteFilterKeeps DEF Key
  <1>2. CASE \E x \in {"shortcut", "entry"} : PutQuietly(p, x) \/ DeleteQuietly(p, x)
    BY <1>2, PutShortcutKeeps, DropShortcutKeeps, PutEntryKeeps, DropEntryKeeps
  <1>3. CASE \E step \in {Put("task"), Drop("task")} : RunSchtasks(p, step)
    BY <1>3, PutTaskKeeps, DropTaskKeeps
  <1>4. CASE \E f \in File : DeleteFile(p, f)
    BY <1>4, DeleteAppKeeps, DeleteDllKeeps, DeleteExeKeeps DEF File
  <1>5. CASE SetLockEnabled(p) \/ SetUninstallCode(p) \/ ClearUninstallCode(p)
             \/ SetPortalUrl(p) \/ RemoveAll(p)
    BY <1>5, ArmKeeps, DisarmKeeps, ProtectKeeps, UnprotectKeeps, SetUrlKeeps, ClearKeeps
    DEF SetLockEnabled, SetUninstallCode, ClearUninstallCode, SetPortalUrl, RemoveAll
  <1> QED
    BY <1>1, <1>2, <1>3, <1>4, <1>5, CopyLibraryKeeps, CopyInstallerKeeps, CopyAppKeeps,
       UnpackKeeps, LoadFailsKeeps, EraseKeeps DEF Step

\* Nothing is spoken of a command that has made none of its steps.
LEMMA StartKeeps ==
    ASSUME TInv, NEW p \in Process, NEW cmd \in Commands, NEW arg \in Argument,
           Start(p, cmd, arg), Core(p)
    PROVE  Core(p)'
  <1>1. running'[p].cmd = cmd /\ Len(running'[p].todo) = Len(Steps[cmd])
    BY Begins DEF TInv
  <1>2. cmd \in Command /\ Len(Steps["install"]) = 10 /\ Len(Steps["uninstall"]) = 10
        /\ Len(Steps["register"]) = 6 /\ Len(Steps["unregister"]) = 6
    BY InstallerAssumption, ShortCommandsAre, InstallIs, UninstallIs, SetupIs
  <1>3. UNCHANGED <<present, doomed, settings, spoiled>> /\ running[p].cmd = "none"
    <2>1. running[p] = Idle /\ Idle.cmd = "none"
      BY DEF Start, Idle
    <2> QED  BY <2>1, Zenon DEF Start
  <1>5. /\ running'[p].cmd = "install" => Len(running'[p].todo) = 10
        /\ running'[p].cmd = "uninstall" => Len(running'[p].todo) = 10
        /\ running'[p].cmd = "register" => Len(running'[p].todo) = 6
        /\ running'[p].cmd = "unregister" => Len(running'[p].todo) = 6
    BY <1>1, <1>2, Zenon
  <1>4. Installing(p)' /\ Removing(p)'
    <2>1. /\ 10 \notin 7..9 /\ 10 \notin 7..7 /\ 10 \notin 3..5 /\ 10 \notin 6..7
          /\ 10 \notin 6..6 /\ 10 \notin 0..5 /\ 10 \notin 0..9 /\ 10 \notin 0..8
          /\ 10 \notin 0..4 /\ 10 \notin 0..3 /\ 10 \notin 0..2 /\ 10 \notin 0..1
          /\ 10 \notin 0..0
      OBVIOUS
    <2>2. /\ 6 \notin 3..5 /\ 6 \notin 3..3 /\ 6 \notin 2..5 /\ 6 \notin 3..4
          /\ 6 \notin 0..2 /\ 6 \notin 0..5
      OBVIOUS
    <2>3. /\ ~In(p, "install", 7, 9)' /\ ~In(p, "install", 7, 7)'
          /\ ~In(p, "install", 3, 5)'
          /\ ~In(p, "register", 3, 5)' /\ ~In(p, "register", 3, 3)'
          /\ ~In(p, "register", 2, 5)'
      BY <1>5, <2>1, <2>2, Zenon DEF In
    <2>4. /\ ~In(p, "uninstall", 6, 7)' /\ ~In(p, "uninstall", 6, 6)'
          /\ ~In(p, "uninstall", 0, 5)' /\ ~In(p, "uninstall", 0, 9)'
          /\ ~In(p, "uninstall", 0, 8)' /\ ~In(p, "uninstall", 0, 4)'
          /\ ~In(p, "uninstall", 0, 3)' /\ ~In(p, "uninstall", 0, 2)'
          /\ ~In(p, "uninstall", 0, 1)' /\ ~In(p, "uninstall", 0, 0)'
          /\ ~In(p, "unregister", 3, 4)' /\ ~In(p, "unregister", 3, 3)'
          /\ ~In(p, "unregister", 0, 2)' /\ ~In(p, "unregister", 0, 5)'
      BY <1>5, <2>1, <2>2, Zenon DEF In
    <2> QED  BY <2>3, <2>4 DEF Installing, Removing
  <1> QED  BY <1>3, <1>4 DEF Core, In, Stays

\* A process about to delete the filter is known to be.
LEMMA WhereTheFilterFalls ==
    ASSUME TInv, NEW p \in Process,
           In(p, "uninstall", 6, 6) \/ In(p, "unregister", 3, 3)
    PROVE  At(p, Drop("filter"))
  <1> DEFINE todo == running[p].todo
  <1>1. /\ todo \in Seq(StepType)
        /\ \/ running[p].cmd = "uninstall" /\ Len(todo) = 6
           \/ running[p].cmd = "unregister" /\ Len(todo) = 3
    BY DEF In, TInv, TypeOK
  <1>2. \A i \in 1..Len(todo) :
           todo[i] = Steps[running[p].cmd][Len(Steps[running[p].cmd]) - Len(todo) + i]
    BY <1>1 DEF TInv, Plan, PlanOf
  <1> HIDE DEF todo
  <1>3. CASE running[p].cmd = "uninstall" /\ Len(todo) = 6
    <2>1. todo[1] = Steps["uninstall"][Len(Steps["uninstall"]) - 6 + 1]
      BY <1>2, <1>3
    <2> QED  BY <1>1, <1>3, <2>1, ShortCommandsAre, UninstallIs DEF At, todo
  <1>4. CASE running[p].cmd = "unregister" /\ Len(todo) = 3
    <2>1. todo[1] = Steps["unregister"][Len(Steps["unregister"]) - 3 + 1]
      BY <1>2, <1>4
    <2> QED  BY <1>1, <1>4, <2>1, SetupIs DEF At, todo
  <1> QED  BY <1>1, <1>3, <1>4

LEMMA FinishKeeps ==
    ASSUME TInv, NEW p \in Process, Finish(p), Core(p)
    PROVE  Core(p)'
  <1>1. running'[p].cmd = "none"
    BY NoPlace DEF Finish, GiveUp
  <1>2. Len(running[p].todo) = 0 /\ UNCHANGED <<present, doomed, spoiled>>
    BY DEF Finish
  <1>3. ~(In(p, "uninstall", 6, 6) \/ In(p, "unregister", 3, 3))
    BY <1>2 DEF In
  <1> QED  BY <1>1, <1>2, <1>3, ElsewhereKeeps

LEMMA KillKeeps ==
    ASSUME TInv, NEW p \in Process, Kill(p), Core(p)
    PROVE  Core(p)'
  <1>1. running'[p].cmd = "none"
    BY NoPlace DEF Kill, GiveUp
  <1>2. /\ UNCHANGED <<present, doomed>> /\ spoiled \subseteq spoiled'
        /\ At(p, Drop("filter")) => "filter" \in spoiled'
    BY DEF Kill, EndsAtFilter
  <1>3. "filter" \in present /\ "provider" \notin present => "filter" \in spoiled'
    BY <1>2, WhereTheFilterFalls DEF Core
  <1>4. Installing(p)' /\ Removing(p)'
    BY <1>1 DEF Installing, Removing, In
  <1> QED  BY <1>2, <1>3, <1>4 DEF Core, Stays

-----------------------------------------------------------------------------
(* The whole machine.                                                      *)

LEMMA OneProcess ==
    ASSUME OneInstaller, NEW p \in Process
    PROVE  (\A q \in Process : Installing(q) /\ Removing(q)) /\ FilterHasProvider
           /\ (present \intersect Key # {} => Stays("dll"))
           /\ ("schedule" \notin Commands /\ "task" \in present =>
                   Stays("exe") \/ "task" \in spoiled)
           <=> Core(p)
  BY DEF OneInstaller, Core, FilterHasProvider

LEMMA SoundInit == Init => Inv
  <1> SUFFICES ASSUME Init PROVE Inv
    OBVIOUS
  <1>1. \A p \in Process : running[p].cmd = "none"
    BY DEF Init, Idle
  <1>2. present = {} /\ outcome = "none"
    BY DEF Init
  <1>3. Machine
    BY <1>1, <1>2 DEF Machine, FilterHasProvider, Removed
  <1>4. \A p \in Process : Installing(p) /\ Removing(p)
    BY <1>1 DEF Installing, Removing, In
  <1> QED  BY <1>3, <1>4, TypedInit DEF Inv

\* From the one process to the machine, when the process makes a step.
LEMMA ProcessKeeps ==
    ASSUME OneInstaller, Inv, TInv', NEW p \in Process, Core(p) => Core(p)',
           (\A q \in Process : running[q].cmd # "none" => outcome = "none") =>
               (\A q \in Process : running[q].cmd # "none" => outcome = "none")',
           Removed'
    PROVE  Inv'
  <1>1. Core(p)
    BY OneProcess DEF Inv, Machine
  <1>2. Core(p)'
    BY <1>1
  <1>3. /\ \A q \in Process : Installing(q)' /\ Removing(q)'
        /\ FilterHasProvider'
        /\ (present \intersect Key # {} => Stays("dll"))'
        /\ ("schedule" \notin Commands /\ "task" \in present =>
                Stays("exe") \/ "task" \in spoiled)'
    BY <1>2 DEF OneInstaller, Core, FilterHasProvider
  <1>4. (\A q \in Process : running[q].cmd # "none" => outcome = "none")'
    BY DEF Inv, Machine
  <1>5. Machine'
    BY <1>3, <1>4 DEF Machine
  <1> QED  BY <1>3, <1>5 DEF Inv

LEMMA SchtasksKeeps ==
    ASSUME Inv, TInv', NEW step \in late, SchtasksEnds(step)
    PROVE  Inv'
  <1>1. /\ "task" \in spoiled
        /\ \A x : x # "task" => (x \in present' <=> x \in present)
        /\ UNCHANGED <<doomed, settings, running, outcome, spoiled>>
    BY DEF Inv, TInv, LateSpoils, SchtasksEnds, Schedule
  <1>2. /\ \A f \in File : f # "task" /\ (Leaves(f) => Leaves(f)')
        /\ Stays("dll") => Stays("dll")'
        /\ Stays("exe") => Stays("exe")'
        /\ KeysGone => KeysGone'
        /\ TaskGone'
        /\ present' \intersect Key = present \intersect Key
    BY <1>1 DEF Leaves, Stays, KeysGone, TaskGone, File, Key
  <1>3. \A q \in Process : \A cmd, a, b : In(q, cmd, a, b)' <=> In(q, cmd, a, b)
    BY <1>1 DEF In
  <1>4. ASSUME NEW p \in Process PROVE Installing(p)' /\ Removing(p)'
    <2>1. Installing(p) /\ Removing(p)
      BY DEF Inv
    <2> QED  BY <1>1, <1>2, <1>3, <2>1 DEF Installing, Removing, File
  <1>5. Machine'
    BY <1>1, <1>2, <1>3 DEF Inv, Machine, FilterHasProvider, Removed
  <1> QED  BY <1>4, <1>5 DEF Inv

LEMMA RestartKeeps ==
    ASSUME Inv, TInv', Restart
    PROVE  Inv'
  <1>1. /\ present' = present \ doomed /\ doomed' = {} /\ spoiled \subseteq spoiled'
        /\ UNCHANGED <<settings, outcome>>
        /\ \A p \in Process : running'[p].cmd = "none"
        /\ (\E p \in Process : At(p, Drop("filter"))) => "filter" \in spoiled'
        /\ doomed \subseteq File
    BY DEF Restart, Idle, EndsAtFilter, Inv, TInv, TypeOK
  <1>2. \A p \in Process : Installing(p)' /\ Removing(p)'
    BY <1>1 DEF Installing, Removing, In
  <1>3. FilterHasProvider'
    <2>1. "filter" \in present /\ "provider" \notin present => "filter" \in spoiled'
      BY <1>1, WhereTheFilterFalls DEF Inv, Machine, FilterHasProvider
    <2> QED  BY <1>1, <2>1 DEF FilterHasProvider, File
  <1>4. \A f : Stays(f) => Stays(f)'
    BY <1>1 DEF Stays
  <1>5. Removed'
    <2>1. /\ \A f \in File : Leaves(f) => Leaves(f)'
          /\ KeysGone => KeysGone'
          /\ TaskGone => TaskGone'
      BY <1>1 DEF Leaves, KeysGone, TaskGone
    <2>2. /\ outcome' = outcome /\ settings' = settings
          /\ "entry" \notin present => "entry" \notin present'
          /\ "shortcut" \notin present => "shortcut" \notin present'
      BY <1>1
    <2>3. Removed
      BY DEF Inv, Machine
    <2>4. outcome = "uninstall" =>
             /\ settings' = NoSettings
             /\ TaskGone' /\ KeysGone' /\ \A f \in File : Leaves(f)'
             /\ "entry" \notin present' /\ "shortcut" \notin present'
      BY <2>1, <2>2, <2>3, Zenon DEF Removed
    <2> QED  BY <2>2, <2>4, Zenon DEF Removed
  <1>6. Machine'
    <2>1. present' \subseteq present
      BY <1>1
    <2> QED  BY <1>1, <1>3, <1>4, <1>5, <2>1 DEF Inv, Machine
  <1> QED  BY <1>2, <1>6 DEF Inv

LEMMA SoundStep ==
    ASSUME OneInstaller
    PROVE  Inv /\ [Next]_vars => Inv'
  <1> SUFFICES ASSUME Inv, [Next]_vars PROVE Inv'
    OBVIOUS
  <1>1. TInv /\ TInv'
    BY TypedStep DEF Inv
  <1> DEFINE Busy == \A q \in Process : running[q].cmd # "none" => outcome = "none"
  <1>2. Busy /\ Removed
    BY DEF Inv, Machine
  <1>3. ASSUME NEW p \in Process, Step(p) PROVE Inv'
    <2>1. running[p].cmd # "none"
      <3>1. \E step : At(p, step)
        BY <1>3 DEF Step, CopyLibrary, CopyInstaller, CopyApp, WriteKey, DeleteKey,
              PutQuietly, DeleteQuietly, RunSchtasks, LoadFails, DeleteFile, Unpack, Erase,
              SetLockEnabled, SetUninstallCode, ClearUninstallCode, SetPortalUrl,
              RemoveAll, Settle
      <3> QED  BY <1>1, <3>1 DEF At, TInv, Plan, PlanOf
    <2>2. outcome' = outcome
      BY <1>3 DEF Step, CopyLibrary, CopyInstaller, CopyApp, WriteKey, DeleteKey,
            PutQuietly, DeleteQuietly, RunSchtasks, LoadFails, DeleteFile, Unpack, Erase,
            SetLockEnabled, SetUninstallCode, ClearUninstallCode, SetPortalUrl,
            RemoveAll, Settle
    <2>3. outcome' = "none"
      BY <1>2, <2>1, <2>2
    <2>4. Removed' /\ Busy'
      BY <2>3 DEF Removed
    <2>5. Core(p) => Core(p)'
      BY <1>1, <1>3, StepKeeps
    <2> QED  BY <1>1, <2>4, <2>5, ProcessKeeps
  <1>4. ASSUME NEW p \in Process, NEW cmd \in Commands, NEW arg \in Argument,
               Start(p, cmd, arg)
        PROVE  Inv'
    <2>1. outcome' = "none"
      BY <1>4 DEF Start
    <2>2. Removed' /\ Busy'
      BY <2>1 DEF Removed
    <2>3. Core(p) => Core(p)'
      BY <1>1, <1>4, StartKeeps
    <2> QED  BY <1>1, <2>2, <2>3, ProcessKeeps
  <1>5. ASSUME NEW p \in Process, Finish(p) PROVE Inv'
    <2>1. running'[p].cmd = "none"
      BY <1>1, <1>5, NoPlace DEF Finish, GiveUp
    <2>2. Busy'
      BY <2>1 DEF OneInstaller
    <2>3. /\ outcome' = "uninstall" => running[p].cmd = "uninstall"
          /\ Len(running[p].todo) = 0
          /\ UNCHANGED <<present, doomed, settings, spoiled>>
      BY <1>5 DEF Finish
    <2>4. Removed'
      <3>1. outcome' = "uninstall" => \A n \in {0, 2, 1, 3, 4, 5, 8, 9} : In(p, "uninstall", 0, n)
        BY <2>3 DEF In
      <3>2. Removing(p)
        BY DEF Inv
      <3>3. outcome' = "uninstall" =>
               /\ settings = NoSettings
               /\ TaskGone /\ KeysGone /\ Leaves("app") /\ Leaves("dll") /\ Leaves("exe")
               /\ "entry" \notin present /\ "shortcut" \notin present
        BY <3>1, <3>2 DEF Removing
      <3> QED  BY <2>3, <3>3 DEF Removed, TaskGone, KeysGone, Leaves, File
    <2>5. Core(p) => Core(p)'
      BY <1>1, <1>5, FinishKeeps
    <2> QED  BY <1>1, <2>2, <2>4, <2>5, ProcessKeeps
  <1>6. ASSUME NEW p \in Process, Kill(p) PROVE Inv'
    <2>1. running'[p].cmd = "none"
      BY <1>1, <1>6, NoPlace DEF Kill, GiveUp
    <2>2. Busy'
      BY <2>1 DEF OneInstaller
    <2>3. Removed'
      BY <1>2, <1>6 DEF Kill, Removed, TaskGone, KeysGone, Leaves
    <2>4. Core(p) => Core(p)'
      BY <1>1, <1>6, KillKeeps
    <2> QED  BY <1>1, <2>2, <2>3, <2>4, ProcessKeeps
  <1>7. CASE \E step \in late : SchtasksEnds(step)
    BY <1>1, <1>7, SchtasksKeeps
  <1>8. CASE Restart
    BY <1>1, <1>8, RestartKeeps
  <1>9. CASE UNCHANGED vars
    BY <1>1, <1>9 DEF vars, Inv, Machine, FilterHasProvider, Removed, Installing, Removing,
          In, Stays, KeysGone, TaskGone, Leaves
  <1> QED  BY <1>3, <1>4, <1>5, <1>6, <1>7, <1>8, <1>9 DEF Next

-----------------------------------------------------------------------------
(* What the runs check, for every list of commands and every file that may *)
(* be held open.                                                           *)

\* However a registration or a removal is cut short, LogonUI never finds a
\* filter it can load without the provider, unless a removal ended between
\* deleting the two and no registration has come that far since.
THEOREM FilterNeverAloneEver ==
    ASSUME OneInstaller
    PROVE  Spec => []FilterNeverAlone
  <1>1. Inv => FilterNeverAlone
    <2> SUFFICES ASSUME Inv, Loadable, "provider" \notin present
                 PROVE  "filter" \in spoiled
      BY DEF FilterNeverAlone
    <2>1. "class" \in present /\ "filter" \in present
      BY DEF Loadable
    <2>2. CASE \E p \in Process : In(p, "uninstall", 6, 6) \/ In(p, "unregister", 3, 3)
      <3>1. PICK p \in Process : In(p, "uninstall", 6, 6) \/ In(p, "unregister", 3, 3)
        BY <2>2
      <3>2. In(p, "uninstall", 6, 7) \/ In(p, "unregister", 3, 4)
        BY <3>1 DEF In
      <3>3. "class" \notin present
        BY <3>2 DEF Inv, Removing
      <3> QED  BY <2>1, <3>3
    <2> QED  BY <2>1, <2>2 DEF Inv, Machine, FilterHasProvider
  <1> QED  BY <1>1, SoundInit, SoundStep, PTL DEF Spec

\* Wherever commands are killed, no key points at a library that is gone and no
\* scheduled check-in at a program that is, but for the mishaps the property
\* names: the file came back while Windows meant to delete it, its copy failed
\* and left none, the library could not be loaded to take its keys off, or
\* schtasks.exe failed.  Copying, which nobody checks for the installer, may
\* fail anywhere; the next install that copies the file ends the exception.  The
\* bare "schedule" command asks for no program and is excepted.
THEOREM NothingDanglesEver ==
    ASSUME OneInstaller, "schedule" \notin Commands
    PROVE  Spec => []NothingDangles
  <1>1. Inv => NothingDangles
    BY DEF Inv, Machine, Stays, NothingDangles, RegisteredHasLibrary, TaskHasProgram
  <1> QED  BY <1>1, SoundInit, SoundStep, PTL DEF Spec

\* Whatever machine it started from, an uninstall that ended with success
\* leaves no settings, and only what it could not take off: files for the next
\* start, a task schtasks.exe did not delete, keys whose library went first or
\* could not be loaded.
THEOREM UninstallCompleteEver ==
    ASSUME OneInstaller
    PROVE  Spec => []UninstallComplete
  <1>1. Inv => UninstallComplete
    <2> SUFFICES ASSUME Inv, outcome = "uninstall"
                 PROVE  /\ settings = NoSettings
                        /\ present \subseteq (File \intersect doomed)
                                             \union (spoiled \intersect {"task"})
                                             \union (IF "dll" \in spoiled THEN Key ELSE {})
      BY DEF UninstallComplete
    <2>1. /\ settings = NoSettings
          /\ TaskGone /\ KeysGone /\ \A f \in File : Leaves(f)
          /\ "entry" \notin present /\ "shortcut" \notin present
      BY DEF Inv, Machine, Removed
    <2>2. present \subseteq Artefact
      BY DEF Inv, TInv, TypeOK
    <2> QED  BY <2>1, <2>2 DEF TaskGone, KeysGone, Leaves, Artefact
  <1> QED  BY <1>1, SoundInit, SoundStep, PTL DEF Spec

\* Only a step that erases the removal code takes it away: unprotect's, or
\* that of a removal that has already taken off the keys and the task.
LEMMA ProtectionGoesLast ==
    ASSUME Inv, [Next]_vars, Protected, settings'.code = "none"
    PROVE  \/ \E p \in Process : running[p].cmd = "unprotect"
           \/ /\ present \intersect Key # {} => "dll" \in spoiled
              /\ "task" \in present => "task" \in spoiled
  <1>1. settings' # settings
    BY DEF Protected
  <1>2. PICK p \in Process :
           SetLockEnabled(p) \/ SetUninstallCode(p) \/ ClearUninstallCode(p)
           \/ SetPortalUrl(p) \/ RemoveAll(p)
    <2>1. \A p \in Process : Step(p) =>
             SetLockEnabled(p) \/ SetUninstallCode(p) \/ ClearUninstallCode(p)
             \/ SetPortalUrl(p) \/ RemoveAll(p)
      BY <1>1 DEF Step, CopyLibrary, CopyInstaller, CopyApp, WriteKey, DeleteKey,
           PutQuietly, DeleteQuietly, RunSchtasks, LoadFails, DeleteFile, Unpack, Erase
    <2> QED  BY <1>1, <2>1 DEF Next, Start, Finish, Kill, SchtasksEnds, Restart, vars
  <1>3. TypeOK /\ Plan
    BY DEF Inv, TInv
  <1>4. settings \in [lock: BOOLEAN, code: Code \union {"none"}, url: BOOLEAN]
    BY <1>3 DEF TypeOK
  <1>5. CASE SetLockEnabled(p) \/ SetPortalUrl(p)
    <2>1. settings'.code = settings.code
      BY <1>4, <1>5 DEF SetLockEnabled, SetPortalUrl, Settle
    <2> QED  BY <2>1 DEF Protected
  <1>6. CASE SetUninstallCode(p)
    <2>1. running[p].arg \in Code
      BY <1>3, <1>6, WhereItDoes DEF SetUninstallCode, Settle, AtPlace, Plan, PlanOf
    <2>2. settings' = settings \/ settings'.code = running[p].arg
      BY <1>4, <1>6 DEF SetUninstallCode, Settle
    <2> QED  BY <1>1, <2>1, <2>2 DEF Code
  <1>7. CASE ClearUninstallCode(p)
    <2>1. running[p].cmd = "unprotect"
      BY <1>3, <1>7, WhereItDoes DEF ClearUninstallCode, Settle, AtPlace
    <2> QED  BY <2>1
  <1>8. CASE RemoveAll(p)
    <2>1. AtPlace(p, "uninstall", 1) \/ AtPlace(p, "unregister", 2)
      BY <1>3, <1>8, WhereItDoes DEF RemoveAll, Settle
    <2>2. /\ In(p, "uninstall", 0, 5) \/ In(p, "unregister", 0, 2)
          /\ In(p, "uninstall", 0, 9) \/ In(p, "unregister", 0, 5)
      BY <2>1 DEF AtPlace, In
    <2>3. KeysGone /\ TaskGone
      BY <2>2 DEF Inv, Removing
    <2> QED  BY <2>3 DEF KeysGone, TaskGone
  <1> QED  BY <1>2, <1>5, <1>6, <1>7, <1>8

\* The code that guards a removal is the last thing a removal takes away: one
\* that is cut short asks for it when it is tried again.
THEOREM ProtectionLastEver ==
    ASSUME OneInstaller
    PROVE  Spec => ProtectionLast
  <1> DEFINE LastOfAll ==
        Protected /\ settings'.code = "none" =>
            \/ \E p \in Process : running[p].cmd = "unprotect"
            \/ /\ present \intersect Key # {} => "dll" \in spoiled
               /\ "task" \in present => "task" \in spoiled
  <1>1. Inv /\ [Next]_vars => [LastOfAll]_vars
    BY ProtectionGoesLast
  <1> HIDE DEF LastOfAll
  <1>2. Spec => [][LastOfAll]_vars
    BY <1>1, SoundInit, SoundStep, PTL DEF Spec
  <1> QED  BY <1>2 DEF LastOfAll, ProtectionLast

=============================================================================
