------------------------------ MODULE Installer ------------------------------
(***************************************************************************)
(* zaga_installer (src/installer/Installer.cpp) with the registration code *)
(* of the provider library (src/provider/Dll.cpp) and the settings of      *)
(* src/config/DeviceConfig.cpp.  A command is the list of the changes it   *)
(* makes to the machine, one step each; a process may be killed, and the   *)
(* machine may restart, between any two.  The device store, the portal and *)
(* the gate belong to other modules; directories, whose removal is tried   *)
(* with the files, carry no state here.                                    *)
(***************************************************************************)
EXTENDS Naturals, Sequences

CONSTANTS
    Process,        \* installer processes that may run at once
    Commands,       \* the commands they are given
    Holdable        \* program files some process may have open

File == {"dll", "exe", "app"}
Key == {"class", "provider", "filter"}
Artefact == File \union Key \union {"shortcut", "task", "entry"}

\* Uninstall codes; an absent --code argument reads as "".
Code == {"right", "wrong"}
Argument == Code \union {""}

\* What a command does besides putting things there and taking them off.
Deed == {"arm", "disarm", "protect", "unprotect", "seturl", "clear", "unpack", "erase"}

StepType == [op: {"put", "drop"}, x: Artefact] \union [op: {"do"}, x: Deed]

Put(x) == [op |-> "put", x |-> x]
Drop(x) == [op |-> "drop", x |-> x]
Do(x) == [op |-> "do", x |-> x]

\* Not the code: the filter is registered before the provider.
RegisterStepsFilterFirst == <<Put("class"), Put("filter"), Put("provider")>>

\* DllRegisterServer.  "class" stands for the CLSID key and its values.
RegisterSteps == <<Put("class"), Put("provider"), Put("filter")>>

\* DllUnregisterServer
UnregisterSteps == <<Drop("class"), Drop("provider"), Drop("filter")>>

\* Not the code: the check-in is scheduled before its program is there.
InstallStepsTaskFirst ==
    <<Put("task"), Put("dll")>> \o RegisterSteps \o
    <<Put("exe"), Put("app"), Put("shortcut"), Put("entry"), Do("disarm")>>

InstallSteps ==
    <<Put("dll")>> \o RegisterSteps \o
    <<Put("exe"), Put("app"), Put("shortcut"), Put("task"), Put("entry"), Do("disarm")>>

\* Not the code: the settings, with the removal code in them, are cleared first.
UninstallStepsClearFirst ==
    <<Do("clear"), Drop("task"), Drop("entry")>> \o UnregisterSteps \o
    <<Drop("shortcut"), Drop("app"), Drop("dll"), Drop("exe")>>

\* Not the code: the Add/Remove entry is forgotten.
UninstallStepsNoEntry ==
    <<Drop("task")>> \o UnregisterSteps \o
    <<Drop("shortcut"), Drop("app"), Drop("dll"), Drop("exe"), Do("clear")>>

UninstallSteps ==
    <<Drop("task"), Drop("entry")>> \o UnregisterSteps \o
    <<Drop("shortcut"), Drop("app"), Drop("dll"), Drop("exe"), Do("clear")>>

\* "register" and "unregister" serve a setup package that owns the files.
Steps ==
    [install    |-> InstallSteps,
     uninstall  |-> UninstallSteps,
     register   |-> <<Do("unpack")>> \o RegisterSteps \o <<Put("task"), Do("disarm")>>,
     unregister |-> <<Drop("task")>> \o UnregisterSteps \o <<Do("clear"), Do("erase")>>,
     schedule   |-> <<Put("task")>>,
     unschedule |-> <<Drop("task")>>,
     seturl     |-> <<Do("seturl")>>,
     enable     |-> <<Do("arm")>>,
     disable    |-> <<Do("disarm")>>,
     protect    |-> <<Do("protect")>>,
     unprotect  |-> <<Do("unprotect")>>]

Command == DOMAIN Steps

ASSUME InstallerAssumption == Commands \subseteq Command /\ Holdable \subseteq File

VARIABLES
    present,    \* files, registry keys, task, entry and shortcut on the machine
    doomed,     \* files Windows deletes at the next start
    settings,   \* the values under DeviceConfig's key
    running,    \* per process: its command, its --code and the steps to go
    late,       \* schtasks.exe processes that still run: the steps they make
    outcome,    \* history: "uninstall" if it ended with 0 and no command began since
    spoiled     \* history: what a mishap nobody repaired yet has hit

\* A file is spoiled when it is put back while its deletion is pending, or when a
\* copy fails and there is none to stay; the library also when it cannot be
\* loaded to take its keys off; the filter when a removal ends just before it;
\* the task when schtasks.exe fails or outlasts its command.  The next success on
\* the same artefact mends it.

vars == <<present, doomed, settings, running, late, outcome, spoiled>>

NoSettings == [lock |-> FALSE, code |-> "none", url |-> FALSE]
Idle == [cmd |-> "none", arg |-> "", todo |-> <<>>]

Init ==
    /\ present = {} /\ doomed = {}
    /\ settings = NoSettings
    /\ running = [p \in Process |-> Idle]
    /\ late = {} /\ outcome = "none" /\ spoiled = {}

Protected == settings.code # "none"

\* The next step of a process, and what remains once it is made.
At(p, step) == running[p].todo # <<>> /\ Head(running[p].todo) = step

Proceed(p, n) ==
    running' = [running EXCEPT ![p].todo = SubSeq(@, n + 1, Len(@))]

\* Return 1.
GiveUp(p) == running' = [running EXCEPT ![p] = Idle]

\* A file comes back, in the way of its own deletion or not.
PutBack(fs) ==
    /\ present' = present \union fs
    /\ spoiled' = (spoiled \ fs) \union (fs \intersect doomed)

\* CopyFileW fails: the copy that was there stays, or is lost with the attempt to
\* write over it, or there was none (a full disk, a file in use, a scanner).
CopyFails(f) == present' \in {present, present \ {f}}

\* ... and something relies on a copy that stays.
CopyMissed(f) ==
    CopyFails(f) /\ spoiled' = spoiled \union ({f} \ (present' \ doomed))

\* Processes that end here leave a filter whose provider is gone.
EndsAtFilter(ps) ==
    IF \E p \in ps : At(p, Drop("filter")) THEN {"filter"} ELSE {}

-----------------------------------------------------------------------------
(* Commands begin and end.                                                 *)

\* Not the code: an empty code protects too.
NeedsCodeNever == {}

\* The commands that print their usage when --code is missing.
NeedsCode == {"protect"}

\* uninstall asks for the code when removal is protected; unprotect always does.
Permitted(cmd, arg) ==
    CASE cmd = "uninstall" -> Protected => arg # "" /\ arg = settings.code
      [] cmd = "unprotect" -> Protected /\ arg = settings.code
      [] OTHER -> cmd \in NeedsCode => arg # ""

\* Only protect has a use for its --code once it has begun.
Kept(cmd, arg) == IF cmd = "protect" THEN arg ELSE ""

Start(p, cmd, arg) ==
    /\ running[p] = Idle
    /\ Permitted(cmd, arg)
    /\ running' = [running EXCEPT
          ![p] = [cmd |-> cmd, arg |-> Kept(cmd, arg), todo |-> Steps[cmd]]]
    /\ outcome' = "none"
    /\ UNCHANGED <<present, doomed, settings, late, spoiled>>

Finish(p) ==
    /\ running[p].cmd # "none" /\ running[p].todo = <<>>
    /\ outcome' = IF running[p].cmd = "uninstall" THEN "uninstall" ELSE "none"
    /\ running' = [running EXCEPT ![p] = Idle]
    /\ UNCHANGED <<present, doomed, settings, late, spoiled>>

-----------------------------------------------------------------------------
(* What is put on the machine.                                             *)

\* CopyFileW of the library, and its failure, which ends the command.
CopyLibrary(p) ==
    /\ At(p, Put("dll"))
    /\ \/ PutBack({"dll"}) /\ Proceed(p, 1)
       \/ CopyMissed("dll") /\ GiveUp(p)
    /\ UNCHANGED <<doomed, settings, late, outcome>>

\* A key that cannot be written ends DllRegisterServer and the command; the
\* keys written before stay.  A library that cannot be loaded to be registered
\* ends the command where its first key does.
WriteKey(p, k) ==
    /\ At(p, Put(k))
    /\ \/ /\ present' = present \union {k} /\ Proceed(p, 1)
          /\ spoiled' = IF k = "provider" THEN spoiled \ {"filter"} ELSE spoiled
       \/ UNCHANGED <<present, spoiled>> /\ GiveUp(p)
    /\ UNCHANGED <<doomed, settings, late, outcome>>

\* Nobody looks whether the installer could be copied: over itself, or over a
\* copy that runs, it cannot, and on a full disk there may be none.  What comes
\* after the copy is done all the same.
CopyInstaller(p) ==
    /\ At(p, Put("exe"))
    /\ PutBack({"exe"}) \/ CopyMissed("exe")
    /\ Proceed(p, 1)
    /\ UNCHANGED <<doomed, settings, late, outcome>>

\* The app need not be shipped; without it there is no shortcut either.
CopyApp(p) ==
    /\ At(p, Put("app"))
    /\ \/ PutBack({"app"}) /\ Proceed(p, 1)
       \/ CopyFails("app") /\ UNCHANGED spoiled /\ Proceed(p, 2)
    /\ UNCHANGED <<doomed, settings, late, outcome>>

\* The shortcut is best effort, the Add/Remove entry is written unchecked.
PutQuietly(p, x) ==
    /\ At(p, Put(x))
    /\ \/ present' = present \union {x}
       \/ present' = present
    /\ Proceed(p, 1)
    /\ UNCHANGED <<doomed, settings, late, outcome, spoiled>>

Schedule(step) ==
    present' = IF step.op = "put" THEN present \union {"task"} ELSE present \ {"task"}

\* runProcess waits 30 seconds for schtasks.exe and goes on without it; that
\* it could not be started or failed changes nothing in what follows either.
RunSchtasks(p, step) ==
    /\ At(p, step) /\ step \in {Put("task"), Drop("task")}
    /\ Proceed(p, 1)
    /\ \/ /\ Schedule(step)
          /\ spoiled' = IF late = {} THEN spoiled \ {"task"} ELSE spoiled
          /\ UNCHANGED late
       \/ /\ late' = late \union {step}
          /\ spoiled' = spoiled \union {"task"}
          /\ UNCHANGED present
       \/ spoiled' = spoiled \union {"task"} /\ UNCHANGED <<present, late>>
    /\ UNCHANGED <<doomed, settings, outcome>>

SchtasksEnds(step) ==
    /\ step \in late
    /\ late' = late \ {step}
    /\ Schedule(step)
    /\ UNCHANGED <<doomed, settings, running, outcome, spoiled>>

-----------------------------------------------------------------------------
(* What is taken off it.                                                   *)

\* callDllEntry needs the library to unregister it: it may be gone, or there and
\* LoadLibraryW or GetProcAddress fails; nobody looks at the result.
LoadFails(p) ==
    /\ At(p, Drop("class"))
    /\ Proceed(p, Len(UnregisterSteps))
    /\ spoiled' = spoiled \union (present \intersect {"dll"})
    /\ UNCHANGED <<present, doomed, settings, late, outcome>>

DeleteKey(p, k) ==
    /\ At(p, Drop(k))
    /\ k = "class" => "dll" \in present
    /\ present' = present \ {k}
    /\ spoiled' = spoiled \ {k}
    /\ Proceed(p, 1)
    /\ UNCHANGED <<doomed, settings, late, outcome>>

DeleteQuietly(p, x) ==
    /\ At(p, Drop(x))
    /\ present' = present \ {x}
    /\ Proceed(p, 1)
    /\ UNCHANGED <<doomed, settings, late, outcome, spoiled>>

\* removeFile: now, or at the next start of a machine that has the file open.
DeleteFile(p, f) ==
    /\ At(p, Drop(f))
    /\ \/ present' = present \ {f} /\ UNCHANGED doomed
       \/ /\ f \in present \intersect Holdable
          /\ doomed' = doomed \union {f}
          /\ UNCHANGED present
    /\ Proceed(p, 1)
    /\ UNCHANGED <<settings, late, outcome, spoiled>>

-----------------------------------------------------------------------------
(* The settings.                                                           *)

Settle(p, x, new) ==
    /\ At(p, Do(x))
    /\ settings' = new
    /\ Proceed(p, 1)
    /\ UNCHANGED <<present, doomed, late, outcome, spoiled>>

SetLockEnabled(p) ==
    \/ Settle(p, "arm", [settings EXCEPT !.lock = TRUE])
    \/ Settle(p, "disarm", [settings EXCEPT !.lock = FALSE])

\* The code could not be encrypted or written: the command still ends with 0.
SetUninstallCode(p) ==
    \E new \in {settings, [settings EXCEPT !.code = running[p].arg]} :
        Settle(p, "protect", new)

ClearUninstallCode(p) == Settle(p, "unprotect", [settings EXCEPT !.code = "none"])
SetPortalUrl(p) == Settle(p, "seturl", [settings EXCEPT !.url = TRUE])
RemoveAll(p) == Settle(p, "clear", NoSettings)

-----------------------------------------------------------------------------
(* The rest of the machine.                                                *)

\* The setup package lays its files down before "register" ...
Unpack(p) ==
    /\ At(p, Do("unpack"))
    /\ PutBack(File \union {"shortcut"})
    /\ Proceed(p, 1)
    /\ UNCHANGED <<doomed, settings, late, outcome>>

\* ... and takes them away after "unregister".
Erase(p) ==
    /\ At(p, Do("erase"))
    /\ present' = present \ (File \union {"shortcut"})
    /\ Proceed(p, 1)
    /\ UNCHANGED <<doomed, settings, late, outcome, spoiled>>

Kill(p) ==
    /\ running[p] # Idle
    /\ running' = [running EXCEPT ![p] = Idle]
    /\ spoiled' = spoiled \union EndsAtFilter({p})
    /\ UNCHANGED <<present, doomed, settings, late, outcome>>

\* Windows starts again and deletes, by name, what was left for it.
Restart ==
    /\ present' = present \ doomed
    /\ doomed' = {} /\ late' = {}
    /\ running' = [p \in Process |-> Idle]
    /\ spoiled' = spoiled \union EndsAtFilter(Process)
    /\ UNCHANGED <<settings, outcome>>

Step(p) ==
    \/ CopyLibrary(p) \/ CopyInstaller(p) \/ CopyApp(p)
    \/ \E k \in Key : WriteKey(p, k) \/ DeleteKey(p, k)
    \/ \E x \in {"shortcut", "entry"} : PutQuietly(p, x) \/ DeleteQuietly(p, x)
    \/ \E step \in {Put("task"), Drop("task")} : RunSchtasks(p, step)
    \/ LoadFails(p)
    \/ \E f \in File : DeleteFile(p, f)
    \/ SetLockEnabled(p) \/ SetUninstallCode(p) \/ ClearUninstallCode(p)
    \/ SetPortalUrl(p) \/ RemoveAll(p)
    \/ Unpack(p) \/ Erase(p)

Next ==
    \/ \E p \in Process :
          \/ \E cmd \in Commands, arg \in Argument : Start(p, cmd, arg)
          \/ Step(p) \/ Finish(p) \/ Kill(p)
    \/ \E step \in late : SchtasksEnds(step)
    \/ Restart

Spec == Init /\ [][Next]_vars

-----------------------------------------------------------------------------
TypeOK ==
    /\ present \in SUBSET Artefact
    /\ doomed \in SUBSET File
    /\ settings \in [lock: BOOLEAN, code: Code \union {"none"}, url: BOOLEAN]
    /\ running \in [Process -> [cmd: Command \union {"none"}, arg: Argument,
                                todo: Seq(StepType)]]
    /\ late \in SUBSET {Put("task"), Drop("task")}
    /\ outcome \in {"none", "uninstall"}
    /\ spoiled \in SUBSET Artefact

\* LogonUI finds and loads the library as a filter.
Loadable == {"class", "filter", "dll"} \subseteq present

Quiet == late = {} /\ \A p \in Process : running[p] = Idle

\* The filter hides every other way to sign in and the provider brings the
\* unlock tile (ZagaProvider.h:9-13): wherever a registration or a removal is
\* cut short, there is no filter LogonUI can load without the provider,
\* unless a removal ended between the two and no registration came that far.
FilterNeverAlone == Loadable => "provider" \in present \/ "filter" \in spoiled

\* No key is left pointing at a library that is gone: it is copied before it
\* is registered, and deleted after, wherever a command is killed, unless it
\* was put back while Windows still meant to delete it, was lost with a copy
\* that failed to replace it, or could not be loaded to take its keys off.
RegisteredHasLibrary ==
    present \intersect Key # {} => "dll" \in present \union spoiled

\* "install copies the installer to the program folder and registers a SYSTEM
\* scheduled task that runs heartbeat hourly" (CONNECTIVITY.md:100-102): the
\* scheduled check-in has a program to run, unless schtasks.exe failed or came
\* too late, or the program was put back while Windows still meant to delete it.
\* The code does not keep the sentence when the copy itself fails: the task is
\* then scheduled without its program, until the next install that copies it.
TaskHasProgram ==
    "task" \in present => "exe" \in present \union spoiled \/ "task" \in spoiled

\* Wherever an installation or a removal is cut short, no key and no task stays
\* on the machine that points at a file which is gone, those four mishaps apart.
NothingDangles == RegisteredHasLibrary /\ TaskHasProgram

\* "Both unregister the provider, remove the files and scheduled task, and
\* clear all settings" (DEPLOY.md:103-104), whatever broken installation or
\* interrupted removal the uninstall command started from.  What may be left
\* is a file for the next start, a task schtasks.exe did not delete, and the
\* keys of a library that was lost or could not be loaded to delete them.
UninstallComplete ==
    Quiet /\ outcome = "uninstall" =>
        /\ settings = NoSettings
        /\ present \subseteq (File \intersect doomed)
                             \union (spoiled \intersect {"task"})
                             \union (IF "dll" \in spoiled THEN Key ELSE {})

\* Protection is the last thing a removal takes away: one that is cut short
\* asks for the code when it is tried again.  It outlives the keys of a library
\* that is there and can be loaded, and a task schtasks.exe deletes.
ProtectionLast ==
    [][Protected /\ settings'.code = "none" =>
          \/ \E p \in Process : running[p].cmd = "unprotect"
          \/ /\ present \intersect Key # {} => "dll" \in spoiled
             /\ "task" \in present => "task" \in spoiled]_vars

=============================================================================
