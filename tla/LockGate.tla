------------------------------ MODULE LockGate ------------------------------
(***************************************************************************)
(* The gate (gate/LockGate.cpp) and everything that moves it: processes    *)
(* that apply codes, that provision the device and that ask whether it is  *)
(* locked, over the store of LocalStore, the registry switch of            *)
(* DeviceConfig and the system clock.  Each process runs one call at a     *)
(* time; calls of different processes interleave at every read and write.  *)
(***************************************************************************)
EXTENDS Verifier, LocalStore

CONSTANTS
    Day,            \* the days the clock may show, since the epoch of todayDay
    Writer,         \* the processes that apply codes
    Provisioner,    \* the writers that also provision the device
    Reprovision,    \* may a device be provisioned again over an existing store?
    Kills,          \* may a process end in the middle of a call?
    Cuts,           \* may the power fail?
    RegistryFaults, \* may reading LockEnabled fail?
    NoCode,         \* the argument of a call that has none
    Sold(_, _)      \* days sold under a secret by all codes up to a counter

StoredDevice == [secret: Secret, state: DeviceState]

ASSUME GateAssumption ==
    /\ Day \subseteq Nat /\ Day # {}
    /\ Writer \subseteq Proc /\ Provisioner \subseteq Writer
    /\ {Absent, Torn} \intersect StoredDevice = {}
    /\ Reprovision \in BOOLEAN /\ RegistryFaults \in BOOLEAN
    /\ Kills \in BOOLEAN /\ Cuts \in BOOLEAN

Counters == {0} \union {c.counter : c \in Code}

\* Sold is any tally of the portal's sales that counts every code once: what it
\* says of a code's counter exceeds what it says of any lower one by the days
\* of that code at least.
ASSUME SoldAssumption ==
    /\ \A s \in Secret, n \in Counters : Sold(s, n) \in Nat
    /\ \A c \in Code, n \in Counters :
          c.key \in Secret /\ n < c.counter
              => Sold(c.key, n) + c.durationDays <= Sold(c.key, c.counter)

VARIABLES
    today,      \* the day the system clock shows
    enabled,    \* LockEnabled in the registry
    pc,         \* which call each process is in, and how far
    code,       \* the code an applyCode in progress was given
    saw,        \* what a describe in progress read from LockEnabled
    answer,     \* what the process's last call told its user
    latest,     \* history: the latest day the clock has shown
    consumed    \* history: counters answered "Accepted" since provisioning

gateVars == <<today, enabled, pc, code, saw, answer, latest, consumed>>
vars == <<storeVars, gateVars>>

Call == {"idle", "apply", "commit", "provision", "describe"}
Seen == {"unread", "on", "off", "failed"}
Answer == Result \union {"none", "Provisioned", "NotProvisioned", "open", "closed"}

Init ==
    /\ StoreInit
    /\ today \in Day
    /\ latest = today
    /\ enabled = FALSE
    /\ pc = [p \in Proc |-> "idle"]
    /\ code = [p \in Proc |-> NoCode]
    /\ saw = [p \in Proc |-> "unread"]
    /\ answer = [p \in Proc |-> "none"]
    /\ consumed = {}

Enter(p, call) ==
    /\ pc[p] = "idle" /\ io[p] = "idle"
    /\ pc' = [pc EXCEPT ![p] = call]
    /\ answer' = [answer EXCEPT ![p] = "none"]

\* The call ends and its user reads the answer.
Respond(p, a) ==
    /\ pc' = [pc EXCEPT ![p] = "idle"]
    /\ code' = [code EXCEPT ![p] = NoCode]
    /\ saw' = [saw EXCEPT ![p] = "unread"]
    /\ answer' = [answer EXCEPT ![p] = a]
    /\ Return(p)

-----------------------------------------------------------------------------
(* LockGate::applyCode.                                                    *)

ApplyCode(p, c) ==
    /\ p \in Writer
    /\ Enter(p, "apply")
    /\ code' = [code EXCEPT ![p] = c]
    /\ CallLoad(p)
    /\ UNCHANGED <<today, enabled, saw, latest, consumed>>

\* "This device is not provisioned."
ApplyUnloaded(p) ==
    /\ pc[p] = "apply" /\ io[p] = "failed"
    /\ Respond(p, "RejectedInvalid")
    /\ UNCHANGED <<today, enabled, latest, consumed>>

Verdict(p) == Apply(buf[p].state, code[p], buf[p].secret, today)

ApplyRejected(p) ==
    /\ pc[p] = "apply" /\ io[p] = "ok"
    /\ Verdict(p).result # "Accepted"
    /\ Respond(p, Verdict(p).result)
    /\ UNCHANGED <<today, enabled, latest, consumed>>

\* The verified state exists only in this process until save has returned.
ApplyVerified(p) ==
    /\ pc[p] = "apply" /\ io[p] = "ok"
    /\ Verdict(p).result = "Accepted"
    /\ CallSave(p, [buf[p] EXCEPT !.state = Verdict(p).state])
    /\ pc' = [pc EXCEPT ![p] = "commit"]
    /\ UNCHANGED <<today, enabled, code, saw, answer, latest, consumed>>

\* "Code accepted. The device is unlocked."
ApplySaved(p) ==
    /\ pc[p] = "commit" /\ io[p] = "ok"
    /\ consumed' = consumed \union {buf[p].state.lastCounter}
    /\ Respond(p, "Accepted")
    /\ UNCHANGED <<today, enabled, latest>>

\* Not the code: the result of save is not looked at.
ApplyUnsavedAccepted(p) ==
    /\ pc[p] = "commit" /\ io[p] = "failed"
    /\ consumed' = consumed \union {buf[p].state.lastCounter}
    /\ Respond(p, "Accepted")
    /\ UNCHANGED <<today, enabled, latest>>

\* "Could not save device state. The device stays locked."
ApplyUnsaved(p) ==
    /\ pc[p] = "commit" /\ io[p] = "failed"
    /\ Respond(p, "RejectedInvalid")
    /\ UNCHANGED <<today, enabled, latest, consumed>>

-----------------------------------------------------------------------------
(* LockGate::describe.  It reads the switch, the store and the clock one   *)
(* after the other; the last read and the answer are one step.             *)

Describe(p) ==
    /\ Enter(p, "describe")
    /\ \/ saw' = [saw EXCEPT ![p] = IF enabled THEN "on" ELSE "off"]
       \/ RegistryFaults /\ enabled /\ saw' = [saw EXCEPT ![p] = "failed"]
    /\ CallLoad(p)
    /\ UNCHANGED <<today, enabled, code, latest, consumed>>

\* readDword falls back to 0 on any error: a failed read of a switch that is
\* on counts as off.
LockEnabledReads(p) == saw[p] = "on"

\* Not the code: a device is locked the day after its deadline.
LockedDayLate(p) ==
    /\ LockEnabledReads(p)
    /\ io[p] = "ok" => today > buf[p].state.lockDeadlineDay

\* Not the code: a store that cannot be read leaves the device open.
LockedIfLoaded(p) ==
    /\ LockEnabledReads(p)
    /\ io[p] = "ok" /\ today >= buf[p].state.lockDeadlineDay

Locked(p) ==
    /\ LockEnabledReads(p)
    /\ io[p] = "ok" => today >= buf[p].state.lockDeadlineDay

DescribeReturns(p) ==
    /\ pc[p] = "describe" /\ io[p] \in Returned
    /\ Respond(p, IF Locked(p) THEN "closed" ELSE "open")
    /\ UNCHANGED <<today, enabled, latest, consumed>>

-----------------------------------------------------------------------------
(* The installer's commands that write what the gate reads.                *)

\* doProvision and enrollWith: a record built from defaults over any old one.
Provision(p, secret) ==
    /\ p \in Provisioner
    /\ Reprovision \/ file = Absent
    /\ Enter(p, "provision")
    /\ CallSave(p, [secret |-> secret, state |-> FreshState])
    /\ UNCHANGED <<today, enabled, code, saw, latest, consumed>>

ProvisionReturns(p) ==
    /\ pc[p] = "provision" /\ io[p] \in Returned
    /\ Respond(p, IF io[p] = "ok" THEN "Provisioned" ELSE "NotProvisioned")
    /\ UNCHANGED <<today, enabled, latest, consumed>>

\* The commands enable and disable.
SetLockEnabled(on) ==
    /\ enabled # on
    /\ enabled' = on
    /\ UNCHANGED <<storeVars, today, pc, code, saw, answer, latest, consumed>>

-----------------------------------------------------------------------------
(* What goes on around the calls.                                          *)

StoreStep(p) ==
    /\ StoreAction(p)
    /\ consumed' = IF pc[p] = "provision" /\ io'[p] = "ok" THEN {} ELSE consumed
    /\ UNCHANGED <<today, enabled, pc, code, saw, answer, latest>>

\* Midnight passes, or the system time is corrected, forwards or back.
ClockChanges ==
    /\ today' \in Day \ {today}
    /\ latest' = Later(latest, today')
    /\ UNCHANGED <<storeVars, enabled, pc, code, saw, answer, consumed>>

KillProcess(p) ==
    /\ Kills
    /\ Kill(p)
    /\ pc' = [pc EXCEPT ![p] = "idle"]
    /\ code' = [code EXCEPT ![p] = NoCode]
    /\ saw' = [saw EXCEPT ![p] = "unread"]
    /\ UNCHANGED <<today, enabled, answer, latest, consumed>>

LosePower ==
    /\ Cuts
    /\ PowerCut
    /\ pc' = [p \in Proc |-> "idle"]
    /\ code' = [p \in Proc |-> NoCode]
    /\ saw' = [p \in Proc |-> "unread"]
    /\ answer' = [p \in Proc |-> "none"]
    /\ UNCHANGED <<today, enabled, latest, consumed>>

LazyWrite == Flush /\ UNCHANGED gateVars

\* The steps a process takes once it has been called.
Proceed(p) ==
    \/ StoreStep(p)
    \/ ApplyUnloaded(p) \/ ApplyRejected(p) \/ ApplyVerified(p)
    \/ ApplySaved(p) \/ ApplyUnsaved(p)
    \/ DescribeReturns(p)
    \/ ProvisionReturns(p)

Next ==
    \/ \E p \in Proc : \/ \E c \in Code : ApplyCode(p, c)
                       \/ \E s \in Secret : Provision(p, s)
                       \/ Describe(p)
                       \/ Proceed(p)
                       \/ KillProcess(p)
    \/ \E on \in BOOLEAN : SetLockEnabled(on)
    \/ ClockChanges
    \/ LosePower
    \/ LazyWrite

\* A process in a call is scheduled; nobody is made to call.
Fairness == \A p \in Proc : WF_vars(Proceed(p))

Spec == Init /\ [][Next]_vars /\ Fairness

-----------------------------------------------------------------------------
TypeOK ==
    /\ StoreTypeOK(StoredDevice)
    /\ today \in Day /\ latest \in Day
    /\ enabled \in BOOLEAN
    /\ pc \in [Proc -> Call]
    /\ code \in [Proc -> Code \union {NoCode}]
    /\ saw \in [Proc -> Seen]
    /\ answer \in [Proc -> Answer]
    /\ consumed \in SUBSET Nat

\* However calls interleave, however often one is cut off and repeated, and
\* even when an update is lost, the deadline on disk lies no further ahead than
\* the days of distinct codes account for: no code's days are counted twice.
WithinSold(d, day) ==
    /\ d.state.lastCounter \in Counters
    /\ d.state.lockDeadlineDay <= day + Sold(d.secret, d.state.lastCounter)

NoUnsoldDays == file \notin {Absent, Torn} => WithinSold(file, latest)

\* The state on disk is that of a device nobody has paid for, or one that a
\* code signed with this very device's secret put there: counter, remaining
\* days, status and grace flag all stem from the same code.
Redeems(c, d) ==
    /\ c.key = d.secret
    /\ c.counter = d.state.lastCounter
    /\ c.durationDays <= d.state.lockDeadlineDay
    /\ d.state.status = "Active"
    /\ d.state.lastTokenWasGrace <=> c.type = "Grace"

Backed(d) == d.state = FreshState \/ \E c \in Code : Redeems(c, d)

\* The gate is lifted on an armed device only for a period some genuine code
\* bought: "the device stays locked" otherwise (README.md:5-6).
Lifted == file \notin {Absent, Torn} /\ today < file.state.lockDeadlineDay

OpenOnlyIfPaid == Lifted => \E c \in Code : Redeems(c, file)

\* "Highest token counter consumed" (FUNCTIONALITY.md 5): no code whose
\* acceptance was reported has a counter above the one on disk.
HighestConsumed ==
    file \notin {Absent, Torn} =>
        \A n \in consumed : n <= file.state.lastCounter

\* An open answer of an armed gate holds at the moment it is given, although
\* the switch, the store and the clock were read at three different moments.
OpenAnswerIsCurrent ==
    [][\A p \in Proc :
          DescribeReturns(p) /\ answer'[p] = "open" /\ saw[p] # "off"
              => Lifted]_vars

\* "Fail closed everywhere: if a check cannot complete, the device stays
\* locked" (FUNCTIONALITY.md:149), of the reads a describe makes.
FailClosed ==
    [][\A p \in Proc :
          DescribeReturns(p) /\ enabled /\ saw[p] # "off"
                             /\ "failed" \in {saw[p], io[p]}
              => answer'[p] = "closed"]_vars

-----------------------------------------------------------------------------
\* With one process writing, the gate is the lock of DeviceLock.
stage ==
    [p \in Proc |-> IF pc[p] = "commit" /\ io[p] = "ok" THEN "granted"
                    ELSE IF pc[p] \in {"apply", "commit"} THEN "asked"
                    ELSE "idle"]

reply == [p \in Proc |-> IF answer[p] \in Result THEN answer[p] ELSE "none"]

Lock == INSTANCE DeviceLock
        WITH device <- file, asked <- code

ImplementsLock == Lock!Spec

=============================================================================
