----------------------------- MODULE DeviceLock -----------------------------
(***************************************************************************)
(* What the device lock promises, without files or reads and writes that   *)
(* can interleave: a code is either granted, in one step that consumes its *)
(* counter and adds its days, or refused and changes nothing.              *)
(***************************************************************************)
EXTENDS Verifier

CONSTANTS
    Proc,      \* who enters codes
    Day,       \* the days the clock may show
    Absent,    \* no device has been provisioned
    NoCode     \* nothing is asked

VARIABLES
    device,    \* the provisioned device: its secret and its state
    latest,    \* the latest day there has been
    stage,     \* what each process's request has come to
    asked,     \* the code it asks to redeem
    reply      \* what it was told last

vars == <<device, latest, stage, asked, reply>>

Init ==
    /\ device = Absent
    /\ latest \in Day
    /\ stage = [p \in Proc |-> "idle"]
    /\ asked = [p \in Proc |-> NoCode]
    /\ reply = [p \in Proc |-> "none"]

Set(p, s, c, r) ==
    /\ stage' = [stage EXCEPT ![p] = s]
    /\ asked' = [asked EXCEPT ![p] = c]
    /\ reply' = [reply EXCEPT ![p] = r]

Ask(p) ==
    /\ stage[p] = "idle"
    /\ \E c \in Code : Set(p, "asked", c, "none")
    /\ UNCHANGED <<device, latest>>

\* The code counts on some day up to now: the clock may have moved since it
\* was read, or show less than it once did.
Grant(p) ==
    /\ stage[p] = "asked" /\ device # Absent
    /\ \E day \in Day :
          LET verdict == Apply(device.state, asked[p], device.secret, day) IN
          /\ day <= latest
          /\ verdict.result = "Accepted"
          /\ device' = [device EXCEPT !.state = verdict.state]
    /\ Set(p, "granted", asked[p], reply[p])
    /\ UNCHANGED latest

Accept(p) ==
    /\ stage[p] = "granted"
    /\ Set(p, "idle", NoCode, "Accepted")
    /\ UNCHANGED <<device, latest>>

\* Any code may be refused, when a file cannot be read or written; one is
\* called used only when it is genuine and its counter has been passed.
Refuse(p) ==
    /\ stage[p] = "asked"
    /\ \/ Set(p, "idle", NoCode, "RejectedInvalid")
       \/ /\ device # Absent
          /\ Apply(device.state, asked[p], device.secret, latest).result
                = "RejectedReplay"
          /\ Set(p, "idle", NoCode, "RejectedReplay")
    /\ UNCHANGED <<device, latest>>

\* A process asks for something else, or goes away before it has its reply.
Forget ==
    /\ \E gone \in SUBSET Proc, silent \in SUBSET Proc :
          /\ stage' = [p \in Proc |-> IF p \in gone THEN "idle" ELSE stage[p]]
          /\ asked' = [p \in Proc |-> IF p \in gone THEN NoCode ELSE asked[p]]
          /\ reply' = [p \in Proc |-> IF p \in silent THEN "none" ELSE reply[p]]
    /\ UNCHANGED <<device, latest>>

Provision ==
    /\ \E s \in Secret : device' = [secret |-> s, state |-> FreshState]
    /\ UNCHANGED <<latest, stage, asked, reply>>

TimePasses ==
    /\ latest' \in Day /\ latest' > latest
    /\ UNCHANGED <<device, stage, asked, reply>>

Next ==
    \/ \E p \in Proc : Ask(p) \/ Grant(p) \/ Accept(p) \/ Refuse(p)
    \/ Forget \/ Provision \/ TimePasses

Spec == Init /\ [][Next]_vars

\* A counter is never given back while the device keeps its provisioning.
CountersAreSpent ==
    [][device # Absent =>
          \/ device'.state = FreshState
          \/ device'.state.lastCounter >= device.state.lastCounter]_vars

=============================================================================
