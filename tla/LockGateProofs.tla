--------------------------- MODULE LockGateProofs ---------------------------
(***************************************************************************)
(* What holds of the gate for every number of processes, codes and days,   *)
(* with every fault switched on or off: the types, and that no period is   *)
(* on disk that distinct genuine codes did not buy.                        *)
(***************************************************************************)
EXTENDS LockGate, TLAPS

-----------------------------------------------------------------------------
(* What Verifier::apply does to a record.                                  *)

\* A device nobody has paid for has a state like any other.
LEMMA FreshIsTyped == FreshState \in DeviceState
  BY DEF FreshState, DeviceState, Status

\* What an accepted token leaves is a state, with the fields Redeemed names.
LEMMA RedeemedIsTyped ==
    ASSUME NEW state \in DeviceState, NEW token \in Token, NEW day \in Nat
    PROVE  LET after == Redeemed(state, token, day) IN
           /\ after \in DeviceState
           /\ after.lastCounter = token.counter
           /\ after.lockDeadlineDay =
                  Later(day, state.lockDeadlineDay) + token.durationDays
           /\ after.status = "Active"
           /\ after.lastTokenWasGrace = (token.type = "Grace")
  <1>1. Later(day, state.lockDeadlineDay) + token.durationDays \in Nat
    BY DEF Later, DeviceState, Token
  <1>2. token.counter \in Nat  BY DEF Token
  <1> QED  BY <1>1, <1>2 DEF Redeemed, DeviceState, Status

\* Apply accepts exactly the codes of the device's key with a higher counter,
\* and whatever it does not accept changes nothing.
LEMMA ApplyCases ==
    ASSUME NEW state \in DeviceState, NEW c \in Code, NEW secret \in Secret, NEW day
    PROVE  LET verdict == Apply(state, c, secret, day)
               token == [counter |-> c.counter, durationDays |-> c.durationDays,
                         type |-> c.type]
           IN  /\ verdict.result \in Result
               /\ verdict.result = "Accepted" <=>
                      c.key = secret /\ c.counter > state.lastCounter
               /\ verdict.result = "Accepted" =>
                      /\ token \in Token
                      /\ verdict.state = Redeemed(state, token, day)
               /\ verdict.result # "Accepted" => verdict.state = state
               /\ verdict.result = "RejectedReplay" <=>
                      c.key = secret /\ c.counter <= state.lastCounter
  <1> DEFINE token == [counter |-> c.counter, durationDays |-> c.durationDays,
                       type |-> c.type]
  <1>1. c.counter \in Nat /\ c.durationDays \in Nat /\ c.type \in TokenType
    BY CodeAssumption
  <1>2. token \in Token  BY <1>1 DEF Token
  <1>3. NoToken # token  BY <1>2, CodeAssumption
  <1>4. state.lastCounter \in Nat  BY DEF DeviceState
  <1>5. token.counter = c.counter  OBVIOUS
  <1>6. CASE c.key = secret
    <2>1. Decode(c, secret) = token  BY <1>6 DEF Decode
    <2>2. CASE token.counter <= state.lastCounter
      <3>1. c.counter <= state.lastCounter /\ ~(c.counter > state.lastCounter)
        BY <2>2, <1>1, <1>4, <1>5
      <3>2. Apply(state, c, secret, day) = [result |-> "RejectedReplay", state |-> state]
        BY <2>1, <2>2, <1>3 DEF Apply
      <3> QED  BY <3>1, <3>2, <1>6 DEF Result
    <2>3. CASE ~(token.counter <= state.lastCounter)
      <3>1. c.counter > state.lastCounter /\ ~(c.counter <= state.lastCounter)
        BY <2>3, <1>1, <1>4, <1>5
      <3>2. Apply(state, c, secret, day) =
               [result |-> "Accepted", state |-> Redeemed(state, token, day)]
        BY <2>1, <2>3, <1>3 DEF Apply
      <3> QED  BY <3>1, <3>2, <1>2, <1>6 DEF Result
    <2> QED  BY <2>2, <2>3
  <1>7. CASE c.key # secret
    BY <1>7 DEF Apply, Decode, Result
  <1> QED  BY <1>6, <1>7

\* An accepted code is the device's own and new; the state it leaves, field by
\* field.
LEMMA AcceptedState ==
    ASSUME NEW state \in DeviceState, NEW c \in Code, NEW secret \in Secret,
           NEW day \in Nat, Apply(state, c, secret, day).result = "Accepted"
    PROVE  LET after == Apply(state, c, secret, day).state IN
           /\ c.key = secret /\ c.counter > state.lastCounter
           /\ after \in DeviceState
           /\ after.lastCounter = c.counter
           /\ after.lockDeadlineDay =
                  Later(day, state.lockDeadlineDay) + c.durationDays
           /\ after.status = "Active"
           /\ after.lastTokenWasGrace = (c.type = "Grace")
  <1> DEFINE token == [counter |-> c.counter, durationDays |-> c.durationDays,
                       type |-> c.type]
  <1>0. c.key = secret /\ c.counter > state.lastCounter
    BY ApplyCases
  <1>1. token \in Token /\ Apply(state, c, secret, day).state = Redeemed(state, token, day)
    BY ApplyCases
  <1>2. /\ token.counter = c.counter
        /\ token.durationDays = c.durationDays
        /\ token.type = c.type
    OBVIOUS
  <1> HIDE DEF token
  <1> QED  BY <1>0, <1>1, <1>2, RedeemedIsTyped

\* A code is called used exactly when it is genuine and its counter is spent.
LEMMA ReplayCases ==
    ASSUME NEW state \in DeviceState, NEW c \in Code, NEW secret \in Secret, NEW day
    PROVE  /\ Apply(state, c, secret, day).result = "RejectedReplay"
              => c.key = secret /\ c.counter <= state.lastCounter
           /\ c.key = secret /\ c.counter <= state.lastCounter
              => Apply(state, c, secret, day).result = "RejectedReplay"
  <1>1. /\ c.counter \in Nat /\ state.lastCounter \in Nat
        /\ NoToken \notin Token /\ c.durationDays \in Nat /\ c.type \in TokenType
    BY CodeAssumption DEF DeviceState
  <1>2. CASE c.key = secret /\ c.counter <= state.lastCounter
    BY <1>1, <1>2 DEF Apply, Decode, Token
  <1>3. CASE c.key = secret /\ ~(c.counter <= state.lastCounter)
    BY <1>1, <1>3 DEF Apply, Decode, Token
  <1>4. CASE c.key # secret
    BY <1>4 DEF Apply, Decode
  <1> QED  BY <1>2, <1>3, <1>4

-----------------------------------------------------------------------------
(* The gate.                                                               *)

\* Every call is where its caller believes it to be: a process inside save, or
\* back from a call that succeeded, holds a whole record, and a file that is
\* being read exists.
CallsOK ==
    \A p \in Proc :
        /\ pc[p] = "idle" => io[p] = "idle"
        /\ pc[p] \in {"apply", "describe"} => io[p] \in LoadStep \union Returned
        /\ pc[p] \in {"commit", "provision"} => io[p] \in SaveStep \union Returned
        /\ pc[p] = "apply" => code[p] \in Code
        /\ io[p] \in SaveStep \union {"ok"} => buf[p] \in StoredDevice
        /\ io[p] = "read" => file # Absent

TInv == TypeOK /\ CallsOK

\* What stands for no record is none.
LEMMA ConstantsAreApart ==
    /\ Absent \notin StoredDevice /\ Torn \notin StoredDevice /\ Absent # Torn
  BY GateAssumption, StoreAssumption

\* A record whose state an accepted code replaces is still a record.
LEMMA AcceptedIsTyped ==
    ASSUME NEW d \in StoredDevice, NEW c \in Code, NEW day \in Day,
           Apply(d.state, c, d.secret, day).result = "Accepted"
    PROVE  [d EXCEPT !.state = Apply(d.state, c, d.secret, day).state]
               \in StoredDevice
  <1>1. d.state \in DeviceState /\ d.secret \in Secret /\ day \in Nat
    BY GateAssumption DEF StoredDevice
  <1>2. Apply(d.state, c, d.secret, day).state \in DeviceState
    BY <1>1, AcceptedState
  <1> QED  BY <1>2 DEF StoredDevice

-----------------------------------------------------------------------------
(* Types, and where the calls are.                                         *)

LEMMA InitTInv == Init => TInv
  <1> SUFFICES ASSUME Init PROVE TInv
    OBVIOUS
  <1>1. StoreTypeOK(StoredDevice)
    BY DEF Init, StoreInit, StoreTypeOK, IoStep
  <1>2. TypeOK
    BY <1>1 DEF Init, TypeOK, Call, Seen, Answer
  <1>3. CallsOK
    BY DEF Init, StoreInit, CallsOK, SaveStep
  <1> QED  BY <1>2, <1>3 DEF TInv

\* The calls the operating system makes for a process inside load or save.
LEMMA StoreStepTInv ==
    ASSUME TInv, NEW p \in Proc, StoreStep(p)
    PROVE  TInv'
  <1> USE DEF TInv
  <1>1. /\ TypeOK /\ CallsOK /\ StoreAction(p)
        /\ UNCHANGED <<today, enabled, pc, code, saw, answer, latest>>
    BY DEF StoreStep
  <1>2. consumed' \in SUBSET Nat
    BY DEF StoreStep, TypeOK
  <1>3. CASE OpenForRead(p)
    BY <1>1, <1>2, <1>3, ConstantsAreApart
    DEF OpenForRead, TypeOK, CallsOK, StoreTypeOK, Goto, IoStep, LoadStep, SaveStep, Returned, Call
  <1>4. CASE OpenForReadFails(p)
    BY <1>1, <1>2, <1>4, ConstantsAreApart
    DEF OpenForReadFails, TypeOK, CallsOK, StoreTypeOK, Goto, IoStep, LoadStep, SaveStep, Returned, Call
  <1>5. CASE FinishRead(p)
    BY <1>1, <1>2, <1>5, ConstantsAreApart
    DEF FinishRead, TypeOK, CallsOK, StoreTypeOK, Goto, IoStep, LoadStep, SaveStep, Returned, Call
  <1>6. CASE ReadFails(p)
    BY <1>1, <1>2, <1>6, ConstantsAreApart
    DEF ReadFails, TypeOK, CallsOK, StoreTypeOK, Goto, IoStep, LoadStep, SaveStep, Returned, Call
  <1>7. CASE CreateTemp(p)
    BY <1>1, <1>2, <1>7, ConstantsAreApart
    DEF CreateTemp, TypeOK, CallsOK, StoreTypeOK, Goto, IoStep, LoadStep, SaveStep, Returned, Call
  <1>8. CASE CreateTempFails(p)
    BY <1>1, <1>2, <1>8, ConstantsAreApart
    DEF CreateTempFails, TypeOK, CallsOK, StoreTypeOK, Goto, IoStep, LoadStep, SaveStep, Returned, Call
  <1>9. CASE WriteTemp(p)
    BY <1>1, <1>2, <1>9, ConstantsAreApart
    DEF WriteTemp, TypeOK, CallsOK, StoreTypeOK, Goto, IoStep, LoadStep, SaveStep, Returned, Call
  <1>10. CASE WriteTempFails(p)
    BY <1>1, <1>2, <1>10, ConstantsAreApart
    DEF WriteTempFails, TypeOK, CallsOK, StoreTypeOK, Goto, IoStep, LoadStep, SaveStep, Returned, Call
  <1>11. CASE RenameTemp(p)
    BY <1>1, <1>2, <1>11, ConstantsAreApart
    DEF RenameTemp, CanRename, TypeOK, CallsOK, StoreTypeOK, Goto, IoStep, LoadStep, SaveStep, Returned, Call
  <1>12. CASE RenameTempFails(p)
    BY <1>1, <1>2, <1>12, ConstantsAreApart
    DEF RenameTempFails, TypeOK, CallsOK, StoreTypeOK, Goto, IoStep, LoadStep, SaveStep, Returned, Call
  <1>13. CASE DeleteTemp(p)
    BY <1>1, <1>2, <1>13, ConstantsAreApart
    DEF DeleteTemp, TypeOK, CallsOK, StoreTypeOK, Goto, IoStep, LoadStep, SaveStep, Returned, Call
  <1> QED
    BY <1>1, <1>3, <1>4, <1>5, <1>6, <1>7, <1>8, <1>9, <1>10, <1>11, <1>12, <1>13
    DEF StoreAction, LoadAction, SaveAction

\* The steps of the calls themselves.
LEMMA CallTInv ==
    ASSUME TInv, NEW p \in Proc,
           \/ \E c \in Code : ApplyCode(p, c)
           \/ \E s \in Secret : Provision(p, s)
           \/ Describe(p)
    PROVE  TInv'
  <1> USE DEF TInv
  <1>1. CASE \E c \in Code : ApplyCode(p, c)
    BY <1>1
    DEF ApplyCode, Enter, CallLoad, Answer, TypeOK, CallsOK, StoreTypeOK, Goto, IoStep,
        LoadStep, SaveStep, Returned, Call
  <1>2. CASE \E s \in Secret : Provision(p, s)
    <2>1. PICK s \in Secret : Provision(p, s)  BY <1>2
    <2>2. [secret |-> s, state |-> FreshState] \in StoredDevice
      BY FreshIsTyped DEF StoredDevice
    <2> QED
      BY <2>1, <2>2
      DEF Provision, Enter, CallSave, Answer, TypeOK, CallsOK, StoreTypeOK, Goto, IoStep,
        LoadStep, SaveStep, Returned, Call
  <1>3. CASE Describe(p)
    BY <1>3
    DEF Describe, Enter, CallLoad, Answer, Seen, TypeOK, CallsOK, StoreTypeOK, Goto, IoStep,
        LoadStep, SaveStep, Returned, Call
  <1> QED  BY <1>1, <1>2, <1>3

\* A call that returns leaves its process idle on both levels.
LEMMA RespondTInv ==
    ASSUME TInv, NEW p \in Proc, NEW a \in Answer, Respond(p, a),
           today' = today, enabled' = enabled, latest' = latest,
           consumed' \in SUBSET Nat
    PROVE  TInv'
  BY DEF TInv, Respond, Return, Seen, TypeOK, CallsOK, StoreTypeOK, Goto, IoStep,
        LoadStep, SaveStep, Returned, Call

LEMMA VerifiedTInv ==
    ASSUME TInv, NEW p \in Proc, ApplyVerified(p)
    PROVE  TInv'
  <1> DEFINE d == [buf[p] EXCEPT !.state = Verdict(p).state]
  <1>1. buf[p] \in StoredDevice /\ code[p] \in Code /\ today \in Day
    BY DEF TInv, TypeOK, CallsOK, ApplyVerified
  <1>2. d \in StoredDevice
    BY <1>1, AcceptedIsTyped DEF ApplyVerified, Verdict
  <1>3. CallSave(p, d)
    BY DEF ApplyVerified
  <1> HIDE DEF d
  <1> QED
    BY <1>2, <1>3
    DEF TInv, ApplyVerified, CallSave, TypeOK, CallsOK, StoreTypeOK, Goto, IoStep,
        LoadStep, SaveStep, Returned, Call

LEMMA ProceedTInv ==
    ASSUME TInv, NEW p \in Proc, Proceed(p)
    PROVE  TInv'
  <1>1. consumed \in SUBSET Nat
    BY DEF TInv, TypeOK
  <1>2. CASE StoreStep(p)
    BY <1>2, StoreStepTInv
  <1>3. CASE ApplyUnloaded(p)
    BY <1>1, <1>3, RespondTInv DEF ApplyUnloaded, Answer, Result
  <1>4. CASE ApplyRejected(p)
    <2>1. buf[p] \in StoredDevice /\ code[p] \in Code /\ today \in Day
      BY <1>4 DEF TInv, TypeOK, CallsOK, ApplyRejected
    <2>2. buf[p].state \in DeviceState /\ buf[p].secret \in Secret
      BY <2>1 DEF StoredDevice
    <2>3. Apply(buf[p].state, code[p], buf[p].secret, today).result \in Result
      BY <2>1, <2>2, ApplyCases
    <2>4. Verdict(p).result \in Answer
      BY <2>3 DEF Verdict, Answer
    <2> QED  BY <1>1, <1>4, <2>4, RespondTInv DEF ApplyRejected
  <1>5. CASE ApplyVerified(p)
    BY <1>5, VerifiedTInv
  <1>6. CASE ApplySaved(p)
    <2>1. buf[p] \in StoredDevice
      BY <1>6 DEF TInv, CallsOK, ApplySaved
    <2>2. consumed' \in SUBSET Nat
      BY <1>1, <1>6, <2>1 DEF ApplySaved, StoredDevice, DeviceState
    <2> QED  BY <1>6, <2>2, RespondTInv DEF ApplySaved, Answer, Result
  <1>7. CASE ApplyUnsaved(p)
    BY <1>1, <1>7, RespondTInv DEF ApplyUnsaved, Answer, Result
  <1>8. CASE DescribeReturns(p)
    BY <1>1, <1>8, RespondTInv DEF DescribeReturns, Answer
  <1>9. CASE ProvisionReturns(p)
    BY <1>1, <1>9, RespondTInv DEF ProvisionReturns, Answer
  <1> QED
    BY <1>2, <1>3, <1>4, <1>5, <1>6, <1>7, <1>8, <1>9 DEF Proceed

\* The machine: kills, power cuts, the lazy writer, the clock, the switch.
LEMMA MachineTInv ==
    ASSUME TInv,
           \/ \E p \in Proc : KillProcess(p)
           \/ LosePower
           \/ LazyWrite
           \/ ClockChanges
           \/ \E on \in BOOLEAN : SetLockEnabled(on)
    PROVE  TInv'
  <1> USE DEF TInv
  <1>1. CASE \E p \in Proc : KillProcess(p)
    BY <1>1 DEF KillProcess, Kill, Seen, TypeOK, CallsOK, StoreTypeOK, Goto, IoStep,
        LoadStep, SaveStep, Returned, Call
  <1>2. CASE LosePower
    BY <1>2, ConstantsAreApart
    DEF LosePower, PowerCut, AfterCut, Seen, Answer, TypeOK, CallsOK, StoreTypeOK, Goto, IoStep,
        LoadStep, SaveStep, Returned, Call
  <1>3. CASE LazyWrite
    BY <1>3 DEF LazyWrite, Flush, gateVars, TypeOK, CallsOK, StoreTypeOK, Goto, IoStep,
        LoadStep, SaveStep, Returned, Call
  <1>4. CASE ClockChanges
    <2>1. today' \in Day /\ latest' \in Day
      BY <1>4, GateAssumption DEF ClockChanges, TypeOK, Later
    <2> QED  BY <1>4, <2>1 DEF ClockChanges, storeVars, TypeOK, CallsOK, StoreTypeOK, Goto, IoStep,
        LoadStep, SaveStep, Returned, Call
  <1>5. CASE \E on \in BOOLEAN : SetLockEnabled(on)
    BY <1>5 DEF SetLockEnabled, storeVars, TypeOK, CallsOK, StoreTypeOK, Goto, IoStep,
        LoadStep, SaveStep, Returned, Call
  <1> QED  BY <1>1, <1>2, <1>3, <1>4, <1>5

LEMMA StepTInv == TInv /\ [Next]_vars => TInv'
  <1> SUFFICES ASSUME TInv, [Next]_vars PROVE TInv'
    OBVIOUS
  <1>1. CASE UNCHANGED vars
    BY <1>1
    DEF vars, storeVars, gateVars, TInv, TypeOK, CallsOK, StoreTypeOK, Goto, IoStep,
        LoadStep, SaveStep, Returned, Call
  <1>2. CASE Next
    BY <1>2, CallTInv, ProceedTInv, MachineTInv DEF Next
  <1> QED  BY <1>1, <1>2

\* Every variable keeps its type, for any processes, codes, secrets and days,
\* whatever fails.
THEOREM TypeCorrect == Spec => []TypeOK
  <1>1. TInv => TypeOK  BY DEF TInv
  <1> QED  BY InitTInv, StepTInv, <1>1, PTL DEF Spec

-----------------------------------------------------------------------------
(* What is on disk was paid for.  The properties speak of state.bin alone; *)
(* they are inductive once they hold of every record there is: in the      *)
(* sibling, and in the hands of each process, however old.                 *)

Sound(d, day) == d \in StoredDevice => WithinSold(d, day) /\ Backed(d)

SInv ==
    /\ today <= latest
    /\ Sound(file, latest)
    /\ Sound(tmp, latest)
    /\ \A p \in Proc : Sound(buf[p], latest)

LEMMA FreshIsSound ==
    ASSUME NEW s \in Secret, NEW day \in Day
    PROVE  Sound([secret |-> s, state |-> FreshState], day)
  <1>1. 0 \in Counters /\ Sold(s, 0) \in Nat /\ day \in Nat
    BY SoldAssumption, GateAssumption DEF Counters
  <1> QED  BY <1>1 DEF Sound, WithinSold, Backed, FreshState

\* The days a code adds are days the tally counts for it.
LEMMA GrantIsSound ==
    ASSUME NEW d \in StoredDevice, NEW c \in Code,
           NEW now \in Day, NEW day \in Day, now <= day,
           Sound(d, day),
           Apply(d.state, c, d.secret, now).result = "Accepted"
    PROVE  Sound([d EXCEPT !.state = Apply(d.state, c, d.secret, now).state], day)
  <1> DEFINE after == Apply(d.state, c, d.secret, now).state
             e == [d EXCEPT !.state = after]
  <1>1. /\ d.state \in DeviceState /\ d.secret \in Secret
        /\ now \in Nat /\ day \in Nat
    BY GateAssumption DEF StoredDevice
  <1>2. c.key = d.secret /\ c.counter > d.state.lastCounter
    BY <1>1, AcceptedState
  <1>3. /\ after \in DeviceState
        /\ after.lastCounter = c.counter
        /\ after.lockDeadlineDay =
               Later(now, d.state.lockDeadlineDay) + c.durationDays
        /\ after.status = "Active"
        /\ after.lastTokenWasGrace = (c.type = "Grace")
    BY <1>1, AcceptedState
  <1>4. e.secret = d.secret /\ e.state = after
    BY DEF StoredDevice
  <1>5. c.counter \in Nat /\ c.durationDays \in Nat /\ c.counter \in Counters
    BY CodeAssumption DEF Counters
  <1> HIDE DEF after, e
  <1>6. WithinSold(e, day)
    <2>1. /\ d.state.lastCounter \in Counters
          /\ d.state.lockDeadlineDay <= day + Sold(d.secret, d.state.lastCounter)
      BY DEF Sound, WithinSold
    <2>2. /\ Sold(d.secret, d.state.lastCounter) \in Nat
          /\ Sold(d.secret, c.counter) \in Nat
          /\ Sold(d.secret, d.state.lastCounter) + c.durationDays
                <= Sold(d.secret, c.counter)
      BY <1>1, <1>2, <1>5, <2>1, SoldAssumption
    <2>3. d.state.lockDeadlineDay \in Nat
      BY <1>1 DEF DeviceState
    <2>4. Later(now, d.state.lockDeadlineDay)
              <= day + Sold(d.secret, d.state.lastCounter)
      BY <1>1, <2>1, <2>2, <2>3 DEF Later
    <2>5. Later(now, d.state.lockDeadlineDay) \in Nat
      BY <1>1, <2>3 DEF Later
    <2>6. after.lockDeadlineDay <= day + Sold(d.secret, c.counter)
      BY <1>1, <1>3, <1>5, <2>2, <2>4, <2>5
    <2> QED  BY <1>3, <1>4, <1>5, <2>6 DEF WithinSold
  <1>7. Backed(e)
    <2>1. Later(now, d.state.lockDeadlineDay) \in Nat
      BY <1>1 DEF Later, DeviceState
    <2>2. c.durationDays <= after.lockDeadlineDay
      BY <1>3, <1>5, <2>1
    <2>3. Redeems(c, e)
      BY <1>2, <1>3, <1>4, <2>2 DEF Redeems
    <2> QED  BY <2>3 DEF Backed
  <1> QED  BY <1>6, <1>7 DEF Sound, e, after

\* Time only adds slack to a sound record.
LEMMA SoundLater ==
    ASSUME NEW d, NEW day \in Nat, NEW later \in Nat, day <= later, Sound(d, day)
    PROVE  Sound(d, later)
  <1> SUFFICES ASSUME d \in StoredDevice PROVE WithinSold(d, later)
    BY DEF Sound
  <1>1. d.secret \in Secret /\ d.state.lockDeadlineDay \in Nat
    BY DEF StoredDevice, DeviceState
  <1>2. WithinSold(d, day)
    BY DEF Sound
  <1>3. Sold(d.secret, d.state.lastCounter) \in Nat
    BY <1>1, <1>2, SoldAssumption DEF WithinSold
  <1> QED  BY <1>1, <1>2, <1>3 DEF WithinSold

\* Most steps only move records between the two files and the processes.
LEMMA MovesKeepSInv ==
    ASSUME TInv, SInv, today' <= latest', latest <= latest', latest' \in Day,
           file' \in {file, tmp, Torn},
           tmp' \in {tmp, Absent, Torn} \union {buf[p] : p \in Proc},
           \A p \in Proc : buf'[p] \in {buf[p], file, Absent}
                            \/ Sound(buf'[p], latest)
    PROVE  SInv'
  <1>1. latest \in Nat /\ latest' \in Nat
    BY GateAssumption DEF TInv, TypeOK
  <1>2. Sound(Absent, latest) /\ Sound(Torn, latest)
    BY ConstantsAreApart DEF Sound
  <1>3. Sound(file', latest) /\ Sound(tmp', latest)
    BY <1>2 DEF SInv
  <1>4. \A p \in Proc : Sound(buf'[p], latest)
    BY <1>2 DEF SInv
  <1>5. Sound(file', latest') /\ Sound(tmp', latest')
    BY <1>1, <1>3, SoundLater
  <1>6. \A p \in Proc : Sound(buf'[p], latest')
    BY <1>1, <1>4, SoundLater
  <1> QED  BY <1>5, <1>6 DEF SInv

LEMMA InitSInv == Init => SInv
  <1> SUFFICES ASSUME Init PROVE SInv
    OBVIOUS
  <1>1. today <= latest
    BY GateAssumption DEF Init
  <1>2. Sound(Absent, latest)
    BY ConstantsAreApart DEF Sound
  <1> QED  BY <1>1, <1>2 DEF Init, StoreInit, SInv

\* The records after a step that does not verify a code or provision.
StoreMoves ==
    /\ file' \in {file, tmp, Torn}
    /\ tmp' \in {tmp, Absent, Torn} \union {buf[p] : p \in Proc}
    /\ \A p \in Proc : buf'[p] \in {buf[p], file, Absent}

LEMMA StoreStepMoves ==
    ASSUME TInv, NEW p \in Proc, StoreAction(p)
    PROVE  StoreMoves
  <1>0. buf \in [Proc -> StoredDevice \union {Absent}]
    BY DEF TInv, TypeOK, StoreTypeOK
  <1>1. CASE OpenForRead(p)
    BY <1>0, <1>1 DEF OpenForRead, StoreMoves
  <1>2. CASE OpenForReadFails(p)
    BY <1>0, <1>2 DEF OpenForReadFails, StoreMoves
  <1>3. CASE FinishRead(p)
    BY <1>0, <1>3 DEF FinishRead, StoreMoves
  <1>4. CASE ReadFails(p)
    BY <1>0, <1>4 DEF ReadFails, StoreMoves
  <1>5. CASE CreateTemp(p)
    BY <1>0, <1>5 DEF CreateTemp, StoreMoves
  <1>6. CASE CreateTempFails(p)
    BY <1>0, <1>6 DEF CreateTempFails, StoreMoves
  <1>7. CASE WriteTemp(p)
    BY <1>0, <1>7 DEF WriteTemp, StoreMoves
  <1>8. CASE WriteTempFails(p)
    BY <1>0, <1>8 DEF WriteTempFails, StoreMoves
  <1>9. CASE RenameTemp(p)
    BY <1>0, <1>9 DEF RenameTemp, StoreMoves
  <1>10. CASE RenameTempFails(p)
    BY <1>0, <1>10 DEF RenameTempFails, StoreMoves
  <1>11. CASE DeleteTemp(p)
    BY <1>0, <1>11 DEF DeleteTemp, StoreMoves
  <1> QED
    BY <1>1, <1>2, <1>3, <1>4, <1>5, <1>6, <1>7, <1>8, <1>9, <1>10, <1>11
    DEF StoreAction, LoadAction, SaveAction

LEMMA StepSInv == TInv /\ SInv /\ [Next]_vars => SInv'
  <1> SUFFICES ASSUME TInv, SInv, [Next]_vars PROVE SInv'
    OBVIOUS
  <1>1. /\ buf \in [Proc -> StoredDevice \union {Absent}]
        /\ today \in Day /\ latest \in Day /\ today <= latest
        /\ today \in Nat /\ latest \in Nat
    BY GateAssumption DEF TInv, TypeOK, StoreTypeOK, SInv
  <1>2. ASSUME StoreMoves, today' = today, latest' = latest PROVE SInv'
    BY <1>1, <1>2, MovesKeepSInv DEF StoreMoves
  <1>3. ASSUME NEW p \in Proc, NEW d, CallSave(p, d), Sound(d, latest),
               today' = today, latest' = latest
        PROVE  SInv'
    <2>1. file' = file /\ tmp' = tmp
      BY <1>3 DEF CallSave
    <2>2. \A q \in Proc : buf'[q] = buf[q] \/ Sound(buf'[q], latest)
      BY <1>1, <1>3 DEF CallSave
    <2> QED  BY <1>1, <1>3, <2>1, <2>2, MovesKeepSInv
  <1>4. ASSUME NEW p \in Proc, NEW a, Respond(p, a),
               today' = today, latest' = latest
        PROVE  SInv'
    BY <1>1, <1>2, <1>4 DEF Respond, Return, StoreMoves
  <1>5. CASE UNCHANGED vars
    BY <1>2, <1>5 DEF vars, storeVars, gateVars, StoreMoves
  <1>6. ASSUME NEW p \in Proc, NEW c \in Code, ApplyCode(p, c) PROVE SInv'
    BY <1>1, <1>2, <1>6 DEF ApplyCode, CallLoad, StoreMoves
  <1>7. ASSUME NEW p \in Proc, NEW s \in Secret, Provision(p, s) PROVE SInv'
    BY <1>1, <1>3, <1>7, FreshIsSound DEF Provision
  <1>8. ASSUME NEW p \in Proc, Describe(p) PROVE SInv'
    BY <1>1, <1>2, <1>8 DEF Describe, CallLoad, StoreMoves
  <1>9. ASSUME NEW p \in Proc, Proceed(p) PROVE SInv'
    <2>1. CASE StoreStep(p)
      BY <1>2, <2>1, StoreStepMoves DEF StoreStep
    <2>2. CASE ApplyVerified(p)
      <3>1. /\ buf[p] \in StoredDevice /\ code[p] \in Code
            /\ Sound(buf[p], latest)
        BY <2>2 DEF TInv, TypeOK, CallsOK, SInv, ApplyVerified
      <3>2. Sound([buf[p] EXCEPT !.state = Verdict(p).state], latest)
        BY <1>1, <2>2, <3>1, GrantIsSound DEF ApplyVerified, Verdict
      <3> QED  BY <1>3, <2>2, <3>2 DEF ApplyVerified
    <2>3. CASE ApplyUnloaded(p) \/ ApplyRejected(p) \/ ApplySaved(p)
                 \/ ApplyUnsaved(p)
      BY <1>4, <2>3
      DEF ApplyUnloaded, ApplyRejected, ApplySaved, ApplyUnsaved
    <2>4. CASE DescribeReturns(p) \/ ProvisionReturns(p)
      BY <1>4, <2>4 DEF DescribeReturns, ProvisionReturns
    <2> QED  BY <1>9, <2>1, <2>2, <2>3, <2>4 DEF Proceed
  <1>10. ASSUME NEW p \in Proc, KillProcess(p) PROVE SInv'
    BY <1>1, <1>2, <1>10 DEF KillProcess, Kill, StoreMoves
  <1>11. CASE \E on \in BOOLEAN : SetLockEnabled(on)
    BY <1>2, <1>11 DEF SetLockEnabled, storeVars, StoreMoves
  <1>12. CASE ClockChanges
    <2>1. today' \in Day /\ latest' \in Day /\ today' <= latest' /\ latest <= latest'
      BY <1>1, <1>12, GateAssumption DEF ClockChanges, Later
    <2> QED  BY <1>12, <2>1, MovesKeepSInv DEF ClockChanges, storeVars
  <1>13. CASE LosePower
    BY <1>2, <1>13 DEF LosePower, PowerCut, AfterCut, StoreMoves
  <1>14. CASE LazyWrite
    BY <1>2, <1>14 DEF LazyWrite, Flush, gateVars, StoreMoves
  <1> QED
    BY <1>5, <1>6, <1>7, <1>8, <1>9, <1>10, <1>11, <1>12, <1>13, <1>14 DEF Next

LEMMA Invariants == Spec => [](TInv /\ SInv)
  BY InitTInv, InitSInv, StepTInv, StepSInv, PTL DEF Spec

\* The deadline on disk never exceeds the days that distinct codes bought,
\* for any number of processes racing, killed and cut off.
THEOREM NoUnsoldDaysEver == Spec => []NoUnsoldDays
  <1>1. TInv /\ SInv => NoUnsoldDays
    BY DEF TInv, TypeOK, StoreTypeOK, SInv, Sound, NoUnsoldDays
  <1> QED  BY <1>1, Invariants, PTL

\* An armed device that is open was opened by a code signed with its secret.
THEOREM OpenOnlyIfPaidEver == Spec => []OpenOnlyIfPaid
  <1>1. ASSUME TInv, SInv, Lifted PROVE \E c \in Code : Redeems(c, file)
    <2>1. file \in StoredDevice /\ Backed(file) /\ today \in Nat
      BY <1>1, GateAssumption
      DEF TInv, TypeOK, StoreTypeOK, SInv, Sound, Lifted
    <2>2. file.state # FreshState
      BY <1>1, <2>1 DEF Lifted, FreshState
    <2> QED  BY <2>1, <2>2 DEF Backed
  <1> QED  BY <1>1, Invariants, PTL DEF OpenOnlyIfPaid

-----------------------------------------------------------------------------
(* One writer.  What a write in progress is about to install is what a     *)
(* code made of the very record on disk, because nobody else replaces it.  *)

WritersAlone == \A p, q \in Writer : p = q

\* Record e is what code c made of record d on some day there has been.
Granted(d, c, e, until) ==
    /\ d \in StoredDevice
    /\ \E day \in Day :
          /\ day <= until
          /\ Apply(d.state, c, d.secret, day).result = "Accepted"
          /\ e = [d EXCEPT !.state = Apply(d.state, c, d.secret, day).state]

\* No record is on disk whose period ends before that of d.
LastsAsLong(f, d) ==
    /\ f \in StoredDevice /\ d \in StoredDevice
    /\ d.state.lockDeadlineDay <= f.state.lockDeadlineDay

\* A process in a call, inside the store at a step and with record d in hand,
\* while f is on disk and t in the sibling.
CallOK(p, call, c, step, d, f, t, until) ==
    /\ call \in {"apply", "commit", "provision"} => p \in Writer
    /\ IF call \in {"apply", "commit"} THEN c \in Code ELSE c = NoCode
    /\ step = "rename" => t = d
    /\ call = "apply" /\ step = "ok" => f = d
    /\ call = "commit" /\ step \in SaveStep => Granted(f, c, d, until)
    /\ call = "commit" /\ step = "ok" => f = d
    /\ call = "provision" /\ step \in SaveStep =>
          /\ Reprovision \/ f = Absent
          /\ \E s \in Secret : d = [secret |-> s, state |-> FreshState]
    /\ call = "describe" /\ step = "ok" /\ ~Reprovision => LastsAsLong(f, d)

WInv ==
    /\ \A p \in Proc : CallOK(p, pc[p], code[p], io[p], buf[p], file, tmp, latest)
    /\ HighestConsumed

\* What a code grants takes the counter and the deadline forwards.
LEMMA GrantMovesForward ==
    ASSUME NEW d, NEW c \in Code, NEW e, NEW until, Granted(d, c, e, until)
    PROVE  /\ e \in StoredDevice /\ d \in StoredDevice
           /\ e.state.lastCounter > d.state.lastCounter
           /\ e.state.lockDeadlineDay >= d.state.lockDeadlineDay
  <1>1. PICK day \in Day :
            /\ Apply(d.state, c, d.secret, day).result = "Accepted"
            /\ e = [d EXCEPT !.state = Apply(d.state, c, d.secret, day).state]
    BY DEF Granted
  <1> DEFINE after == Apply(d.state, c, d.secret, day).state
  <1>2. /\ d \in StoredDevice /\ d.state \in DeviceState /\ d.secret \in Secret
        /\ day \in Nat /\ c.durationDays \in Nat /\ c.counter \in Nat
    BY GateAssumption, CodeAssumption DEF Granted, StoredDevice
  <1>3. /\ c.counter > d.state.lastCounter
        /\ after \in DeviceState
        /\ after.lastCounter = c.counter
        /\ after.lockDeadlineDay = Later(day, d.state.lockDeadlineDay) + c.durationDays
    BY <1>1, <1>2, AcceptedState
  <1>4. e = [d EXCEPT !.state = after]
    BY <1>1
  <1> HIDE DEF after
  <1>5. e.state = after /\ e \in StoredDevice
    BY <1>2, <1>3, <1>4 DEF StoredDevice
  <1>6. Later(day, d.state.lockDeadlineDay) >= d.state.lockDeadlineDay
    BY <1>2 DEF Later, DeviceState
  <1>7. Later(day, d.state.lockDeadlineDay) \in Nat /\ d.state.lockDeadlineDay \in Nat
    BY <1>2 DEF Later, DeviceState
  <1>8. after.lockDeadlineDay >= d.state.lockDeadlineDay
    BY <1>2, <1>3, <1>6, <1>7
  <1> QED  BY <1>2, <1>3, <1>5, <1>8

\* A call stays as it is while the files do, and time goes on.
LEMMA CallStays ==
    ASSUME NEW p, NEW call, NEW c, NEW step, NEW d, NEW f, NEW t,
           NEW until \in Nat, NEW later \in Nat, until <= later,
           CallOK(p, call, c, step, d, f, t, until)
    PROVE  CallOK(p, call, c, step, d, f, t, later)
  <1>1. Granted(f, c, d, until) => Granted(f, c, d, later)
    <2> SUFFICES ASSUME Granted(f, c, d, until) PROVE Granted(f, c, d, later)
      OBVIOUS
    <2>1. \A day \in Day : day <= until => day <= later
      BY GateAssumption
    <2> QED  BY <2>1 DEF Granted
  <1> QED  BY <1>1 DEF CallOK

\* The calls of a process that does not write survive what the writer does,
\* unless it takes the deadline back.
LEMMA ReaderStays ==
    ASSUME TInv, NEW q \in Proc, q \notin Writer, NEW f, NEW t,
           CallOK(q, pc[q], code[q], io[q], buf[q], file, tmp, latest),
           ~Reprovision /\ LastsAsLong(file, buf[q]) => LastsAsLong(f, buf[q])
    PROVE  CallOK(q, pc[q], code[q], io[q], buf[q], f, t, latest)
  BY DEF TInv, TypeOK, CallsOK, StoreTypeOK, CallOK, Call, IoStep, LoadStep, SaveStep, Returned

OthersStand(p) ==
    \A q \in Proc \ {p} :
        pc'[q] = pc[q] /\ code'[q] = code[q] /\ io'[q] = io[q] /\ buf'[q] = buf[q]

\* A step of one process, which leaves the files alone or is the writer's.
LEMMA OneProcessWInv ==
    ASSUME WritersAlone, TInv, WInv, NEW p \in Proc, OthersStand(p),
           CallOK(p, pc'[p], code'[p], io'[p], buf'[p], file', tmp', latest'),
           latest' = latest,
           \/ file' = file /\ tmp' = tmp
           \/ /\ p \in Writer
              /\ \A d : ~Reprovision /\ LastsAsLong(file, d) => LastsAsLong(file', d),
           HighestConsumed'
    PROVE  WInv'
  <1> SUFFICES ASSUME NEW q \in Proc, q # p
               PROVE  CallOK(q, pc[q], code[q], io[q], buf[q], file', tmp', latest')
    BY DEF WInv, OthersStand
  <1>1. CallOK(q, pc[q], code[q], io[q], buf[q], file, tmp, latest)
    BY DEF WInv
  <1>2. CASE file' = file /\ tmp' = tmp
    BY <1>1, <1>2
  <1>3. CASE /\ p \in Writer
             /\ \A d : ~Reprovision /\ LastsAsLong(file, d) => LastsAsLong(file', d)
    <2>1. q \notin Writer
      BY <1>3 DEF WritersAlone
    <2> QED  BY <1>1, <1>3, <2>1, ReaderStays
  <1> QED  BY <1>2, <1>3

LEMMA InitWInv == Init => WInv
  BY DEF Init, StoreInit, WInv, CallOK, HighestConsumed, SaveStep

\* The calls of the operating system: only a rename replaces the record.
LEMMA StoreStepWInv ==
    ASSUME WritersAlone, TInv, WInv, NEW p \in Proc, StoreStep(p)
    PROVE  WInv'
  <1>1. /\ StoreAction(p)
        /\ consumed' = IF pc[p] = "provision" /\ io'[p] = "ok" THEN {} ELSE consumed
        /\ UNCHANGED <<pc, code, latest>>
    BY DEF StoreStep
  <1>2. /\ io \in [Proc -> IoStep] /\ buf \in [Proc -> StoredDevice \union {Absent}]
        /\ file \in StoredDevice \union {Absent, Torn} /\ consumed \in SUBSET Nat
        /\ pc[p] \in Call
        /\ pc[p] = "idle" => io[p] = "idle"
        /\ pc[p] \in {"apply", "describe"} => io[p] \in LoadStep \union Returned
        /\ pc[p] \in {"commit", "provision"} => io[p] \in SaveStep \union Returned
        /\ pc[p] = "commit" => code[p] \in Code \union {NoCode}
        /\ io[p] \in SaveStep => buf[p] \in StoredDevice
        /\ io[p] = "read" => file # Absent
    BY DEF TInv, TypeOK, StoreTypeOK, CallsOK
  <1>3. CallOK(p, pc[p], code[p], io[p], buf[p], file, tmp, latest)
    BY DEF WInv
  <1> DEFINE At(step, d) == /\ io' = [io EXCEPT ![p] = step]
                            /\ buf' = [buf EXCEPT ![p] = d]
  <1>4. ASSUME NEW step, NEW d, At(step, d)
        PROVE  /\ OthersStand(p) /\ io'[p] = step /\ buf'[p] = d
               /\ pc'[p] = pc[p] /\ code'[p] = code[p] /\ latest' = latest
    BY <1>1, <1>2, <1>4 DEF OthersStand
  <1>5. buf = [buf EXCEPT ![p] = buf[p]]
    BY <1>2
  <1> HIDE DEF At
  <1>6. CASE LoadAction(p)
    <2>1. file' = file /\ tmp' = tmp /\ pc[p] \in {"apply", "describe"} /\ consumed' = consumed
      BY <1>1, <1>2, <1>6
      DEF LoadAction, OpenForRead, OpenForReadFails, FinishRead, ReadFails, Call,
          LoadStep, SaveStep, Returned
    <2>2. \/ At("read", buf[p]) \/ At("failed", buf[p])
          \/ At("ok", file) /\ file \in StoredDevice
      BY <1>2, <1>5, <1>6
      DEF LoadAction, OpenForRead, OpenForReadFails, FinishRead, ReadFails, Goto, At
    <2>3. /\ io'[p] \in {"read", "failed", "ok"}
          /\ io'[p] = "ok" => buf'[p] = file /\ file \in StoredDevice
          /\ OthersStand(p) /\ pc'[p] = pc[p] /\ code'[p] = code[p] /\ latest' = latest
      BY <1>4, <2>2
    <2>4. file \in StoredDevice => LastsAsLong(file, file)
      BY DEF LastsAsLong, StoredDevice, DeviceState
    <2>5. CallOK(p, pc'[p], code'[p], io'[p], buf'[p], file', tmp', latest')
      BY <1>3, <2>1, <2>3, <2>4 DEF CallOK, SaveStep
    <2>6. HighestConsumed'
      BY <2>1 DEF WInv, HighestConsumed
    <2> QED  BY <2>1, <2>3, <2>5, <2>6, OneProcessWInv
  <1>7. CASE SaveAction(p) /\ ~RenameTemp(p)
    <2>1. /\ io[p] \in SaveStep /\ file' = file
          /\ \E step \in {"write", "rename", "delete", "failed"} : At(step, buf[p])
          /\ io'[p] = "rename" => tmp' = buf[p]
      BY <1>2, <1>5, <1>7
      DEF SaveAction, CreateTemp, CreateTempFails, WriteTemp, WriteTempFails,
          RenameTempFails, DeleteTemp, Goto, SaveStep, At
    <2>2. pc[p] \in {"commit", "provision"}
      BY <1>2, <2>1 DEF Call, LoadStep, SaveStep, Returned
    <2>3. p \in Writer
      BY <1>3, <2>2 DEF CallOK
    <2>4. /\ io'[p] \in {"write", "rename", "delete", "failed"} /\ buf'[p] = buf[p]
          /\ OthersStand(p) /\ pc'[p] = pc[p] /\ code'[p] = code[p] /\ latest' = latest
      BY <1>4, <2>1
    <2>5. consumed' = consumed
      BY <1>1, <2>4
    <2>6. CallOK(p, pc'[p], code'[p], io'[p], buf'[p], file', tmp', latest')
      BY <1>3, <2>1, <2>2, <2>4 DEF CallOK, SaveStep
    <2>7. HighestConsumed'
      BY <2>1, <2>5 DEF WInv, HighestConsumed
    <2> QED  BY <2>1, <2>3, <2>4, <2>6, <2>7, OneProcessWInv
  <1>8. CASE RenameTemp(p)
    <2>1. io[p] = "rename" /\ io[p] \in SaveStep /\ file' = tmp /\ At("ok", buf[p])
      BY <1>5, <1>8 DEF RenameTemp, Goto, SaveStep, At
    <2>2. pc[p] \in {"commit", "provision"}
      BY <1>2, <2>1 DEF Call, LoadStep, SaveStep, Returned
    <2>3. p \in Writer /\ file' = buf[p] /\ buf[p] \in StoredDevice
      BY <1>2, <1>3, <2>1, <2>2 DEF CallOK
    <2>4. /\ io'[p] = "ok" /\ buf'[p] = buf[p]
          /\ OthersStand(p) /\ pc'[p] = pc[p] /\ code'[p] = code[p] /\ latest' = latest
      BY <1>4, <2>1
    <2>5. CallOK(p, pc'[p], code'[p], io'[p], buf'[p], file', tmp', latest')
      BY <1>3, <2>2, <2>3, <2>4 DEF CallOK, SaveStep
    <2>6. CASE pc[p] = "commit"
      <3>1. Granted(file, code[p], buf[p], latest) /\ consumed' = consumed
        BY <1>1, <1>3, <2>1, <2>6 DEF CallOK
      <3>2. code[p] \in Code
        BY <1>3, <2>6 DEF CallOK
      <3>3. /\ file \in StoredDevice
            /\ buf[p].state.lastCounter > file.state.lastCounter
            /\ buf[p].state.lockDeadlineDay >= file.state.lockDeadlineDay
        BY <3>1, <3>2, GrantMovesForward
      <3>4. \A d : ~Reprovision /\ LastsAsLong(file, d) => LastsAsLong(file', d)
        BY <2>3, <3>3 DEF LastsAsLong, StoredDevice, DeviceState
      <3>5. HighestConsumed'
        <4>0. file \notin {Absent, Torn}
          BY <3>3, ConstantsAreApart
        <4>1. \A n \in consumed : n \in Nat /\ n <= file.state.lastCounter
          BY <1>2, <4>0 DEF WInv, HighestConsumed
        <4>2. file.state.lastCounter \in Nat /\ buf[p].state.lastCounter \in Nat
          BY <2>3, <3>3 DEF StoredDevice, DeviceState
        <4>3. \A n \in consumed : n <= buf[p].state.lastCounter
          BY <3>3, <4>1, <4>2
        <4> QED  BY <2>3, <3>1, <4>3 DEF HighestConsumed
      <3> QED  BY <2>3, <2>4, <2>5, <3>4, <3>5, OneProcessWInv
    <2>7. CASE pc[p] = "provision"
      <3>1. consumed' = {} /\ (Reprovision \/ file = Absent)
        BY <1>1, <1>3, <2>1, <2>4, <2>7 DEF CallOK
      <3>2. \A d : ~Reprovision /\ LastsAsLong(file, d) => LastsAsLong(file', d)
        BY <3>1, ConstantsAreApart DEF LastsAsLong
      <3>3. HighestConsumed'
        BY <3>1 DEF HighestConsumed
      <3> QED  BY <2>3, <2>4, <2>5, <3>2, <3>3, OneProcessWInv
    <2> QED  BY <2>2, <2>6, <2>7
  <1> QED  BY <1>1, <1>6, <1>7, <1>8 DEF StoreAction

\* Calls begin, go on and return; the files stay.
LEMMA CallStepWInv ==
    ASSUME WritersAlone, TInv, SInv, WInv, NEW p \in Proc,
           \/ \E c \in Code : ApplyCode(p, c)
           \/ \E s \in Secret : Provision(p, s)
           \/ Describe(p)
           \/ (Proceed(p) /\ ~StoreStep(p))
           \/ KillProcess(p)
    PROVE  WInv'
  <1>1. /\ pc \in [Proc -> Call] /\ code \in [Proc -> Code \union {NoCode}]
        /\ io \in [Proc -> IoStep] /\ buf \in [Proc -> StoredDevice \union {Absent}]
        /\ today \in Day /\ today <= latest
        /\ pc[p] = "idle" => io[p] = "idle"
    BY DEF TInv, TypeOK, StoreTypeOK, CallsOK, SInv
  <1>2. CallOK(p, pc[p], code[p], io[p], buf[p], file, tmp, latest)
    BY DEF WInv
  <1>3. ASSUME OthersStand(p), UNCHANGED <<file, tmp, latest, consumed>>,
               CallOK(p, pc'[p], code'[p], io'[p], buf'[p], file, tmp, latest)
        PROVE  WInv'
    <2>1. HighestConsumed'
      BY <1>3 DEF WInv, HighestConsumed
    <2> QED  BY <1>3, <2>1, OneProcessWInv
  <1>4. ASSUME NEW c \in Code, ApplyCode(p, c) PROVE WInv'
    BY <1>1, <1>2, <1>3, <1>4
    DEF ApplyCode, Enter, CallLoad, Goto, OthersStand, CallOK, SaveStep
  <1>5. ASSUME NEW s \in Secret, Provision(p, s) PROVE WInv'
    <2>1. p \in Writer
      BY <1>5, GateAssumption DEF Provision
    <2> QED
      BY <1>1, <1>2, <1>3, <1>5, <2>1
      DEF Provision, Enter, CallSave, Goto, OthersStand, CallOK, SaveStep
  <1>6. CASE Describe(p)
    BY <1>1, <1>2, <1>3, <1>6
    DEF Describe, Enter, CallLoad, Goto, OthersStand, CallOK, SaveStep
  <1>7. ASSUME NEW a, Respond(p, a)
        PROVE  /\ OthersStand(p) /\ UNCHANGED <<file, tmp>>
               /\ \A f : CallOK(p, pc'[p], code'[p], io'[p], buf'[p], f, tmp, latest)
    BY <1>1, <1>7 DEF Respond, Return, Goto, OthersStand, CallOK, SaveStep
  <1>8. CASE ApplyUnloaded(p) \/ ApplyRejected(p) \/ ApplyUnsaved(p)
                \/ DescribeReturns(p) \/ ProvisionReturns(p)
    BY <1>3, <1>7, <1>8
    DEF ApplyUnloaded, ApplyRejected, ApplyUnsaved, DescribeReturns, ProvisionReturns
  <1>9. CASE ApplyVerified(p)
    <2> DEFINE d == [buf[p] EXCEPT !.state = Verdict(p).state]
    <2>1. /\ file = buf[p] /\ p \in Writer /\ code[p] \in Code
          /\ Verdict(p).result = "Accepted"
      BY <1>2, <1>9 DEF ApplyVerified, CallOK
    <2>2. buf[p] \in StoredDevice
      BY <1>9 DEF TInv, CallsOK, ApplyVerified
    <2>3. Granted(file, code[p], d, latest)
      BY <1>1, <2>1, <2>2 DEF Granted, Verdict
    <2>4. /\ CallSave(p, d) /\ pc' = [pc EXCEPT ![p] = "commit"]
          /\ UNCHANGED <<code, latest, consumed>>
      BY <1>9 DEF ApplyVerified
    <2> HIDE DEF d
    <2>5. /\ OthersStand(p) /\ UNCHANGED <<file, tmp, latest, consumed>>
          /\ pc'[p] = "commit" /\ code'[p] = code[p] /\ io'[p] = "create" /\ buf'[p] = d
      BY <1>1, <2>4 DEF CallSave, Goto, OthersStand
    <2>6. CallOK(p, pc'[p], code'[p], io'[p], buf'[p], file, tmp, latest)
      BY <2>1, <2>3, <2>5 DEF CallOK, SaveStep
    <2> QED  BY <1>3, <2>5, <2>6
  <1>10. CASE ApplySaved(p)
    <2>1. file = buf[p] /\ consumed' = consumed \union {buf[p].state.lastCounter}
          /\ latest' = latest
      BY <1>2, <1>10 DEF ApplySaved, CallOK
    <2>2. buf[p] \in StoredDevice
      BY <1>10 DEF TInv, CallsOK, ApplySaved
    <2>3. \A n \in consumed : n <= file.state.lastCounter
      BY <2>1, <2>2, ConstantsAreApart DEF WInv, HighestConsumed
    <2>4. file.state.lastCounter <= file.state.lastCounter
      BY <2>1, <2>2 DEF StoredDevice, DeviceState
    <2>5. /\ OthersStand(p) /\ UNCHANGED <<file, tmp>>
          /\ CallOK(p, pc'[p], code'[p], io'[p], buf'[p], file, tmp, latest)
      BY <1>7, <1>10 DEF ApplySaved
    <2>6. HighestConsumed'
      BY <2>1, <2>3, <2>4, <2>5 DEF HighestConsumed
    <2> QED  BY <2>1, <2>5, <2>6, OneProcessWInv
  <1>11. CASE KillProcess(p)
    BY <1>1, <1>3, <1>11 DEF KillProcess, Kill, OthersStand, CallOK, SaveStep
  <1> QED
    BY <1>4, <1>5, <1>6, <1>8, <1>9, <1>10, <1>11 DEF Proceed

LEMMA StepWInv ==
    ASSUME WritersAlone
    PROVE  TInv /\ SInv /\ WInv /\ [Next]_vars => WInv'
  <1> SUFFICES ASSUME TInv, SInv, WInv, [Next]_vars PROVE WInv'
    OBVIOUS
  <1>1. ASSUME NEW p \in Proc, StoreStep(p) PROVE WInv'
    BY <1>1, StoreStepWInv
  <1>2. ASSUME NEW p \in Proc,
               \/ \E c \in Code : ApplyCode(p, c)
               \/ \E s \in Secret : Provision(p, s)
               \/ Describe(p)
               \/ (Proceed(p) /\ ~StoreStep(p))
               \/ KillProcess(p)
        PROVE  WInv'
    BY <1>2, CallStepWInv
  <1>3. CASE \/ \E on \in BOOLEAN : SetLockEnabled(on)
             \/ LazyWrite
             \/ UNCHANGED vars
    BY <1>3
    DEF SetLockEnabled, LazyWrite, Flush, vars, storeVars, gateVars, WInv, HighestConsumed
  <1>4. CASE ClockChanges
    <2>1. /\ latest \in Nat /\ latest' \in Nat /\ latest <= latest'
          /\ UNCHANGED <<file, tmp, pc, code, io, buf, consumed>>
      BY <1>4, GateAssumption DEF ClockChanges, storeVars, Later, TInv, TypeOK
    <2>2. \A p \in Proc : CallOK(p, pc'[p], code'[p], io'[p], buf'[p], file', tmp', latest')
      BY <2>1, CallStays DEF WInv
    <2> QED  BY <2>1, <2>2 DEF WInv, HighestConsumed
  <1>5. CASE LosePower
    BY <1>5 DEF LosePower, PowerCut, AfterCut, WInv, CallOK, HighestConsumed, SaveStep
  <1> QED  BY <1>1, <1>2, <1>3, <1>4, <1>5 DEF Next

LEMMA OneWriterInvariants ==
    ASSUME WritersAlone
    PROVE  Spec => [](TInv /\ SInv /\ WInv)
  BY InitTInv, InitSInv, InitWInv, StepTInv, StepSInv, StepWInv, PTL DEF Spec

\* As long as one process writes, no accepted counter is ever given back: not
\* by a kill, a failed save, a cut or a torn file.
THEOREM HighestConsumedEver ==
    ASSUME WritersAlone
    PROVE  Spec => []HighestConsumed
  <1>1. WInv => HighestConsumed  BY DEF WInv
  <1> QED  BY <1>1, OneWriterInvariants, PTL

-----------------------------------------------------------------------------
(* What a describe answers.                                                *)

\* The switch was read, and without faults read right.
SeenOK ==
    \A p \in Proc :
        pc[p] = "describe" =>
            saw[p] \in {"on", "off"} \/ (RegistryFaults /\ saw[p] = "failed")

LEMMA InitSeenOK == Init => SeenOK
  BY DEF Init, SeenOK

LEMMA StepSeenOK == TInv /\ SeenOK /\ [Next]_vars => SeenOK'
  <1> SUFFICES ASSUME TInv, SeenOK, [Next]_vars PROVE SeenOK'
    OBVIOUS
  <1>1. pc \in [Proc -> Call] /\ saw \in [Proc -> Seen]
    BY DEF TInv, TypeOK
  <1>2. ASSUME NEW p \in Proc, StoreStep(p) \/ ApplyVerified(p) PROVE SeenOK'
    BY <1>1, <1>2 DEF StoreStep, ApplyVerified, SeenOK
  <1>3. ASSUME NEW p \in Proc, NEW a, Respond(p, a) PROVE SeenOK'
    BY <1>1, <1>3 DEF Respond, SeenOK
  <1>4. ASSUME NEW p \in Proc, Proceed(p) PROVE SeenOK'
    BY <1>2, <1>3, <1>4
    DEF Proceed, ApplyUnloaded, ApplyRejected, ApplySaved, ApplyUnsaved, DescribeReturns,
        ProvisionReturns
  <1>5. ASSUME NEW p \in Proc, NEW c \in Code, ApplyCode(p, c) PROVE SeenOK'
    BY <1>1, <1>5 DEF ApplyCode, Enter, SeenOK
  <1>6. ASSUME NEW p \in Proc, NEW s \in Secret, Provision(p, s) PROVE SeenOK'
    BY <1>1, <1>6 DEF Provision, Enter, SeenOK
  <1>7. ASSUME NEW p \in Proc, Describe(p) PROVE SeenOK'
    BY <1>1, <1>7 DEF Describe, Enter, SeenOK
  <1>8. ASSUME NEW p \in Proc, KillProcess(p) PROVE SeenOK'
    BY <1>1, <1>8 DEF KillProcess, SeenOK
  <1>9. CASE \/ \E on \in BOOLEAN : SetLockEnabled(on)
             \/ ClockChanges \/ LosePower \/ LazyWrite \/ UNCHANGED vars
    BY <1>9 DEF SetLockEnabled, ClockChanges, LosePower, LazyWrite, vars, gateVars, SeenOK
  <1> QED  BY <1>4, <1>5, <1>6, <1>7, <1>8, <1>9 DEF Next

\* "Fail closed everywhere", for any number of writers: when the switch can be
\* read, an unreadable or missing record closes an armed gate.
THEOREM FailClosedEver ==
    ASSUME ~RegistryFaults
    PROVE  Spec => FailClosed
  <1> DEFINE Closed == \A p \in Proc :
                          DescribeReturns(p) /\ enabled /\ saw[p] # "off"
                                             /\ "failed" \in {saw[p], io[p]}
                              => answer'[p] = "closed"
  <1>1. TInv /\ SeenOK => Closed
    <2> SUFFICES ASSUME TInv, SeenOK, NEW p \in Proc, DescribeReturns(p),
                        saw[p] # "off", "failed" \in {saw[p], io[p]}
                 PROVE  answer'[p] = "closed"
      OBVIOUS
    <2>1. saw[p] = "on" /\ io[p] = "failed"
      BY DEF SeenOK, DescribeReturns
    <2>2. Locked(p)
      BY <2>1 DEF Locked, LockEnabledReads
    <2> QED  BY <2>2 DEF DescribeReturns, Respond, TInv, TypeOK
  <1>2. Spec => [](TInv /\ SeenOK)
    BY InitTInv, InitSeenOK, StepTInv, StepSeenOK, PTL DEF Spec
  <1>3. TInv /\ SeenOK => [Closed]_vars
    BY <1>1
  <1> HIDE DEF Closed
  <1>4. Spec => [][Closed]_vars
    BY <1>2, <1>3, PTL
  <1> QED  BY <1>4 DEF FailClosed, Closed

\* An open answer holds when it is given, though its three reads and the one
\* writer interleave at will: the deadline it read can only have moved on.
THEOREM OpenAnswerIsCurrentEver ==
    ASSUME WritersAlone, ~Reprovision, ~RegistryFaults
    PROVE  Spec => OpenAnswerIsCurrent
  <1> DEFINE Current == \A p \in Proc :
                          DescribeReturns(p) /\ answer'[p] = "open" /\ saw[p] # "off"
                              => Lifted
  <1>1. TInv /\ WInv /\ SeenOK => Current
    <2> SUFFICES ASSUME TInv, WInv, SeenOK, NEW p \in Proc, DescribeReturns(p),
                        answer'[p] = "open", saw[p] # "off"
                 PROVE  Lifted
      OBVIOUS
    <2>1. saw[p] = "on" /\ pc[p] = "describe"
      BY DEF SeenOK, DescribeReturns
    <2>2. ~Locked(p)
      BY DEF DescribeReturns, Respond, TInv, TypeOK
    <2>3. io[p] = "ok" /\ ~(today >= buf[p].state.lockDeadlineDay)
      BY <2>1, <2>2 DEF Locked, LockEnabledReads
    <2>4. LastsAsLong(file, buf[p])
      BY <2>1, <2>3 DEF WInv, CallOK
    <2>5. /\ file \in StoredDevice /\ today \in Nat
          /\ buf[p].state.lockDeadlineDay \in Nat /\ file.state.lockDeadlineDay \in Nat
          /\ buf[p].state.lockDeadlineDay <= file.state.lockDeadlineDay
      BY <2>4, GateAssumption DEF LastsAsLong, StoredDevice, DeviceState, TInv, TypeOK
    <2> QED  BY <2>3, <2>5, ConstantsAreApart DEF Lifted
  <1>2. Spec => [](TInv /\ SInv /\ WInv /\ SeenOK)
    BY InitTInv, InitSInv, InitWInv, InitSeenOK, StepTInv, StepSInv, StepWInv, StepSeenOK,
       PTL DEF Spec
  <1>3. TInv /\ SInv /\ WInv /\ SeenOK => [Current]_vars
    BY <1>1
  <1> HIDE DEF Current
  <1>4. Spec => [][Current]_vars
    BY <1>2, <1>3, PTL
  <1> QED  BY <1>4 DEF OpenAnswerIsCurrent, Current

-----------------------------------------------------------------------------
(* The lock of DeviceLock.                                                 *)

\* DeviceLock has its own copies of what the core library decides.
LEMMA LockDecidesAlike ==
    /\ \A s, c, secret, day : Lock!Apply(s, c, secret, day) = Apply(s, c, secret, day)
    /\ Lock!FreshState = FreshState
  BY DEF Lock!Apply, Lock!Decode, Lock!Redeemed, Lock!Later, Lock!FreshState,
         Apply, Decode, Redeemed, Later, FreshState

\* What a call looks like to the user, and what an answer does.
Stage(call, step) ==
    IF call = "commit" /\ step = "ok" THEN "granted"
    ELSE IF call \in {"apply", "commit"} THEN "asked" ELSE "idle"

Told(a) == IF a \in Result THEN a ELSE "none"

LEMMA StageAndReplyAre ==
    /\ stage = [p \in Proc |-> Stage(pc[p], io[p])]
    /\ reply = [p \in Proc |-> Told(answer[p])]
  BY DEF stage, reply, Stage, Told

LEMMA StageAndReplyMove ==
    ASSUME TInv, NEW p \in Proc, OthersStand(p), TInv',
           \A q \in Proc \ {p} : answer'[q] = answer[q]
    PROVE  /\ stage' = [stage EXCEPT ![p] = Stage(pc'[p], io'[p])]
           /\ reply' = [reply EXCEPT ![p] = Told(answer'[p])]
           /\ code' = [code EXCEPT ![p] = code'[p]]
           /\ stage[p] = Stage(pc[p], io[p]) /\ reply[p] = Told(answer[p])
           /\ stage' = [q \in Proc |-> IF q \in {p} THEN Stage(pc'[p], io'[p]) ELSE stage[q]]
           /\ reply' = [q \in Proc |-> IF q \in {p} THEN Told(answer'[p]) ELSE reply[q]]
           /\ code' = [q \in Proc |-> IF q \in {p} THEN code'[p] ELSE code[q]]
  <1>1. /\ stage' = [q \in Proc |-> Stage(pc'[q], io'[q])]
        /\ reply' = [q \in Proc |-> Told(answer'[q])]
    BY DEF stage, reply, Stage, Told
  <1>2. /\ code \in [Proc -> Code \union {NoCode}]
        /\ code' \in [Proc -> Code \union {NoCode}]
    BY DEF TInv, TypeOK
  <1>3. \A q \in Proc \ {p} : /\ Stage(pc'[q], io'[q]) = Stage(pc[q], io[q])
                              /\ Told(answer'[q]) = Told(answer[q])
                              /\ code'[q] = code[q]
    BY DEF OthersStand
  <1> HIDE DEF Stage, Told
  <1> QED  BY <1>1, <1>2, <1>3, StageAndReplyAre

\* The process asks for something else, goes away or hears nothing of interest.
LEMMA OneForgets ==
    ASSUME TInv, TInv', NEW p \in Proc, OthersStand(p),
           \A q \in Proc \ {p} : answer'[q] = answer[q],
           Stage(pc'[p], io'[p]) = "idle", code'[p] = NoCode,
           answer'[p] = answer[p] \/ Told(answer'[p]) = "none",
           file' = file, latest' = latest
    PROVE  Lock!Forget
  <1>1. /\ stage' = [q \in Proc |-> IF q \in {p} THEN "idle" ELSE stage[q]]
        /\ code' = [q \in Proc |-> IF q \in {p} THEN NoCode ELSE code[q]]
    BY StageAndReplyMove
  <1>2. \E silent \in SUBSET Proc :
            reply' = [q \in Proc |-> IF q \in silent THEN "none" ELSE reply[q]]
    <2>1. CASE answer'[p] = answer[p]
      <3>1. reply' = [q \in Proc |-> IF q \in {} THEN "none" ELSE reply[q]]
        BY <2>1, StageAndReplyMove, StageAndReplyAre
      <3>2. {} \in SUBSET Proc
        OBVIOUS
      <3> QED  BY <3>1, <3>2, Zenon
    <2>2. CASE Told(answer'[p]) = "none"
      <3>1. reply' = [q \in Proc |-> IF q \in {p} THEN "none" ELSE reply[q]]
        BY <2>2, StageAndReplyMove
      <3> QED  BY <3>1
    <2> QED  BY <2>1, <2>2
  <1>3. {p} \in SUBSET Proc
    OBVIOUS
  <1> QED  BY <1>1, <1>2, <1>3 DEF Lock!Forget

\* Renaming the sibling is the step that consumes the counter and adds the
\* days, or provisions; everything else in the store is not seen.
LEMMA StoreStepIsLock ==
    ASSUME TInv, TInv', WInv, NEW p \in Proc, StoreStep(p)
    PROVE  [Lock!Next]_Lock!vars
  <1>1. /\ StoreAction(p) /\ UNCHANGED <<pc, code, answer, latest>>
        /\ CallOK(p, pc[p], code[p], io[p], buf[p], file, tmp, latest)
        /\ pc \in [Proc -> Call] /\ code \in [Proc -> Code \union {NoCode}]
        /\ io \in [Proc -> IoStep]
        /\ \E step : Goto(p, step)
    BY DEF StoreStep, WInv, TInv, TypeOK, StoreTypeOK, StoreAction, LoadAction, SaveAction,
           OpenForRead, OpenForReadFails, FinishRead, ReadFails, CreateTemp, CreateTempFails,
           WriteTemp, WriteTempFails, RenameTemp, RenameTempFails, DeleteTemp
  <1>2. /\ pc[p] = "commit" => io[p] \in SaveStep \union Returned
        /\ pc[p] \in {"apply", "describe"} => io[p] \in LoadStep \union Returned
        /\ pc[p] = "idle" => io[p] = "idle"
        /\ io[p] \in SaveStep => buf[p] \in StoredDevice
    BY DEF TInv, CallsOK
  <1>3. \A q \in Proc \ {p} : Stage(pc'[q], io'[q]) = Stage(pc[q], io[q])
    BY <1>1 DEF Goto
  <1>4. reply' = reply
    BY <1>1 DEF reply
  <1>5. CASE ~RenameTemp(p)
    <2>1. file' = file
      BY <1>1, <1>5
      DEF StoreAction, LoadAction, SaveAction, OpenForRead, OpenForReadFails, FinishRead,
          ReadFails, CreateTemp, CreateTempFails, WriteTemp, WriteTempFails,
          RenameTempFails, DeleteTemp
    <2>2. io'[p] = "ok" => pc[p] # "commit"
      BY <1>1, <1>2, <1>5
      DEF StoreAction, LoadAction, SaveAction, OpenForRead, OpenForReadFails, FinishRead,
          ReadFails, CreateTemp, CreateTempFails, WriteTemp, WriteTempFails,
          RenameTempFails, DeleteTemp, Goto, LoadStep, SaveStep, Returned
    <2>3. io[p] = "ok" => pc[p] # "commit"
      BY <1>1, <1>2
      DEF StoreAction, LoadAction, SaveAction, OpenForRead, OpenForReadFails, FinishRead,
          ReadFails, CreateTemp, CreateTempFails, WriteTemp, WriteTempFails, RenameTemp,
          RenameTempFails, DeleteTemp
    <2>4. Stage(pc'[p], io'[p]) = Stage(pc[p], io[p])
      BY <1>1, <2>2, <2>3 DEF Stage
    <2>5. stage' = stage
      <3>1. stage' = [q \in Proc |-> Stage(pc'[q], io'[q])]
        BY DEF stage, Stage
      <3> QED  BY <1>3, <2>4, <3>1, StageAndReplyAre
    <2> QED  BY <1>1, <1>4, <2>1, <2>5 DEF Lock!vars
  <1>6. CASE RenameTemp(p)
    <2>1. /\ io[p] = "rename" /\ io[p] \in SaveStep /\ file' = tmp
          /\ Goto(p, "ok") /\ buf' = buf
      BY <1>6 DEF RenameTemp, SaveStep
    <2>2. pc[p] \in {"commit", "provision"} /\ file' = buf[p] /\ io'[p] = "ok"
      BY <1>1, <1>2, <2>1 DEF CallOK, Call, LoadStep, SaveStep, Returned, Goto
    <2>3. OthersStand(p)
      BY <1>1, <2>1 DEF OthersStand, Goto
    <2>4. /\ stage' = [stage EXCEPT ![p] = Stage(pc[p], "ok")]
          /\ reply' = [reply EXCEPT ![p] = reply[p]]
          /\ code' = [code EXCEPT ![p] = code[p]]
          /\ stage[p] = Stage(pc[p], "rename")
      BY <1>1, <2>1, <2>2, <2>3, StageAndReplyMove
    <2>5. CASE pc[p] = "commit"
      <3>1. Granted(file, code[p], buf[p], latest)
        BY <1>1, <2>1, <2>5 DEF CallOK
      <3>2. PICK day \in Day :
                /\ day <= latest
                /\ Apply(file.state, code[p], file.secret, day).result = "Accepted"
                /\ file' = [file EXCEPT !.state =
                               Apply(file.state, code[p], file.secret, day).state]
        BY <2>2, <3>1 DEF Granted
      <3>3. stage[p] = "asked" /\ Stage(pc[p], "ok") = "granted"
        BY <2>4, <2>5 DEF Stage
      <3>4. file # Absent
        BY <3>1, ConstantsAreApart DEF Granted
      <3>5. Lock!Set(p, "granted", code[p], reply[p]) /\ latest' = latest
        BY <1>1, <2>4, <3>3 DEF Lock!Set
      <3>6. Lock!Grant(p)
        BY <3>2, <3>3, <3>4, <3>5, LockDecidesAlike DEF Lock!Grant
      <3> QED  BY <3>6 DEF Lock!Next
    <2>6. CASE pc[p] = "provision"
      <3>1. \E s \in Secret : file' = [secret |-> s, state |-> FreshState]
        BY <1>1, <2>1, <2>2, <2>6 DEF CallOK
      <3>2. Stage(pc[p], "ok") = "idle" /\ stage[p] = "idle"
        BY <2>4, <2>6 DEF Stage
      <3>3. stage' = stage
        BY <2>4, <3>2, StageAndReplyAre
      <3>4. Lock!Provision
        BY <1>1, <1>4, <3>1, <3>3, LockDecidesAlike DEF Lock!Provision
      <3> QED  BY <3>4 DEF Lock!Next
    <2> QED  BY <2>2, <2>5, <2>6
  <1> QED  BY <1>5, <1>6

\* The calls themselves: asked, granted, accepted, refused, forgotten.
LEMMA CallStepIsLock ==
    ASSUME TInv, TInv', SInv, WInv, NEW p \in Proc,
           \/ \E c \in Code : ApplyCode(p, c)
           \/ \E s \in Secret : Provision(p, s)
           \/ Describe(p)
           \/ (Proceed(p) /\ ~StoreStep(p))
           \/ KillProcess(p)
    PROVE  [Lock!Next]_Lock!vars
  <1>1. /\ pc \in [Proc -> Call] /\ code \in [Proc -> Code \union {NoCode}]
        /\ io \in [Proc -> IoStep] /\ buf \in [Proc -> StoredDevice \union {Absent}]
        /\ answer \in [Proc -> Answer]
        /\ today \in Day /\ latest \in Day /\ today <= latest
        /\ CallOK(p, pc[p], code[p], io[p], buf[p], file, tmp, latest)
    BY DEF TInv, TypeOK, StoreTypeOK, SInv, WInv
  <1>2. Told("none") = "none" /\ Told("open") = "none" /\ Told("closed") = "none"
        /\ Told("Provisioned") = "none" /\ Told("NotProvisioned") = "none"
        /\ Told("Accepted") = "Accepted" /\ Told("RejectedInvalid") = "RejectedInvalid"
        /\ Told("RejectedReplay") = "RejectedReplay"
    BY DEF Told, Result
  <1>3. ASSUME NEW c \in Code, ApplyCode(p, c) PROVE Lock!Next
    <2>1. /\ OthersStand(p) /\ \A q \in Proc \ {p} : answer'[q] = answer[q]
          /\ pc[p] = "idle" /\ pc'[p] = "apply" /\ io'[p] = "open" /\ code'[p] = c
          /\ answer'[p] = "none" /\ file' = file /\ latest' = latest
      BY <1>1, <1>3 DEF ApplyCode, Enter, CallLoad, Goto, OthersStand
    <2>2. Lock!Set(p, "asked", c, "none") /\ stage[p] = "idle"
      BY <1>2, <2>1, StageAndReplyMove DEF Lock!Set, Stage
    <2> QED  BY <2>1, <2>2 DEF Lock!Next, Lock!Ask
  <1>4. CASE Describe(p) \/ \E s \in Secret : Provision(p, s)
    <2>1. /\ OthersStand(p) /\ \A q \in Proc \ {p} : answer'[q] = answer[q]
          /\ pc[p] = "idle" /\ pc'[p] \in {"describe", "provision"} /\ code'[p] = code[p]
          /\ answer'[p] = "none" /\ file' = file /\ latest' = latest
      BY <1>1, <1>4 DEF Describe, Provision, Enter, CallLoad, CallSave, Goto, OthersStand
    <2>2. Stage(pc'[p], io'[p]) = "idle" /\ code'[p] = NoCode
      BY <1>1, <2>1 DEF CallOK, Stage
    <2> QED  BY <1>2, <2>1, <2>2, OneForgets DEF Lock!Next
  <1>5. CASE KillProcess(p)
    <2>1. /\ OthersStand(p) /\ \A q \in Proc \ {p} : answer'[q] = answer[q]
          /\ pc'[p] = "idle" /\ code'[p] = NoCode /\ answer'[p] = answer[p]
          /\ file' = file /\ latest' = latest
      BY <1>1, <1>5 DEF KillProcess, Kill, OthersStand
    <2>2. Stage(pc'[p], io'[p]) = "idle"
      BY <2>1 DEF Stage
    <2> QED  BY <2>1, <2>2, OneForgets DEF Lock!Next
  <1>6. ASSUME NEW a \in Answer, Respond(p, a), latest' = latest
        PROVE  /\ OthersStand(p) /\ \A q \in Proc \ {p} : answer'[q] = answer[q]
               /\ pc'[p] = "idle" /\ code'[p] = NoCode /\ answer'[p] = a
               /\ file' = file /\ latest' = latest
               /\ Lock!Set(p, "idle", NoCode, Told(a))
               /\ stage[p] = Stage(pc[p], io[p])
               /\ Told(a) = "none" => Lock!Forget
    <2>1. /\ OthersStand(p) /\ \A q \in Proc \ {p} : answer'[q] = answer[q]
          /\ pc'[p] = "idle" /\ code'[p] = NoCode /\ answer'[p] = a
          /\ file' = file /\ latest' = latest
      BY <1>1, <1>6 DEF Respond, Return, Goto, OthersStand
    <2>2. Stage(pc'[p], io'[p]) = "idle"
      BY <2>1 DEF Stage
    <2>3. Lock!Set(p, "idle", NoCode, Told(a)) /\ stage[p] = Stage(pc[p], io[p])
      BY <2>1, <2>2, StageAndReplyMove DEF Lock!Set
    <2>4. Told(a) = "none" => Lock!Forget
      BY <2>1, <2>2, OneForgets
    <2> QED  BY <2>1, <2>3, <2>4
  <1>7. CASE ApplyUnloaded(p) \/ ApplyUnsaved(p)
    <2>1. /\ Respond(p, "RejectedInvalid") /\ latest' = latest /\ file' = file
          /\ Stage(pc[p], io[p]) = "asked" /\ "RejectedInvalid" \in Answer
      BY <1>7 DEF ApplyUnloaded, ApplyUnsaved, Respond, Return, Stage, Answer, Result
    <2>2. Lock!Refuse(p)
      BY <1>2, <1>6, <2>1 DEF Lock!Refuse
    <2> QED  BY <2>2 DEF Lock!Next
  <1>8. CASE ApplyRejected(p)
    <2>1. /\ pc[p] = "apply" /\ io[p] = "ok" /\ latest' = latest
          /\ Verdict(p).result # "Accepted" /\ Respond(p, Verdict(p).result)
      BY <1>8 DEF ApplyRejected
    <2>2. /\ buf[p] \in StoredDevice /\ code[p] \in Code /\ file = buf[p]
          /\ buf[p].state \in DeviceState /\ buf[p].secret \in Secret
      BY <1>1, <2>1 DEF TInv, CallsOK, CallOK, StoredDevice
    <2>3. Apply(buf[p].state, code[p], buf[p].secret, today).result \in Result
      BY <2>2, ApplyCases
    <2>4. Verdict(p).result \in {"RejectedInvalid", "RejectedReplay"}
      BY <2>1, <2>3 DEF Verdict, Result
    <2>5. Stage(pc[p], io[p]) = "asked" /\ Verdict(p).result \in Answer
      BY <2>1, <2>4 DEF Stage, Answer, Result
    <2>6. /\ Lock!Set(p, "idle", NoCode, Told(Verdict(p).result))
          /\ stage[p] = "asked" /\ file' = file
      BY <1>6, <2>1, <2>5
    <2>7. CASE Verdict(p).result = "RejectedInvalid"
      BY <1>2, <2>1, <2>6, <2>7 DEF Lock!Next, Lock!Refuse
    <2>8. CASE Verdict(p).result = "RejectedReplay"
      <3>1. Apply(buf[p].state, code[p], buf[p].secret, today).result = "RejectedReplay"
        BY <2>8 DEF Verdict
      <3>2. /\ Apply(buf[p].state, code[p], buf[p].secret, today).result = "RejectedReplay"
               => code[p].key = buf[p].secret /\ code[p].counter <= buf[p].state.lastCounter
            /\ code[p].key = buf[p].secret /\ code[p].counter <= buf[p].state.lastCounter
               => Apply(buf[p].state, code[p], buf[p].secret, latest).result
                      = "RejectedReplay"
        BY <2>2, ReplayCases
      <3>3. Apply(file.state, code[p], file.secret, latest).result = "RejectedReplay"
        BY <2>2, <3>1, <3>2
      <3>4. file # Absent
        BY <2>2, ConstantsAreApart
      <3> QED
        BY <1>2, <2>1, <2>6, <2>8, <3>3, <3>4, LockDecidesAlike DEF Lock!Next, Lock!Refuse
    <2> QED  BY <2>4, <2>7, <2>8
  <1>9. CASE ApplyVerified(p)
    <2>1. /\ pc[p] = "apply" /\ io[p] = "ok" /\ pc' = [pc EXCEPT ![p] = "commit"]
          /\ io' = [io EXCEPT ![p] = "create"]
          /\ UNCHANGED <<file, code, answer, latest>>
      BY <1>9 DEF ApplyVerified, CallSave, Goto
    <2>2. \A q \in Proc : Stage(pc'[q], io'[q]) = Stage(pc[q], io[q])
      BY <1>1, <2>1 DEF Stage
    <2>3. stage' = [q \in Proc |-> Stage(pc'[q], io'[q])] /\ reply' = reply
      BY <2>1 DEF stage, Stage, reply
    <2>4. stage' = stage
      BY <2>2, <2>3, StageAndReplyAre
    <2> QED  BY <2>1, <2>3, <2>4 DEF Lock!vars
  <1>10. CASE ApplySaved(p)
    <2>1. /\ Respond(p, "Accepted") /\ latest' = latest /\ file' = file
          /\ Stage(pc[p], io[p]) = "granted" /\ "Accepted" \in Answer
      BY <1>10 DEF ApplySaved, Respond, Return, Stage, Answer, Result
    <2>2. Lock!Accept(p)
      BY <1>2, <1>6, <2>1 DEF Lock!Accept
    <2> QED  BY <2>2 DEF Lock!Next
  <1>11. CASE DescribeReturns(p) \/ ProvisionReturns(p)
    <2>1. /\ latest' = latest
          /\ \E a \in {"open", "closed", "Provisioned", "NotProvisioned"} : Respond(p, a)
      BY <1>11 DEF DescribeReturns, ProvisionReturns
    <2>2. \A a \in {"open", "closed", "Provisioned", "NotProvisioned"} :
              a \in Answer /\ Told(a) = "none"
      BY <1>2 DEF Answer
    <2> QED  BY <1>6, <2>1, <2>2 DEF Lock!Next
  <1> QED
    BY <1>3, <1>4, <1>5, <1>7, <1>8, <1>9, <1>10, <1>11 DEF Proceed

LEMMA StepIsLock ==
    ASSUME ~(Cuts /\ WriteBack)
    PROVE  TInv /\ TInv' /\ SInv /\ WInv /\ [Next]_vars => [Lock!Next]_Lock!vars
  <1> SUFFICES ASSUME TInv, TInv', SInv, WInv, [Next]_vars
               PROVE  [Lock!Next]_Lock!vars
    OBVIOUS
  <1>1. ASSUME NEW p \in Proc, StoreStep(p) PROVE [Lock!Next]_Lock!vars
    BY <1>1, StoreStepIsLock
  <1>2. ASSUME NEW p \in Proc,
               \/ \E c \in Code : ApplyCode(p, c)
               \/ \E s \in Secret : Provision(p, s)
               \/ Describe(p)
               \/ (Proceed(p) /\ ~StoreStep(p))
               \/ KillProcess(p)
        PROVE  [Lock!Next]_Lock!vars
    BY <1>2, CallStepIsLock
  <1>3. CASE (\E on \in BOOLEAN : SetLockEnabled(on)) \/ LazyWrite \/ UNCHANGED vars
    BY <1>3 DEF SetLockEnabled, LazyWrite, Flush, vars, storeVars, gateVars, Lock!vars, stage, reply
  <1>4. CASE ClockChanges
    <2>1. /\ UNCHANGED <<file, code, stage, reply>>
          /\ latest \in Day /\ latest' \in Day
          /\ latest' = latest \/ latest' > latest
      BY <1>4, GateAssumption DEF ClockChanges, storeVars, Later, stage, reply, TInv, TypeOK
    <2> QED  BY <2>1 DEF Lock!Next, Lock!TimePasses, Lock!vars
  <1>5. CASE LosePower
    <2>1. file' = file /\ latest' = latest
      BY <1>5 DEF LosePower, PowerCut, AfterCut
    <2>2. /\ stage' = [q \in Proc |-> IF q \in Proc THEN "idle" ELSE stage[q]]
          /\ code' = [q \in Proc |-> IF q \in Proc THEN NoCode ELSE code[q]]
      BY <1>5 DEF LosePower, stage
    <2>3. reply' = [q \in Proc |-> IF q \in Proc THEN "none" ELSE reply[q]]
      BY <1>5 DEF LosePower, reply, Result
    <2>4. Lock!Forget
      BY <2>1, <2>2, <2>3 DEF Lock!Forget
    <2> QED  BY <2>4 DEF Lock!Next
  <1> QED  BY <1>1, <1>2, <1>3, <1>4, <1>5 DEF Next

\* With one writer, and no power cut on data only cached, the gate grants a
\* code in one step that consumes its counter, or refuses it and changes
\* nothing: the gate is the lock of DeviceLock.
THEOREM GateImplementsLock ==
    ASSUME WritersAlone, ~(Cuts /\ WriteBack)
    PROVE  Spec => ImplementsLock
  <1>1. Init => Lock!Init
    BY DEF Init, StoreInit, Lock!Init, stage, reply, Result
  <1> QED
    BY <1>1, OneWriterInvariants, StepIsLock, PTL DEF Spec, ImplementsLock, Lock!Spec

=============================================================================
