-------------------------- MODULE StoreClientsProofs --------------------------
(***************************************************************************)
(* What holds of the store for every set of records and of processes that  *)
(* load and save them, with every failure of a call possible.  The types   *)
(* hold for any savers; that the store is never corrupt and is the record  *)
(* of AtomicStore holds when one process saves and a power cut loses       *)
(* nothing already renamed, and the runs show what goes wrong without.     *)
(***************************************************************************)
EXTENDS StoreClients, TLAPS

\* Every call is where its caller believes it to be.
CallsOK ==
    \A p \in Proc :
        /\ io[p] \in SaveStep => p \in Saver
        /\ io[p] \in SaveStep \union {"ok"} => buf[p] \in Device
        /\ io[p] \in LoadStep \union {"idle"} => buf[p] = Absent
        /\ io[p] = "read" => file # Absent
        /\ holder = p <=> io[p] = "write"

TInv == TypeOK /\ CallsOK

\* What the sibling holds when it is renamed is what its saver wrote.
WholeSibling == \A p \in Proc : io[p] = "rename" => tmp = buf[p]

Inv == TInv /\ NeverCorrupt /\ WholeSibling

\* One process saves, and the power does not fail on data only cached.
Undisturbed ==
    /\ \A p, q \in Saver : p = q
    /\ ~(Cuts /\ WriteBack)

LEMMA ConstantsAreApart ==
    Absent \notin Device /\ Torn \notin Device /\ Absent # Torn
  BY ClientAssumption, StoreAssumption

LEMMA InitTInv == Init => TInv
  BY StoreAssumption
  DEF Init, StoreInit, TInv, TypeOK, StoreTypeOK, CallsOK, IoStep, LoadStep, SaveStep, Returned

\* The calls the operating system makes for a process inside load or save.
LEMMA StoreActionTInv ==
    ASSUME TInv, NEW p \in Proc, StoreAction(p)
    PROVE  TInv'
  <1> USE ConstantsAreApart, StoreAssumption
      DEF TInv, TypeOK, CallsOK, StoreTypeOK, Goto, IoStep, LoadStep, SaveStep, Returned
  <1>1. CASE OpenForRead(p)
    BY <1>1 DEF OpenForRead
  <1>2. CASE OpenForReadFails(p)
    BY <1>2 DEF OpenForReadFails
  <1>3. CASE FinishRead(p)
    BY <1>3 DEF FinishRead
  <1>4. CASE ReadFails(p)
    BY <1>4 DEF ReadFails
  <1>5. CASE CreateTemp(p)
    BY <1>5 DEF CreateTemp
  <1>6. CASE CreateTempFails(p)
    BY <1>6 DEF CreateTempFails
  <1>7. CASE WriteTemp(p)
    BY <1>7 DEF WriteTemp
  <1>8. CASE WriteTempFails(p)
    BY <1>8 DEF WriteTempFails
  <1>9. CASE RenameTemp(p)
    BY <1>9 DEF RenameTemp, CanRename
  <1>10. CASE RenameTempFails(p)
    BY <1>10 DEF RenameTempFails
  <1>11. CASE DeleteTemp(p)
    BY <1>11 DEF DeleteTemp
  <1> QED
    BY <1>1, <1>2, <1>3, <1>4, <1>5, <1>6, <1>7, <1>8, <1>9, <1>10, <1>11
    DEF StoreAction, LoadAction, SaveAction

LEMMA StepTInv == TInv /\ [Next]_storeVars => TInv'
  <1> SUFFICES ASSUME TInv, [Next]_storeVars PROVE TInv'
    OBVIOUS
  <1>1. ASSUME NEW p \in Proc, StoreAction(p) PROVE TInv'
    BY <1>1, StoreActionTInv
  <1> USE ConstantsAreApart, StoreAssumption
      DEF TInv, TypeOK, CallsOK, StoreTypeOK, Goto, IoStep, LoadStep, SaveStep, Returned
  <1>2. ASSUME NEW p \in Proc, StartLoad(p) PROVE TInv'
    BY <1>2 DEF StartLoad, CallLoad
  <1>3. ASSUME NEW p \in Proc, StartSave(p) PROVE TInv'
    BY <1>3 DEF StartSave, CallSave
  <1>4. ASSUME NEW p \in Proc, Finish(p) PROVE TInv'
    BY <1>4 DEF Finish, Return
  <1>5. ASSUME NEW p \in Proc, KillProcess(p) PROVE TInv'
    BY <1>5 DEF KillProcess, Kill
  <1>6. CASE LosePower
    BY <1>6 DEF LosePower, PowerCut, AfterCut
  <1>7. CASE Flush
    BY <1>7 DEF Flush
  <1>8. CASE UNCHANGED storeVars
    BY <1>8 DEF storeVars
  <1> QED  BY <1>1, <1>2, <1>3, <1>4, <1>5, <1>6, <1>7, <1>8 DEF Next

\* Every variable keeps its type, for any number of savers, whatever fails.
THEOREM TypeCorrect == Spec => []TypeOK
  <1>1. TInv => TypeOK  BY DEF TInv
  <1> QED  BY InitTInv, StepTInv, <1>1, PTL DEF Spec

-----------------------------------------------------------------------------
(* One saver.                                                              *)

LEMMA InitInv == Init => Inv
  <1>1. Init => TInv  BY InitTInv
  <1>2. Init => NeverCorrupt /\ WholeSibling
    BY StoreAssumption DEF Init, StoreInit, NeverCorrupt, WholeSibling
  <1> QED  BY <1>1, <1>2 DEF Inv

\* Nobody else is inside save: the sibling is the saver's alone.
LEMMA SaverIsAlone ==
    ASSUME Undisturbed, TInv, NEW p \in Proc, io[p] \in SaveStep
    PROVE  \A q \in Proc : io[q] \in SaveStep => q = p
  BY DEF Undisturbed, TInv, CallsOK

LEMMA StoreActionInv ==
    ASSUME Undisturbed, Inv, NEW p \in Proc, StoreAction(p)
    PROVE  NeverCorrupt' /\ WholeSibling'
  <1>1. /\ file # Torn
        /\ \A q \in Proc : io[q] = "rename" => tmp = buf[q]
        /\ io \in [Proc -> IoStep] /\ buf \in [Proc -> Device \union {Absent}]
        /\ \A q \in Proc : io[q] \in SaveStep => buf[q] \in Device
    BY DEF Inv, TInv, TypeOK, StoreTypeOK, CallsOK, NeverCorrupt, WholeSibling
  <1>2. io[p] \in SaveStep => \A q \in Proc : io[q] \in SaveStep => q = p
    BY SaverIsAlone DEF Inv
  <1> USE ConstantsAreApart DEF Goto, NeverCorrupt, WholeSibling, SaveStep
  <1>3. CASE LoadAction(p)
    BY <1>1, <1>3 DEF LoadAction, OpenForRead, OpenForReadFails, FinishRead, ReadFails
  <1>4. CASE CreateTemp(p)
    BY <1>1, <1>2, <1>4 DEF CreateTemp
  <1>5. CASE WriteTemp(p)
    BY <1>1, <1>2, <1>5 DEF WriteTemp
  <1>6. CASE RenameTemp(p)
    BY <1>1, <1>2, <1>6 DEF RenameTemp
  <1>7. CASE CreateTempFails(p) \/ WriteTempFails(p) \/ RenameTempFails(p)
    BY <1>1, <1>7 DEF CreateTempFails, WriteTempFails, RenameTempFails
  <1>8. CASE DeleteTemp(p)
    BY <1>1, <1>2, <1>8 DEF DeleteTemp
  <1> QED
    BY <1>3, <1>4, <1>5, <1>6, <1>7, <1>8 DEF StoreAction, SaveAction

LEMMA StepInv ==
    ASSUME Undisturbed
    PROVE  Inv /\ [Next]_storeVars => Inv'
  <1> SUFFICES ASSUME Inv, [Next]_storeVars PROVE NeverCorrupt' /\ WholeSibling'
    BY StepTInv DEF Inv
  <1>1. ASSUME NEW p \in Proc, StoreAction(p) PROVE NeverCorrupt' /\ WholeSibling'
    BY <1>1, StoreActionInv
  <1>2. /\ file # Torn
        /\ \A q \in Proc : io[q] = "rename" => tmp = buf[q]
        /\ io \in [Proc -> IoStep] /\ buf \in [Proc -> Device \union {Absent}]
    BY DEF Inv, TInv, TypeOK, StoreTypeOK, NeverCorrupt, WholeSibling
  <1> USE DEF Goto, NeverCorrupt, WholeSibling
  <1>3. ASSUME NEW p \in Proc, StartLoad(p) \/ StartSave(p) \/ Finish(p) \/ KillProcess(p)
        PROVE  NeverCorrupt' /\ WholeSibling'
    BY <1>2, <1>3 DEF StartLoad, CallLoad, StartSave, CallSave, Finish, Return, KillProcess, Kill
  <1>4. CASE LosePower
    BY <1>2, <1>4 DEF LosePower, PowerCut, AfterCut, Undisturbed
  <1>5. CASE Flush \/ UNCHANGED storeVars
    BY <1>2, <1>5 DEF Flush, storeVars
  <1> QED  BY <1>1, <1>3, <1>4, <1>5 DEF Next

LEMMA Invariance ==
    ASSUME Undisturbed
    PROVE  Spec => []Inv
  BY InitInv, StepInv, PTL DEF Spec

\* "An interrupted write cannot leave a corrupt store": with one saver, killed
\* or cut off anywhere among any number of readers, state.bin is whole.
THEOREM NeverCorruptEver ==
    ASSUME Undisturbed
    PROVE  Spec => []NeverCorrupt
  <1>1. Inv => NeverCorrupt  BY DEF Inv
  <1> QED  BY <1>1, Invariance, PTL

-----------------------------------------------------------------------------
(* The record of AtomicStore.                                              *)

\* What a step inside load or save looks like to the caller.
Abstract(step) ==
    IF step \in LoadStep THEN "load" ELSE IF step \in SaveStep THEN "save" ELSE step

LEMMA AbstractCallIs == abstractCall = [p \in Proc |-> Abstract(io[p])]
  BY DEF abstractCall, Abstract, LoadStep, SaveStep

LEMMA AbstractCallMoves ==
    ASSUME io \in [Proc -> IoStep], NEW p \in Proc, NEW step, Goto(p, step)
    PROVE  abstractCall' = [abstractCall EXCEPT ![p] = Abstract(step)]
  <1>1. abstractCall' = [q \in Proc |-> Abstract(io'[q])]
    BY DEF abstractCall, Abstract, LoadStep, SaveStep
  <1>2. \A q \in Proc : Abstract(io'[q]) = IF q = p THEN Abstract(step) ELSE Abstract(io[q])
    BY DEF Goto
  <1> QED  BY <1>1, <1>2, AbstractCallIs

\* The calls of the operating system take a load or a save on, end it, or
\* replace the record.
LEMMA StoreActionAtomic ==
    ASSUME Inv, NEW p \in Proc, StoreAction(p)
    PROVE  [Atomic!Next]_Atomic!vars
  <1> DEFINE Moves(step) == abstractCall' = [abstractCall EXCEPT ![p] = Abstract(step)]
  <1>1. /\ io \in [Proc -> IoStep] /\ buf \in [Proc -> Device \union {Absent}]
        /\ io[p] \in LoadStep => buf[p] = Absent
        /\ abstractCall = [q \in Proc |-> Abstract(io[q])]
        /\ buf = [buf EXCEPT ![p] = buf[p]]
        /\ io[p] = "rename" => tmp = buf[p]
        /\ io[p] = "read" => file # Absent
    BY AbstractCallIs DEF Inv, TInv, TypeOK, StoreTypeOK, CallsOK, WholeSibling
  <1>2. /\ abstractCall[p] = Abstract(io[p])
        /\ abstractCall \in [Proc -> {"idle", "load", "save", "ok", "failed"}]
    BY <1>1 DEF Abstract, IoStep, LoadStep, SaveStep, Returned
  <1>3. ASSUME NEW step \in IoStep, Goto(p, step) PROVE Moves(step)
    BY <1>1, <1>3, AbstractCallMoves
  <1>4. ASSUME NEW step \in IoStep, Goto(p, step), Abstract(step) = Abstract(io[p]),
               UNCHANGED <<file, buf>>
        PROVE  UNCHANGED Atomic!vars
    BY <1>2, <1>3, <1>4 DEF Atomic!vars
  <1>5. /\ \A step \in LoadStep : Abstract(step) = "load" /\ step \in IoStep
        /\ \A step \in SaveStep : Abstract(step) = "save" /\ step \in IoStep
        /\ \A step \in {"ok", "failed"} : Abstract(step) = step /\ step \in IoStep
    BY DEF Abstract, LoadStep, SaveStep, IoStep, Returned
  <1>6. CASE OpenForRead(p)
    BY <1>4, <1>5, <1>6 DEF OpenForRead, LoadStep
  <1>7. CASE OpenForReadFails(p) \/ ReadFails(p)
    <2>1. /\ abstractCall[p] = "load" /\ UNCHANGED <<file, buf>> /\ Goto(p, "failed")
          /\ io[p] \in LoadStep
      BY <1>2, <1>5, <1>7 DEF OpenForReadFails, ReadFails, LoadStep
    <2>2. abstractCall' = [abstractCall EXCEPT ![p] = "failed"]
      BY <1>3, <1>5, <2>1
    <2>3. buf' = [buf EXCEPT ![p] = Absent]
      BY <1>1, <2>1
    <2>4. Atomic!Load(p)
      BY <2>1, <2>2, <2>3 DEF Atomic!Load, Atomic!Set
    <2> QED  BY <2>4 DEF Atomic!Next
  <1>8. CASE FinishRead(p)
    <2>1. /\ abstractCall[p] = "load" /\ Goto(p, "ok") /\ file # Absent
          /\ buf' = [buf EXCEPT ![p] = file] /\ file' = file
      BY <1>1, <1>2, <1>5, <1>8 DEF FinishRead, LoadStep
    <2>2. abstractCall' = [abstractCall EXCEPT ![p] = "ok"]
      BY <1>3, <1>5, <2>1
    <2>3. Atomic!Load(p)
      BY <2>1, <2>2 DEF Atomic!Load, Atomic!Set
    <2> QED  BY <2>3 DEF Atomic!Next
  <1>9. CASE CreateTemp(p) \/ WriteTemp(p) \/ RenameTempFails(p)
    <2>1. UNCHANGED <<file, buf>> /\ Abstract(io[p]) = "save"
      BY <1>5, <1>9 DEF CreateTemp, WriteTemp, RenameTempFails, SaveStep
    <2>2. PICK step \in SaveStep : Goto(p, step)
      BY <1>9 DEF CreateTemp, WriteTemp, RenameTempFails, SaveStep
    <2> QED  BY <1>4, <1>5, <2>1, <2>2
  <1>10. CASE CreateTempFails(p) \/ WriteTempFails(p) \/ DeleteTemp(p)
    <2>1. /\ abstractCall[p] = "save" /\ UNCHANGED <<file, buf>> /\ Goto(p, "failed")
      BY <1>2, <1>5, <1>10 DEF CreateTempFails, WriteTempFails, DeleteTemp, SaveStep
    <2>2. abstractCall' = [abstractCall EXCEPT ![p] = "failed"]
      BY <1>3, <1>5, <2>1
    <2>3. buf' = [buf EXCEPT ![p] = buf[p]]
      BY <1>1, <2>1
    <2>4. Atomic!Save(p)
      BY <2>1, <2>2, <2>3 DEF Atomic!Save, Atomic!Set
    <2> QED  BY <2>4 DEF Atomic!Next
  <1>11. CASE RenameTemp(p)
    <2>1. /\ abstractCall[p] = "save" /\ Goto(p, "ok")
          /\ buf' = buf /\ file' = buf[p]
      BY <1>1, <1>2, <1>5, <1>11 DEF RenameTemp, SaveStep
    <2>2. abstractCall' = [abstractCall EXCEPT ![p] = "ok"]
      BY <1>3, <1>5, <2>1
    <2>3. buf' = [buf EXCEPT ![p] = buf[p]]
      BY <1>1, <2>1
    <2>4. Atomic!Save(p)
      BY <2>1, <2>2, <2>3 DEF Atomic!Save, Atomic!Set
    <2> QED  BY <2>4 DEF Atomic!Next
  <1> QED
    BY <1>6, <1>7, <1>8, <1>9, <1>10, <1>11 DEF StoreAction, LoadAction, SaveAction

LEMMA StepAtomic ==
    ASSUME Undisturbed
    PROVE  Inv /\ [Next]_storeVars => [Atomic!Next]_Atomic!vars
  <1> SUFFICES ASSUME Inv, [Next]_storeVars PROVE [Atomic!Next]_Atomic!vars
    OBVIOUS
  <1>1. /\ io \in [Proc -> IoStep] /\ buf \in [Proc -> Device \union {Absent}]
        /\ abstractCall = [q \in Proc |-> Abstract(io[q])]
    BY AbstractCallIs DEF Inv, TInv, TypeOK, StoreTypeOK
  <1>2. ASSUME NEW p \in Proc, StoreAction(p) PROVE [Atomic!Next]_Atomic!vars
    BY <1>2, StoreActionAtomic
  <1>3. /\ Abstract("idle") = "idle" /\ Abstract("open") = "load"
        /\ Abstract("create") = "save"
        /\ \A step \in Returned : Abstract(step) \in {"ok", "failed"}
    BY DEF Abstract, LoadStep, SaveStep, Returned
  <1>4. ASSUME NEW p \in Proc, NEW step, Goto(p, step)
        PROVE  abstractCall' = [abstractCall EXCEPT ![p] = Abstract(step)]
    BY <1>1, <1>4, AbstractCallMoves
  <1>5. ASSUME NEW p \in Proc, StartLoad(p) \/ StartSave(p) PROVE Atomic!Next
    <2>1. abstractCall[p] = "idle" /\ file' = file
      BY <1>1, <1>3, <1>5 DEF StartLoad, CallLoad, StartSave, CallSave
    <2>2. CASE StartLoad(p)
      <3>1. abstractCall' = [abstractCall EXCEPT ![p] = "load"]
        BY <1>3, <1>4, <2>2 DEF StartLoad, CallLoad
      <3>2. buf' = [buf EXCEPT ![p] = Absent]
        BY <2>2 DEF StartLoad, CallLoad
      <3> QED  BY <2>1, <3>1, <3>2 DEF Atomic!Next, Atomic!Invoke, Atomic!Set
    <2>3. CASE StartSave(p)
      <3>1. PICK d \in Device : CallSave(p, d)
        BY <2>3 DEF StartSave
      <3>2. abstractCall' = [abstractCall EXCEPT ![p] = "save"]
        BY <1>3, <1>4, <3>1 DEF CallSave
      <3>3. buf' = [buf EXCEPT ![p] = d]
        BY <3>1 DEF CallSave
      <3> QED  BY <2>1, <3>2, <3>3 DEF Atomic!Next, Atomic!Invoke, Atomic!Set
    <2> QED  BY <1>5, <2>2, <2>3
  <1>6. ASSUME NEW p \in Proc, Finish(p) PROVE Atomic!Next
    <2>1. abstractCall[p] \in {"ok", "failed"} /\ file' = file
      BY <1>1, <1>3, <1>6 DEF Finish, Return
    <2>2. abstractCall' = [abstractCall EXCEPT ![p] = "idle"]
      BY <1>3, <1>4, <1>6 DEF Finish, Return
    <2>3. buf' = [buf EXCEPT ![p] = Absent]
      BY <1>6 DEF Finish, Return
    <2> QED  BY <2>1, <2>2, <2>3 DEF Atomic!Next, Atomic!Return, Atomic!Set
  <1>7. ASSUME NEW p \in Proc, KillProcess(p) PROVE Atomic!Next
    <2>1. abstractCall' = [q \in Proc |-> IF q \in {p} THEN "idle" ELSE abstractCall[q]]
      <3>1. abstractCall' = [abstractCall EXCEPT ![p] = "idle"]
        BY <1>3, <1>4, <1>7 DEF KillProcess, Kill, Goto
      <3> QED  BY <1>1, <3>1
    <2>2. buf' = [q \in Proc |-> IF q \in {p} THEN Absent ELSE buf[q]] /\ file' = file
      BY <1>1, <1>7 DEF KillProcess, Kill
    <2>3. {p} \in SUBSET Proc
      OBVIOUS
    <2>4. Atomic!Cut
      BY <2>1, <2>2, <2>3 DEF Atomic!Cut
    <2> QED  BY <2>4 DEF Atomic!Next
  <1>8. CASE LosePower
    <2>1. abstractCall' = [q \in Proc |-> IF q \in Proc THEN "idle" ELSE abstractCall[q]]
      BY <1>8 DEF LosePower, PowerCut, abstractCall, LoadStep, SaveStep
    <2>2. buf' = [q \in Proc |-> IF q \in Proc THEN Absent ELSE buf[q]]
      BY <1>8 DEF LosePower, PowerCut
    <2>3. file' = file
      BY <1>8 DEF LosePower, PowerCut, AfterCut, Undisturbed
    <2>4. Atomic!Cut
      BY <2>1, <2>2, <2>3 DEF Atomic!Cut
    <2> QED  BY <2>4 DEF Atomic!Next
  <1>9. CASE Flush \/ UNCHANGED storeVars
    BY <1>9 DEF Flush, storeVars, Atomic!vars, abstractCall
  <1> QED  BY <1>2, <1>5, <1>6, <1>7, <1>8, <1>9 DEF Next

\* With one saver the five system calls of a save, interleaved with any number
\* of loads, kills and failures, are one step that happens or does not.
THEOREM StoreIsAtomic ==
    ASSUME Undisturbed
    PROVE  Spec => IsAtomic
  <1>1. Init => Atomic!Init
    BY DEF Init, StoreInit, Atomic!Init, abstractCall, LoadStep, SaveStep
  <1> QED  BY <1>1, StepAtomic, Invariance, PTL DEF Spec, IsAtomic, Atomic!Spec

=============================================================================
