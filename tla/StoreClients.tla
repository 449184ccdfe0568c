---------------------------- MODULE StoreClients ----------------------------
(***************************************************************************)
(* LocalStore with callers that load and save opaque records: the sign-in  *)
(* screen, the management app and the commands of the installer, any of    *)
(* which may be running.  Only the processes in Saver save.                *)
(***************************************************************************)
EXTENDS LocalStore

CONSTANTS
    Device,   \* the records callers save
    Saver,    \* the processes that save
    Kills,    \* may a process end in the middle of a call?
    Cuts      \* may the power fail?

ASSUME ClientAssumption ==
    /\ Saver \subseteq Proc
    /\ {Absent, Torn} \intersect Device = {}
    /\ Kills \in BOOLEAN /\ Cuts \in BOOLEAN

Init == StoreInit

StartLoad(p) == io[p] = "idle" /\ CallLoad(p)

StartSave(p) == io[p] = "idle" /\ p \in Saver /\ \E d \in Device : CallSave(p, d)

Finish(p) == io[p] \in Returned /\ Return(p)

KillProcess(p) == Kills /\ Kill(p)

LosePower == Cuts /\ PowerCut

Next ==
    \/ \E p \in Proc : \/ StartLoad(p) \/ StartSave(p) \/ Finish(p)
                       \/ StoreAction(p) \/ KillProcess(p)
    \/ LosePower
    \/ Flush

\* A process the scheduler runs makes its next call; nobody is made to call.
Fairness == \A p \in Proc : WF_storeVars(StoreAction(p) \/ Finish(p))

Spec == Init /\ [][Next]_storeVars /\ Fairness

-----------------------------------------------------------------------------
TypeOK == StoreTypeOK(Device)

\* "an interrupted write cannot leave a corrupt store" (FUNCTIONALITY.md 5,
\* and the comment in LocalStore::save): whatever is interrupted, state.bin is
\* missing or holds a whole record.
NeverCorrupt == file # Torn

\* LocalStore is the all-or-nothing record of AtomicStore, when one process at
\* a time saves: in particular a save that reports failure, or that its process
\* does not outlive, never leaves another record than the old or the new one,
\* although the code works on two files in five steps that others interleave.
abstractCall ==
    [p \in Proc |-> CASE io[p] \in LoadStep -> "load"
                      [] io[p] \in SaveStep -> "save"
                      [] OTHER -> io[p]]

Atomic == INSTANCE AtomicStore
          WITH content <- file, call <- abstractCall, arg <- buf, None <- Absent

IsAtomic == Atomic!Spec

\* No interleaving of opens, renames and deletes on the shared sibling leaves a
\* caller stuck: every load and save returns.
EveryCallReturns == \A p \in Proc : io[p] # "idle" ~> io[p] = "idle"

=============================================================================
