----------------------------- MODULE LocalStore -----------------------------
(***************************************************************************)
(* The device store on disk (store/LocalStore.cpp): the file state.bin,    *)
(* its one shared sibling state.bin.tmp, and the operating-system calls    *)
(* that LocalStore::load and LocalStore::save make on them, one action per *)
(* call.  Any number of processes use the store at once; nothing in the    *)
(* code serialises them but the share modes of the open files.             *)
(*                                                                         *)
(* This module has no Next of its own: StoreClients closes it with callers *)
(* of opaque records, LockGate with the program's own callers.             *)
(***************************************************************************)
EXTENDS FiniteSets

CONSTANTS
    Proc,       \* the processes of the machine that call LocalStore
    Nobody,     \* not a process
    Absent,     \* content of a file that does not exist
    Torn,       \* content load cannot read back: empty, cut short or zeroed
    Faults,     \* may an OS call fail for no reason visible in this model?
    WriteBack   \* may a power cut lose what the OS has only in its cache?

ASSUME StoreAssumption ==
    /\ Nobody \notin Proc
    /\ Absent # Torn
    /\ Faults \in BOOLEAN
    /\ WriteBack \in BOOLEAN

VARIABLES
    file,       \* content of state.bin
    tmp,        \* content of state.bin.tmp
    holder,     \* who has state.bin.tmp open; its share mode admits one
    readers,    \* who has state.bin open for reading
    unsynced,   \* which of the two files the OS still has only in its cache
    io,         \* where each process is inside load or save
    buf         \* the record each process is saving, or has just loaded

storeVars == <<file, tmp, holder, readers, unsynced, io, buf>>

LoadStep == {"open", "read"}
SaveStep == {"create", "write", "rename", "delete"}
Returned == {"ok", "failed"}
IoStep == {"idle"} \union LoadStep \union SaveStep \union Returned

StoreTypeOK(Device) ==
    /\ file \in Device \union {Absent, Torn}
    /\ tmp \in Device \union {Absent, Torn}
    /\ holder \in Proc \union {Nobody}
    /\ readers \in SUBSET Proc
    /\ unsynced \in SUBSET {"file", "tmp"}
    /\ io \in [Proc -> IoStep]
    /\ buf \in [Proc -> Device \union {Absent}]

StoreInit ==
    /\ file = Absent /\ tmp = Absent
    /\ holder = Nobody /\ readers = {} /\ unsynced = {}
    /\ io = [p \in Proc |-> "idle"]
    /\ buf = [p \in Proc |-> Absent]

-----------------------------------------------------------------------------
Goto(p, step) == io' = [io EXCEPT ![p] = step]

\* The call itself and the return are the caller's steps; it conjoins these.
CallLoad(p) ==
    /\ Goto(p, "open")
    /\ buf' = [buf EXCEPT ![p] = Absent]
    /\ UNCHANGED <<file, tmp, holder, readers, unsynced>>

\* Not the code: what reaches the disk is not the record that was handed over.
CallSaveBlank(p, device) ==
    /\ Goto(p, "create")
    /\ buf' = [buf EXCEPT ![p] = Torn]
    /\ UNCHANGED <<file, tmp, holder, readers, unsynced>>

CallSave(p, device) ==
    /\ Goto(p, "create")
    /\ buf' = [buf EXCEPT ![p] = device]
    /\ UNCHANGED <<file, tmp, holder, readers, unsynced>>

Return(p) ==
    /\ Goto(p, "idle")
    /\ buf' = [buf EXCEPT ![p] = Absent]
    /\ UNCHANGED <<file, tmp, holder, readers, unsynced>>

-----------------------------------------------------------------------------
(* LocalStore::load: readFile, then unprotect and deserialize.             *)

OpenForRead(p) ==
    /\ io[p] = "open" /\ file # Absent
    /\ readers' = readers \union {p}
    /\ Goto(p, "read")
    /\ UNCHANGED <<file, tmp, holder, unsynced, buf>>

OpenForReadFails(p) ==
    /\ io[p] = "open"
    /\ file = Absent \/ Faults
    /\ Goto(p, "failed")
    /\ UNCHANGED <<file, tmp, holder, readers, unsynced, buf>>

\* The open handle keeps the content from being replaced while it is read.
FinishRead(p) ==
    /\ io[p] = "read" /\ file # Torn
    /\ readers' = readers \ {p}
    /\ buf' = [buf EXCEPT ![p] = file]
    /\ Goto(p, "ok")
    /\ UNCHANGED <<file, tmp, holder, unsynced>>

\* A short read, a blob DPAPI refuses or a record that does not parse.
ReadFails(p) ==
    /\ io[p] = "read"
    /\ file = Torn \/ Faults
    /\ readers' = readers \ {p}
    /\ Goto(p, "failed")
    /\ UNCHANGED <<file, tmp, holder, unsynced, buf>>

-----------------------------------------------------------------------------
(* LocalStore::save: writeFile on the sibling, then rename over the store. *)

\* Not the code: the store itself is opened for writing, no sibling is used.
CreateInPlace(p) ==
    /\ io[p] = "create" /\ holder = Nobody
    /\ holder' = p
    /\ tmp' = Torn /\ file' = Torn
    /\ unsynced' = unsynced \ {"tmp"}
    /\ Goto(p, "write")
    /\ UNCHANGED <<readers, buf>>

\* CREATE_ALWAYS truncates whatever the sibling held.
CreateTemp(p) ==
    /\ io[p] = "create" /\ holder = Nobody
    /\ holder' = p
    /\ tmp' = Torn
    /\ unsynced' = unsynced \ {"tmp"}
    /\ Goto(p, "write")
    /\ UNCHANGED <<file, readers, buf>>

\* Protecting the record, making the directory or opening the sibling failed.
CreateTempFails(p) ==
    /\ io[p] = "create"
    /\ holder # Nobody \/ Faults
    /\ Goto(p, "failed")
    /\ UNCHANGED <<file, tmp, holder, readers, unsynced, buf>>

WriteTemp(p) ==
    /\ io[p] = "write"
    /\ tmp' = buf[p]
    /\ holder' = Nobody
    /\ unsynced' = unsynced \union {"tmp"}
    /\ Goto(p, "rename")
    /\ UNCHANGED <<file, readers, buf>>

\* The disk is full: the partial sibling is closed and left where it is.
WriteTempFails(p) ==
    /\ io[p] = "write" /\ Faults
    /\ holder' = Nobody
    /\ Goto(p, "failed")
    /\ UNCHANGED <<file, tmp, readers, unsynced, buf>>

\* A rename needs the sibling closed and nobody reading the file it replaces.
CanRename == holder = Nobody /\ readers = {} /\ tmp # Absent

RenameTemp(p) ==
    /\ io[p] = "rename" /\ CanRename
    /\ file' = tmp
    /\ tmp' = Absent
    /\ unsynced' = IF "tmp" \in unsynced THEN {"file"} ELSE {}
    /\ Goto(p, "ok")
    /\ UNCHANGED <<holder, readers, buf>>

\* Not the code: the result of MoveFileEx is ignored.
RenameUnchecked(p) ==
    /\ io[p] = "rename"
    /\ ~CanRename \/ Faults
    /\ Goto(p, "ok")
    /\ UNCHANGED <<file, tmp, holder, readers, unsynced, buf>>

\* Not the code: save starts over until the rename goes through.
RenameRetried(p) ==
    /\ io[p] = "rename"
    /\ ~CanRename \/ Faults
    /\ Goto(p, "create")
    /\ UNCHANGED <<file, tmp, holder, readers, unsynced, buf>>

RenameTempFails(p) ==
    /\ io[p] = "rename"
    /\ ~CanRename \/ Faults
    /\ Goto(p, "delete")
    /\ UNCHANGED <<file, tmp, holder, readers, unsynced, buf>>

\* The sibling goes unless somebody has it open again; save fails either way.
DeleteTemp(p) ==
    /\ io[p] = "delete"
    /\ \/ holder = Nobody /\ tmp' = Absent /\ unsynced' = unsynced \ {"tmp"}
       \/ (holder # Nobody \/ Faults) /\ UNCHANGED <<tmp, unsynced>>
    /\ Goto(p, "failed")
    /\ UNCHANGED <<file, holder, readers, buf>>

LoadAction(p) ==
    OpenForRead(p) \/ OpenForReadFails(p) \/ FinishRead(p) \/ ReadFails(p)

SaveAction(p) ==
    \/ CreateTemp(p) \/ CreateTempFails(p)
    \/ WriteTemp(p) \/ WriteTempFails(p)
    \/ RenameTemp(p) \/ RenameTempFails(p) \/ DeleteTemp(p)

StoreAction(p) == LoadAction(p) \/ SaveAction(p)

-----------------------------------------------------------------------------
(* The machine.                                                            *)

\* A process ends at any point; the system closes its handles.
Kill(p) ==
    /\ io[p] # "idle"
    /\ holder' = IF holder = p THEN Nobody ELSE holder
    /\ readers' = readers \ {p}
    /\ io' = [io EXCEPT ![p] = "idle"]
    /\ buf' = [buf EXCEPT ![p] = Absent]
    /\ UNCHANGED <<file, tmp, unsynced>>

AfterCut(name, content) ==
    IF WriteBack /\ name \in unsynced THEN {content, Torn} ELSE {content}

\* The power fails and the machine boots again: no process survives, and a
\* file that was never flushed may have kept its name and lost its bytes.
PowerCut ==
    /\ file' \in AfterCut("file", file)
    /\ tmp' \in AfterCut("tmp", tmp)
    /\ holder' = Nobody /\ readers' = {} /\ unsynced' = {}
    /\ io' = [p \in Proc |-> "idle"]
    /\ buf' = [p \in Proc |-> Absent]

\* The lazy writer catches up.
Flush ==
    /\ unsynced # {}
    /\ unsynced' = {}
    /\ UNCHANGED <<file, tmp, holder, readers, io, buf>>

=============================================================================
