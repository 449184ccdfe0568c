----------------------------- MODULE AtomicStore -----------------------------
(***************************************************************************)
(* What LocalStore promises its callers: a record that a save replaces as  *)
(* a whole or not at all, and that a load returns as some save left it.    *)
(* A save that answers "ok" took effect between its call and its return,   *)
(* one that answers "failed" had no effect, and a call cut off by the end  *)
(* of its process may have had either.                                     *)
(***************************************************************************)
CONSTANTS Proc, Device, None

VARIABLES
    content,   \* the record, None before the first save
    call,      \* what each process waits for: "idle", "load", "save", "ok", "failed"
    arg        \* the record being saved, or the one a load has returned

vars == <<content, call, arg>>

Init ==
    /\ content = None
    /\ call = [p \in Proc |-> "idle"]
    /\ arg = [p \in Proc |-> None]

Set(p, c, d) ==
    /\ call' = [call EXCEPT ![p] = c]
    /\ arg' = [arg EXCEPT ![p] = d]

Invoke(p) ==
    /\ call[p] = "idle"
    /\ \/ Set(p, "load", None)
       \/ \E d \in Device : Set(p, "save", d)
    /\ UNCHANGED content

Load(p) ==
    /\ call[p] = "load"
    /\ \/ content # None /\ Set(p, "ok", content)
       \/ Set(p, "failed", None)
    /\ UNCHANGED content

Save(p) ==
    /\ call[p] = "save"
    /\ \/ content' = arg[p] /\ Set(p, "ok", arg[p])
       \/ UNCHANGED content /\ Set(p, "failed", arg[p])

Return(p) ==
    /\ call[p] \in {"ok", "failed"}
    /\ Set(p, "idle", None)
    /\ UNCHANGED content

\* Processes end, one or all of them; the record stays.
Cut ==
    /\ \E gone \in SUBSET Proc :
           /\ call' = [p \in Proc |-> IF p \in gone THEN "idle" ELSE call[p]]
           /\ arg' = [p \in Proc |-> IF p \in gone THEN None ELSE arg[p]]
    /\ UNCHANGED content

Next == Cut \/ \E p \in Proc : Invoke(p) \/ Load(p) \/ Save(p) \/ Return(p)

Spec == Init /\ [][Next]_vars

=============================================================================
