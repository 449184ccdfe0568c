---------------------------- MODULE ZagaProvider ----------------------------
(***************************************************************************)
(* The credential provider and filter (src/provider) and the tiles it      *)
(* hands out, under the calls the sign-in screen makes.  The host calls on *)
(* one thread; between any two of its calls midnight, the switch or a      *)
(* command may change what the gate would answer.  LockGate models what is *)
(* inside describe and applyCode; here each is one step.                   *)
(*                                                                         *)
(* Objects are reference counted.  A ZagaCredential is freed when its      *)
(* count reaches zero; the host's event sinks are counted the same way.    *)
(***************************************************************************)
EXTENDS Naturals, FiniteSets

CONSTANTS
    Tile,           \* the addresses ZagaCredential objects may live at
    Null,           \* nullptr
    HostRestarts,   \* does CredentialsChanged start a whole new enumeration?
    MemoryFaults    \* may an allocation fail?

ASSUME ProviderAssumption ==
    /\ Null \notin Tile
    /\ HostRestarts \in BOOLEAN /\ MemoryFaults \in BOOLEAN

VARIABLES
    gate,       \* what describe would answer now: "open" or "closed"
    fresh,      \* the genuine codes nobody has applied yet
    provider,   \* the ZagaProvider: live, _locked, _credential, _events, _cpus
    tile,       \* the ZagaCredentials, each with _cRef, _code, _events
    sinkRefs,   \* references held on the host's event sinks
    host,       \* what the host is doing and shows
    steady      \* history: the gate has not moved during this enumeration

vars == <<gate, fresh, provider, tile, sinkRefs, host, steady>>

Scenario == {"logon", "unlock", "other"}
Phase == {"off", "enumerate", "initialize", "count", "fetch", "shown", "closing"}
Todo == {"scenario", "advise", "filter"}

\* A genuine code may carry days or none; a wrong one is never accepted.
Genuine == {"days", "no days"}
Input == Genuine \union {"", "wrong"}

Freed == [refs |-> 0, code |-> "", events |-> FALSE]
NoProvider == [live |-> FALSE, locked |-> FALSE, credential |-> Null, events |-> FALSE]

Init ==
    /\ gate \in {"open", "closed"}
    /\ fresh = Genuine
    /\ provider = NoProvider
    /\ tile = [t \in Tile |-> Freed]
    /\ sinkRefs = 0
    /\ host = [phase |-> "off", cpus |-> "other", todo |-> {}, tiles |-> {},
               others |-> TRUE, count |-> 0, signalled |-> FALSE, reply |-> "none"]
    /\ steady = TRUE

GatesScenario(cpus) == cpus \in {"logon", "unlock"}

One(b) == IF b THEN 1 ELSE 0

\* Release of one reference; the destructor lets go of the event sink.
ReleaseOf(t) ==
    IF t.refs = 1 THEN Freed ELSE [t EXCEPT !.refs = @ - 1]

SinkRefsOf(t) == One(t.refs = 1 /\ t.events)

-----------------------------------------------------------------------------
(* The host brings up a sign-in screen and enumerates.                     *)

ShowScreen(cpus) ==
    /\ host.phase = "off"
    /\ provider' = [NoProvider EXCEPT !.live = TRUE]
    /\ host' = [host EXCEPT !.phase = "enumerate", !.cpus = cpus, !.todo = Todo,
                            !.others = TRUE, !.count = 0, !.reply = "none"]
    /\ steady' = TRUE
    /\ UNCHANGED <<gate, fresh, tile, sinkRefs>>

Enumerating(call) == host.phase = "enumerate" /\ call \in host.todo

\* Not the code: the filter gates every scenario.
FilterEverywhere ==
    /\ Enumerating("filter")
    /\ host' = [host EXCEPT !.todo = @ \ {"filter"}, !.others = @ /\ gate = "open"]
    /\ UNCHANGED <<gate, fresh, provider, tile, sinkRefs, steady>>

\* ZagaProvider::Filter leaves what is allowed alone, or hides all the others.
Filter ==
    /\ Enumerating("filter")
    /\ host' = [host EXCEPT !.todo = @ \ {"filter"},
                            !.others = @ /\ ~(GatesScenario(host.cpus) /\ gate = "closed")]
    /\ UNCHANGED <<gate, fresh, provider, tile, sinkRefs, steady>>

\* ZagaProvider::Advise
Advise ==
    /\ Enumerating("advise")
    /\ provider' = [provider EXCEPT !.events = TRUE]
    /\ sinkRefs' = sinkRefs + 1 - One(provider.events)
    /\ host' = [host EXCEPT !.todo = @ \ {"advise"}]
    /\ UNCHANGED <<gate, fresh, tile, steady>>

\* E_NOTIMPL: the provider takes no part in other scenarios.
SetUsageScenarioUngated ==
    /\ Enumerating("scenario") /\ ~GatesScenario(host.cpus)
    /\ host' = [host EXCEPT !.todo = @ \ {"scenario"}]
    /\ UNCHANGED <<gate, fresh, provider, tile, sinkRefs, steady>>

\* The heap once releaseCredential has run, and the sink references it drops.
HeapWithoutCredential ==
    [t \in Tile |-> IF t = provider.credential THEN ReleaseOf(tile[t]) ELSE tile[t]]

CredentialSinkRefs ==
    IF provider.credential = Null THEN 0 ELSE SinkRefsOf(tile[provider.credential])

\* Not the code: an open gate leaves the provider as it was.
SetUsageScenarioSticky ==
    /\ Enumerating("scenario") /\ GatesScenario(host.cpus)
    /\ \/ /\ gate = "open"
          /\ host' = [host EXCEPT !.todo = @ \ {"scenario"}]
          /\ UNCHANGED <<provider, tile, sinkRefs>>
       \/ /\ gate = "closed"
          /\ sinkRefs' = sinkRefs - CredentialSinkRefs
          /\ \E t \in Tile :
                /\ HeapWithoutCredential[t].refs = 0
                /\ tile' = [HeapWithoutCredential EXCEPT ![t] = [Freed EXCEPT !.refs = 1]]
                /\ provider' = [provider EXCEPT !.locked = TRUE, !.credential = t]
          /\ host' = [host EXCEPT !.phase = "initialize"]
    /\ UNCHANGED <<gate, fresh, steady>>

\* The first of the two reads of the gate that SetUsageScenario makes decides
\* whether there is a tile at all.
SetUsageScenario ==
    /\ Enumerating("scenario") /\ GatesScenario(host.cpus)
    /\ sinkRefs' = sinkRefs - CredentialSinkRefs
    /\ LET heap == HeapWithoutCredential
           locked == gate = "closed"
       IN  \/ /\ ~locked
              /\ tile' = heap
              /\ provider' = [provider EXCEPT !.locked = FALSE, !.credential = Null]
              /\ host' = [host EXCEPT !.todo = @ \ {"scenario"}]
           \/ /\ locked
              /\ \E t \in Tile :
                    /\ heap[t].refs = 0
                    /\ tile' = [heap EXCEPT ![t] = [Freed EXCEPT !.refs = 1]]
                    /\ provider' = [provider EXCEPT !.locked = TRUE, !.credential = t]
              /\ host' = [host EXCEPT !.phase = "initialize"]
           \/ /\ locked /\ MemoryFaults       \* E_OUTOFMEMORY
              /\ tile' = heap
              /\ provider' = [provider EXCEPT !.locked = TRUE, !.credential = Null]
              /\ host' = [host EXCEPT !.todo = @ \ {"scenario"}]
    /\ UNCHANGED <<gate, fresh, steady>>

\* ZagaCredential::Initialize reads the gate again, for the texts of the tile.
Initialize ==
    /\ host.phase = "initialize"
    /\ host' = [host EXCEPT !.phase = "enumerate", !.todo = @ \ {"scenario"}]
    /\ UNCHANGED <<gate, fresh, provider, tile, sinkRefs, steady>>

Enumerated ==
    /\ host.phase = "enumerate" /\ host.todo = {}
    /\ host' = [host EXCEPT !.phase = "count"]
    /\ UNCHANGED <<gate, fresh, provider, tile, sinkRefs, steady>>

\* GetCredentialCount answers from what SetUsageScenario cached.
CountOf(p) == One(p.locked /\ p.credential # Null)

GetCredentialCount ==
    /\ host.phase = "count"
    /\ host' = [host EXCEPT !.count = CountOf(provider),
                            !.phase = IF CountOf(provider) = 1 THEN "fetch" ELSE "shown"]
    /\ UNCHANGED <<gate, fresh, provider, tile, sinkRefs, steady>>

\* GetCredentialAt hands out one more reference to the tile.
GetCredentialAt ==
    /\ host.phase = "fetch"
    /\ host' = [host EXCEPT !.phase = "shown", !.tiles = @ \union {provider.credential}]
    /\ tile' = IF provider.credential \in host.tiles THEN tile
               ELSE [tile EXCEPT ![provider.credential].refs = @ + 1]
    /\ UNCHANGED <<gate, fresh, provider, sinkRefs, steady>>

-----------------------------------------------------------------------------
(* The user at the tile.                                                   *)

OnTile(t) == host.phase = "shown" /\ t \in host.tiles

\* Not the code: the sink of an earlier Advise is overwritten, not released.
AdviseTileLeaking(t) ==
    /\ OnTile(t)
    /\ tile' = [tile EXCEPT ![t].events = TRUE]
    /\ sinkRefs' = sinkRefs + 1
    /\ UNCHANGED <<gate, fresh, provider, host, steady>>

\* ZagaCredential::Advise takes the new sink and lets the old one go.
AdviseTile(t) ==
    /\ OnTile(t)
    /\ tile' = [tile EXCEPT ![t].events = TRUE]
    /\ sinkRefs' = sinkRefs + 1 - One(tile[t].events)
    /\ UNCHANGED <<gate, fresh, provider, host, steady>>

\* Not the code: the pointer is not cleared, so it is released once more.
UnAdviseTileStale(t) ==
    /\ OnTile(t) /\ tile[t].events
    /\ sinkRefs' = sinkRefs - 1
    /\ UNCHANGED <<gate, fresh, provider, tile, host, steady>>

UnAdviseTile(t) ==
    /\ OnTile(t) /\ tile[t].events
    /\ tile' = [tile EXCEPT ![t].events = FALSE]
    /\ sinkRefs' = sinkRefs - 1
    /\ UNCHANGED <<gate, fresh, provider, host, steady>>

SetStringValue(t, input) ==
    /\ OnTile(t) /\ tile[t].code # input
    /\ tile' = [tile EXCEPT ![t].code = input]
    /\ UNCHANGED <<gate, fresh, provider, sinkRefs, host, steady>>

SetDeselected(t) ==
    /\ OnTile(t)
    /\ tile' = [tile EXCEPT ![t].code = ""]
    /\ UNCHANGED <<gate, fresh, provider, sinkRefs, host, steady>>

\* Not the code: success is reported and nobody is told to enumerate.
GetSerializationUnsignalled(t) ==
    /\ OnTile(t) /\ tile[t].code \in fresh
    /\ fresh' = fresh \ {tile[t].code}
    /\ gate' = IF tile[t].code = "days" THEN "open" ELSE gate
    /\ host' = [host EXCEPT !.reply = "success"]
    /\ UNCHANGED <<provider, tile, sinkRefs, steady>>

\* A code is applied and accepted; the days it carries open the gate, and the
\* provider asks the host to enumerate again, if the host listens.
GetSerializationAccepted(t) ==
    /\ OnTile(t) /\ tile[t].code \in fresh
    /\ fresh' = fresh \ {tile[t].code}
    /\ gate' = IF tile[t].code = "days" THEN "open" ELSE gate
    /\ host' = [host EXCEPT !.reply = "success",
                            !.signalled = @ \/ provider.events]
    /\ UNCHANGED <<provider, tile, sinkRefs, steady>>

\* A wrong or used code, or one that could not be saved.
GetSerializationRejected(t) ==
    /\ OnTile(t)
    /\ host' = [host EXCEPT !.reply = "error"]
    /\ UNCHANGED <<gate, fresh, provider, tile, sinkRefs, steady>>

-----------------------------------------------------------------------------
(* The host goes on.                                                       *)

\* CredentialsChanged: the host counts again, and may begin all over, once it
\* has let go of the tiles of an earlier enumeration.
CredentialsChanged ==
    /\ host.phase = "shown" /\ host.signalled
    /\ host.tiles \subseteq {provider.credential}
    /\ host' = [host EXCEPT
                  !.signalled = FALSE,
                  !.reply = "none",
                  !.phase = IF HostRestarts THEN "enumerate" ELSE "count",
                  !.todo = IF HostRestarts THEN {"scenario", "filter"} ELSE {},
                  !.others = @ \/ HostRestarts]
    /\ steady' = (steady \/ HostRestarts)
    /\ UNCHANGED <<gate, fresh, provider, tile, sinkRefs>>

\* The host lets go of a tile it no longer shows.
ReleaseTile(t) ==
    /\ t \in host.tiles
    /\ \/ host.phase = "closing"
       \/ host.phase = "shown" /\ t # provider.credential
    /\ tile' = [tile EXCEPT ![t] = ReleaseOf(tile[t])]
    /\ sinkRefs' = sinkRefs - SinkRefsOf(tile[t])
    /\ host' = [host EXCEPT !.tiles = @ \ {t}]
    /\ UNCHANGED <<gate, fresh, provider, steady>>

CloseScreen ==
    /\ host.phase = "shown"
    /\ host' = [host EXCEPT !.phase = "closing", !.signalled = FALSE, !.reply = "none"]
    /\ UNCHANGED <<gate, fresh, provider, tile, sinkRefs, steady>>

\* UnAdvise, before the last release or left to the destructor.
UnAdvise ==
    /\ host.phase = "closing" /\ provider.events
    /\ provider' = [provider EXCEPT !.events = FALSE]
    /\ sinkRefs' = sinkRefs - 1
    /\ UNCHANGED <<gate, fresh, tile, host, steady>>

\* The last release of the provider: the destructor releases the credential
\* and the sink.  The tile's way back to its provider is a plain pointer, so
\* the host must have given up its tiles before.
ReleaseProvider ==
    /\ host.phase = "closing" /\ host.tiles = {}
    /\ tile' = HeapWithoutCredential
    /\ sinkRefs' = sinkRefs - CredentialSinkRefs - One(provider.events)
    /\ provider' = NoProvider
    /\ host' = [host EXCEPT !.phase = "off", !.count = 0, !.others = TRUE]
    /\ UNCHANGED <<gate, fresh, steady>>

-----------------------------------------------------------------------------
(* The world outside the screen.                                           *)

\* Midnight, the switch, a code applied or a device provisioned elsewhere.
GateMoves ==
    /\ gate' = IF gate = "open" THEN "closed" ELSE "open"
    /\ steady' = (steady /\ host.phase \in {"off", "shown"})
    /\ UNCHANGED <<fresh, provider, tile, sinkRefs, host>>

\* The portal sells the next codes.
CodesSold ==
    /\ fresh # Genuine
    /\ fresh' = Genuine
    /\ UNCHANGED <<gate, provider, tile, sinkRefs, host, steady>>

Enumerate ==
    \/ Filter \/ Advise \/ SetUsageScenarioUngated \/ SetUsageScenario \/ Initialize
    \/ Enumerated \/ GetCredentialCount \/ GetCredentialAt \/ CredentialsChanged

TakeDown == UnAdvise \/ ReleaseProvider \/ \E t \in Tile : ReleaseTile(t)

Next ==
    \/ \E cpus \in Scenario : ShowScreen(cpus)
    \/ Enumerate
    \/ \E t \in Tile :
          \/ AdviseTile(t) \/ UnAdviseTile(t)
          \/ \E input \in Input : SetStringValue(t, input)
          \/ SetDeselected(t)
          \/ GetSerializationAccepted(t) \/ GetSerializationRejected(t)
    \/ CloseScreen
    \/ TakeDown
    \/ GateMoves
    \/ CodesSold

\* The host finishes an enumeration or a closing it began, and reacts to a
\* signal; the user and the world do as they like.
Fairness == WF_vars(Enumerate) /\ WF_vars(TakeDown)

Spec == Init /\ [][Next]_vars /\ Fairness

-----------------------------------------------------------------------------
TypeOK ==
    /\ gate \in {"open", "closed"}
    /\ fresh \in SUBSET Genuine
    /\ provider \in [live: BOOLEAN, locked: BOOLEAN, credential: Tile \union {Null},
                     events: BOOLEAN]
    /\ tile \in [Tile -> [refs: Nat, code: Input, events: BOOLEAN]]
    /\ sinkRefs \in Nat
    /\ host \in [phase: Phase, cpus: Scenario, todo: SUBSET Todo, tiles: SUBSET Tile,
                 others: BOOLEAN, count: {0, 1}, signalled: BOOLEAN,
                 reply: {"none", "success", "error"}]
    /\ steady \in BOOLEAN

\* Every object lives exactly as long as somebody holds it, whatever order the
\* calls come in: a tile by the provider that made it and the host that shows
\* it, an event sink by the provider and the live tiles it was given to.
RefCountsExact ==
    /\ \A t \in Tile :
          tile[t].refs = One(provider.credential = t) + One(t \in host.tiles)
    /\ sinkRefs = One(provider.events)
                  + Cardinality({t \in Tile : tile[t].refs > 0 /\ tile[t].events})

\* "When the device is locked it contributes the unlock tile and hides every
\* other logon provider" (ZagaProvider.h:10-12): a screen that hides the
\* others has a tile to type a code into, although the filter and the provider
\* each ask the gate for themselves, in any order; if there was memory for a
\* tile, and unless the gate moved between the two.
TileWheneverHidden ==
    host.phase = "shown" /\ ~host.others /\ steady =>
        host.count = 1 \/ (provider.locked /\ provider.credential = Null)

\* "when the device is active it contributes nothing" (ZagaProvider.h:12-13),
\* each time the host asks for tiles after an enumeration the gate sat still in.
NothingWhenActive ==
    [][host.phase = "count" /\ gate = "open" /\ steady => host'.count = 0]_host

\* "a valid code reports success and a re-enumeration then reveals normal
\* sign-in" (INSTALL.md:114-115), unless the gate closes again or the screen
\* goes away first.
HandsOff ==
    host.reply = "success" /\ gate = "open" /\ host.phase = "shown"
        ~> host.others \/ gate = "closed" \/ host.phase = "off"

=============================================================================
