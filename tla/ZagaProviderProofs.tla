------------------------- MODULE ZagaProviderProofs -------------------------
(***************************************************************************)
(* What ZagaProvider keeps, for any number of tile addresses and any       *)
(* interleaving of the host's calls with the world outside: who holds an   *)
(* object, and that the tile and the filter, which ask the gate each for   *)
(* itself, agree on a screen during which the gate sits still.             *)
(***************************************************************************)
EXTENDS ZagaProvider, FiniteSetTheorems, TLAPS

TileType == [refs: Nat, code: Input, events: BOOLEAN]

HostType == [phase: Phase, cpus: Scenario, todo: SUBSET Todo, tiles: SUBSET Tile,
             others: BOOLEAN, count: {0, 1}, signalled: BOOLEAN,
             reply: {"none", "success", "error"}]

ProviderType == [live: BOOLEAN, locked: BOOLEAN, credential: Tile \union {Null},
                 events: BOOLEAN]

\* The tiles of a heap that hold the host's event sink.
SunkIn(heap) == {t \in Tile : heap[t].refs > 0 /\ heap[t].events}

\* Who holds what: the provider and the screen their tiles, the provider and
\* the live tiles their sink.  Between two screens there is no provider.
Held ==
    /\ \A t \in Tile :
          tile[t].refs = One(provider.credential = t) + One(t \in host.tiles)
    /\ IsFiniteSet(SunkIn(tile))
    /\ sinkRefs = One(provider.events) + Cardinality(SunkIn(tile))
    /\ host.phase = "off" => provider = NoProvider

\* How far an enumeration has come, and what the gate answered to those who
\* have asked it by then.
Screen ==
    /\ provider.locked => GatesScenario(host.cpus)
    /\ host.phase = "initialize" => provider.locked /\ provider.credential # Null
    /\ host.phase \in {"fetch", "shown"} => host.count = CountOf(provider)
    /\ host.phase = "fetch" => host.count = 1
    /\ host.phase \in {"enumerate", "initialize"} /\ steady /\ ~host.others
          => gate = "closed" /\ GatesScenario(host.cpus)
    /\ host.phase = "initialize" /\ steady => gate = "closed"
    /\ host.phase = "enumerate" /\ steady /\ "scenario" \notin host.todo
          /\ GatesScenario(host.cpus)
          => provider.locked = (gate = "closed")
    /\ host.phase \in {"count", "fetch", "shown"} /\ steady /\ ~host.others
          => provider.locked
    /\ HostRestarts /\ host.phase = "count" /\ steady /\ provider.locked
          => gate = "closed"

Inv == TypeOK /\ Held /\ Screen

-----------------------------------------------------------------------------
LEMMA OnesAre ==
    /\ \A b \in BOOLEAN : One(b) \in {0, 1}
    /\ One(TRUE) = 1 /\ One(FALSE) = 0
  BY DEF One

LEMMA TypesOfScreen ==
    /\ Freed \in TileType
    /\ NoProvider \in [live: BOOLEAN, locked: BOOLEAN, credential: Tile \union {Null},
                       events: BOOLEAN]
  BY DEF Freed, NoProvider, TileType, Input, Genuine

\* Letting go of one reference to a live tile takes that reference from the
\* heap, and takes the tile's sink with it when it was the last.
LEMMA ReleaseOne ==
    ASSUME tile \in [Tile -> TileType], IsFiniteSet(SunkIn(tile)),
           NEW t \in Tile, tile[t].refs > 0
    PROVE  LET heap == [tile EXCEPT ![t] = ReleaseOf(tile[t])] IN
           /\ heap \in [Tile -> TileType]
           /\ heap[t].refs = tile[t].refs - 1
           /\ IsFiniteSet(SunkIn(heap))
           /\ Cardinality(SunkIn(heap)) = Cardinality(SunkIn(tile)) - SinkRefsOf(tile[t])
  <1> DEFINE heap == [tile EXCEPT ![t] = ReleaseOf(tile[t])]
  <1>1. tile[t] \in TileType /\ tile[t].refs \in Nat \ {0}
    BY DEF TileType
  <1>2. ReleaseOf(tile[t]) \in TileType /\ ReleaseOf(tile[t]).refs = tile[t].refs - 1
    <2>1. CASE tile[t].refs = 1
      <3>1. ReleaseOf(tile[t]) = Freed
        BY <2>1 DEF ReleaseOf
      <3>2. Freed \in TileType /\ Freed.refs = 0
        BY TypesOfScreen DEF Freed
      <3> QED  BY <2>1, <3>1, <3>2
    <2>2. CASE tile[t].refs # 1
      <3>1. ReleaseOf(tile[t]) = [tile[t] EXCEPT !.refs = @ - 1]
        BY <2>2 DEF ReleaseOf
      <3>2. tile[t].refs - 1 \in Nat
        BY <1>1
      <3> QED  BY <1>1, <3>1, <3>2 DEF TileType
    <2> QED  BY <2>1, <2>2
  <1>3. /\ heap \in [Tile -> TileType]
        /\ heap[t] = ReleaseOf(tile[t]) /\ \A s \in Tile \ {t} : heap[s] = tile[s]
    BY <1>2
  <1> HIDE DEF heap
  <1>4. CASE tile[t].refs = 1 /\ tile[t].events
    <2>0. heap[t].refs = 0 /\ ~(heap[t].refs > 0) /\ tile[t].refs > 0
      BY <1>2, <1>3, <1>4
    <2>1. SunkIn(heap) = SunkIn(tile) \ {t} /\ t \in SunkIn(tile)
      BY <1>3, <1>4, <2>0 DEF SunkIn
    <2>2. SinkRefsOf(tile[t]) = 1
      BY <1>4 DEF SinkRefsOf, One
    <2> QED  BY <1>2, <1>3, <2>1, <2>2, FS_RemoveElement, ZenonT(40) DEF heap
  <1>5. CASE ~(tile[t].refs = 1 /\ tile[t].events)
    <2>2. SunkIn(heap) = SunkIn(tile)
      <3>1. t \in SunkIn(heap) <=> t \in SunkIn(tile)
        <4>1. CASE tile[t].refs = 1
          <5>1. ~tile[t].events
            BY <1>5, <4>1
          <5>2. ~(heap[t].refs > 0)
            BY <1>2, <1>3, <4>1
          <5> QED  BY <5>1, <5>2 DEF SunkIn
        <4>2. CASE tile[t].refs # 1
          <5>1. heap[t] = [tile[t] EXCEPT !.refs = @ - 1]
            BY <1>3, <4>2 DEF ReleaseOf
          <5>2. heap[t].events = tile[t].events /\ heap[t].refs > 0
            BY <1>1, <1>2, <1>3, <4>2, <5>1 DEF TileType
          <5> QED  BY <5>2 DEF SunkIn
        <4> QED  BY <4>1, <4>2
      <3> QED  BY <1>3, <3>1 DEF SunkIn
    <2>3. SinkRefsOf(tile[t]) = 0
      BY <1>5 DEF SinkRefsOf, One
    <2>4. Cardinality(SunkIn(tile)) \in Nat
      BY FS_CardinalityType
    <2> QED  BY <1>2, <1>3, <2>2, <2>3, <2>4 DEF heap
  <1> QED  BY <1>4, <1>5

\* After releaseCredential only the screen holds tiles.
LEMMA HeapIsTheScreens ==
    ASSUME TypeOK, Held
    PROVE  /\ HeapWithoutCredential \in [Tile -> TileType]
           /\ \A t \in Tile : HeapWithoutCredential[t].refs = One(t \in host.tiles)
           /\ IsFiniteSet(SunkIn(HeapWithoutCredential))
           /\ Cardinality(SunkIn(HeapWithoutCredential))
                 = Cardinality(SunkIn(tile)) - CredentialSinkRefs
  <1> DEFINE c == provider.credential
  <1>1. tile \in [Tile -> TileType]
    BY DEF TypeOK, TileType
  <1>2. CASE c = Null
    <2>1. HeapWithoutCredential = tile /\ CredentialSinkRefs = 0
      BY <1>1, <1>2, ProviderAssumption DEF HeapWithoutCredential, CredentialSinkRefs
    <2>2. \A t \in Tile : tile[t].refs = One(t \in host.tiles)
      BY <1>2, ProviderAssumption DEF Held, One
    <2>3. Cardinality(SunkIn(tile)) \in Nat
      BY FS_CardinalityType DEF Held
    <2> QED  BY <1>1, <2>1, <2>2, <2>3 DEF Held
  <1>3. CASE c # Null
    <2>1. c \in Tile
      BY <1>3 DEF TypeOK
    <2>2. HeapWithoutCredential = [tile EXCEPT ![c] = ReleaseOf(tile[c])]
      BY <1>1 DEF HeapWithoutCredential
    <2>3. CredentialSinkRefs = SinkRefsOf(tile[c])
      BY <1>3 DEF CredentialSinkRefs
    <2>4. tile[c].refs = 1 + One(c \in host.tiles)
      BY <2>1 DEF Held, One
    <2>5. \A t \in Tile \ {c} : tile[t].refs = One(t \in host.tiles)
      BY DEF Held, One
    <2>6. tile[c].refs > 0
      BY <2>4 DEF One
    <2>7. /\ HeapWithoutCredential \in [Tile -> TileType]
          /\ HeapWithoutCredential[c].refs = tile[c].refs - 1
          /\ IsFiniteSet(SunkIn(HeapWithoutCredential))
          /\ Cardinality(SunkIn(HeapWithoutCredential))
                = Cardinality(SunkIn(tile)) - CredentialSinkRefs
      BY <1>1, <2>1, <2>2, <2>3, <2>6, ReleaseOne DEF Held
    <2>8. HeapWithoutCredential[c].refs = One(c \in host.tiles)
      BY <2>4, <2>7 DEF One
    <2>9. \A t \in Tile \ {c} : HeapWithoutCredential[t] = tile[t]
      BY DEF HeapWithoutCredential
    <2> QED  BY <2>5, <2>7, <2>8, <2>9
  <1> QED  BY <1>2, <1>3

-----------------------------------------------------------------------------
LEMMA InitKeeps == Init => Inv
  <1> SUFFICES ASSUME Init PROVE Inv
    OBVIOUS
  <1>1. TypeOK
    BY DEF Init, TypeOK, NoProvider, Freed, Input, Genuine, Phase, Scenario, Todo
  <1>2. SunkIn(tile) = {}
    BY DEF Init, SunkIn, Freed
  <1>3. IsFiniteSet(SunkIn(tile)) /\ Cardinality(SunkIn(tile)) = 0
    BY <1>2, FS_EmptySet
  <1>4. Held
    <2>1. /\ provider = NoProvider /\ provider.credential = Null /\ ~provider.events
          /\ host.tiles = {} /\ sinkRefs = 0 /\ \A t \in Tile : tile[t].refs = 0
      BY DEF Init, NoProvider, Freed
    <2>2. One(provider.events) = 0 /\ \A t \in Tile : One(provider.credential = t) = 0
                                   /\ One(t \in host.tiles) = 0
      BY <2>1, ProviderAssumption DEF One
    <2> QED  BY <1>3, <2>1, <2>2 DEF Held
  <1>5. Screen
    BY DEF Init, Screen, NoProvider
  <1> QED  BY <1>1, <1>4, <1>5 DEF Inv

\* The sink is counted, so its count is a number.
LEMMA ScreenCallKeepsHeld ==
    ASSUME TypeOK, Held, UNCHANGED <<provider, tile, sinkRefs>>,
           host'.tiles = host.tiles, host'.phase # "off" \/ host.phase = "off"
    PROVE  Held'
  BY DEF Held, SunkIn

\* The host fetches a tile only when it was told of one.
LEMMA FetchedLives ==
    ASSUME TypeOK, Screen, host.phase = "fetch"
    PROVE  provider.credential \in Tile
  <1>1. CountOf(provider) = 1
    BY DEF Screen
  <1>2. provider.credential # Null
    BY <1>1 DEF CountOf, One
  <1> QED  BY <1>2 DEF TypeOK

LEMMA HostTyped ==
    ASSUME TypeOK, Screen, Next
    PROVE  host' \in HostType
  <1>1. host \in HostType
    BY DEF TypeOK, HostType
  <1>2. /\ \A call : host.todo \ {call} \in SUBSET Todo
        /\ Todo \in SUBSET Todo /\ {"scenario", "filter"} \in SUBSET Todo
    BY DEF TypeOK, Todo
  <1>3. \A t : host.tiles \ {t} \in SUBSET Tile
    BY DEF TypeOK
  <1>4. \A phase \in {"off", "enumerate", "initialize", "count", "fetch", "shown",
                      "closing"} : phase \in Phase
    BY DEF Phase
  <1>5. ASSUME NEW cpus \in Scenario, ShowScreen(cpus) PROVE host' \in HostType
    BY <1>1, <1>2, <1>4, <1>5 DEF ShowScreen, HostType
  <1>6. CASE Filter
    BY <1>1, <1>2, <1>6 DEF Filter, HostType
  <1>7. CASE Advise
    BY <1>1, <1>2, <1>7 DEF Advise, HostType
  <1>8. CASE SetUsageScenarioUngated
    BY <1>1, <1>2, <1>8 DEF SetUsageScenarioUngated, HostType
  <1>9. CASE SetUsageScenario
    BY <1>1, <1>2, <1>4, <1>9 DEF SetUsageScenario, HostType
  <1>10. CASE Initialize
    BY <1>1, <1>2, <1>4, <1>10 DEF Initialize, HostType
  <1>11. CASE Enumerated
    BY <1>1, <1>4, <1>11 DEF Enumerated, HostType
  <1>12. CASE GetCredentialCount
    BY <1>1, <1>4, <1>12 DEF GetCredentialCount, CountOf, One, HostType
  <1>13. CASE GetCredentialAt
    <2>1. provider.credential \in Tile
      BY <1>13, FetchedLives DEF GetCredentialAt
    <2>2. host.tiles \union {provider.credential} \in SUBSET Tile
      BY <2>1 DEF TypeOK
    <2> QED  BY <1>1, <1>4, <1>13, <2>2 DEF GetCredentialAt, HostType
  <1>14. CASE CredentialsChanged
    BY <1>1, <1>2, <1>4, <1>14, ProviderAssumption DEF CredentialsChanged, HostType
  <1>15. ASSUME NEW t \in Tile, GetSerializationAccepted(t) PROVE host' \in HostType
    <2>1. (host.signalled \/ provider.events) \in BOOLEAN
      BY DEF TypeOK
    <2> QED  BY <1>1, <1>15, <2>1 DEF GetSerializationAccepted, HostType
  <1>16. ASSUME NEW t \in Tile, GetSerializationRejected(t) PROVE host' \in HostType
    BY <1>1, <1>16 DEF GetSerializationRejected, HostType
  <1>17. CASE CloseScreen
    BY <1>1, <1>4, <1>17 DEF CloseScreen, HostType
  <1>18. CASE ReleaseProvider
    BY <1>1, <1>4, <1>18 DEF ReleaseProvider, HostType
  <1>19. ASSUME NEW t \in Tile, ReleaseTile(t) PROVE host' \in HostType
    BY <1>1, <1>3, <1>19 DEF ReleaseTile, HostType
  <1>20. CASE \/ \E t \in Tile :
                    \/ AdviseTile(t) \/ UnAdviseTile(t)
                    \/ \E input \in Input : SetStringValue(t, input)
                    \/ SetDeselected(t)
              \/ UnAdvise \/ GateMoves \/ CodesSold
    BY <1>1, <1>20 DEF AdviseTile, UnAdviseTile, SetStringValue, SetDeselected,
                       UnAdvise, GateMoves, CodesSold
  <1> QED
    BY <1>5, <1>6, <1>7, <1>8, <1>9, <1>10, <1>11, <1>12, <1>13, <1>14, <1>15, <1>16,
       <1>17, <1>18, <1>19, <1>20
    DEF Next, Enumerate, TakeDown

\* What the calls that count references leave, one lemma each.
HeapOK ==
    /\ tile' \in [Tile -> TileType]
    /\ Held'

LEMMA SameRefs ==
    ASSUME TypeOK, Held, tile' \in [Tile -> TileType],
           \A t \in Tile : tile'[t].refs = tile[t].refs /\ tile'[t].events = tile[t].events,
           UNCHANGED <<provider, sinkRefs>>,
           host'.tiles = host.tiles, host'.phase # "off" \/ host.phase = "off"
    PROVE  HeapOK
  <1>1. SunkIn(tile') = SunkIn(tile)
    BY DEF SunkIn
  <1> QED  BY <1>1 DEF Held, HeapOK

LEMMA ProviderSinkMoves ==
    ASSUME TypeOK, Held, provider'.credential = provider.credential,
           sinkRefs' = sinkRefs + One(provider'.events) - One(provider.events),
           provider'.events \in BOOLEAN,
           tile' = tile, host'.tiles = host.tiles, host'.phase # "off"
    PROVE  HeapOK
  <1>1. tile' \in [Tile -> TileType]
    BY DEF TypeOK, TileType
  <1>2. Cardinality(SunkIn(tile)) \in Nat
    BY FS_CardinalityType DEF Held
  <1>3. One(provider.events) \in Nat /\ One(provider'.events) \in Nat
    BY DEF One
  <1>4. sinkRefs' = One(provider'.events) + Cardinality(SunkIn(tile))
    BY <1>2, <1>3 DEF Held
  <1> QED  BY <1>1, <1>4 DEF Held, HeapOK, SunkIn

LEMMA TileSinkMoves ==
    ASSUME TypeOK, Held, NEW t \in Tile, t \in host.tiles, NEW on \in BOOLEAN,
           tile' = [tile EXCEPT ![t].events = on],
           sinkRefs' = sinkRefs + One(on) - One(tile[t].events),
           UNCHANGED <<provider, host>>
    PROVE  HeapOK
  <1>1. tile \in [Tile -> TileType] /\ tile[t].events \in BOOLEAN
    BY DEF TypeOK, TileType
  <1>2. tile' \in [Tile -> TileType]
    BY <1>1 DEF TileType
  <1>3. /\ \A s \in Tile : tile'[s].refs = tile[s].refs
        /\ \A s \in Tile \ {t} : tile'[s].events = tile[s].events
        /\ tile'[t].events = on
    BY <1>1 DEF TileType
  <1>4. tile[t].refs > 0
    BY DEF Held, One
  <1>5. IsFiniteSet(SunkIn(tile)) /\ Cardinality(SunkIn(tile)) \in Nat
    BY FS_CardinalityType DEF Held
  <1>6. /\ IsFiniteSet(SunkIn(tile'))
        /\ Cardinality(SunkIn(tile')) =
               Cardinality(SunkIn(tile)) + One(on) - One(tile[t].events)
    <2>1. CASE on = tile[t].events
      <3>1. SunkIn(tile') = SunkIn(tile)
        BY <1>3, <2>1 DEF SunkIn
      <3>2. One(on) \in Nat /\ One(tile[t].events) = One(on)
        BY <2>1 DEF One
      <3> QED  BY <1>5, <3>1, <3>2
    <2>2. CASE on /\ ~tile[t].events
      <3>1. SunkIn(tile') = SunkIn(tile) \union {t} /\ t \notin SunkIn(tile)
        BY <1>3, <1>4, <2>2 DEF SunkIn
      <3>2. One(on) = 1 /\ One(tile[t].events) = 0
        BY <2>2 DEF One
      <3>3. /\ IsFiniteSet(SunkIn(tile'))
            /\ Cardinality(SunkIn(tile')) = Cardinality(SunkIn(tile)) + 1
        <4>1. /\ IsFiniteSet(SunkIn(tile) \union {t})
              /\ Cardinality(SunkIn(tile) \union {t}) = Cardinality(SunkIn(tile)) + 1
          BY <1>5, <3>1, FS_AddElement, Zenon
        <4> QED  BY <3>1, <4>1
      <3> QED  BY <1>5, <3>2, <3>3
    <2>3. CASE ~on /\ tile[t].events
      <3>1. SunkIn(tile') = SunkIn(tile) \ {t} /\ t \in SunkIn(tile)
        BY <1>3, <1>4, <2>3 DEF SunkIn
      <3>2. One(on) = 0 /\ One(tile[t].events) = 1
        BY <2>3 DEF One
      <3>3. /\ IsFiniteSet(SunkIn(tile'))
            /\ Cardinality(SunkIn(tile')) = Cardinality(SunkIn(tile)) - 1
        BY <1>5, <3>1, FS_RemoveElement
      <3> QED  BY <1>5, <3>2, <3>3
    <2> QED  BY <1>1, <2>1, <2>2, <2>3
  <1>7. One(on) \in Nat /\ One(tile[t].events) \in Nat /\ One(provider.events) \in Nat
    BY DEF One
  <1>8. sinkRefs' = One(provider.events) + Cardinality(SunkIn(tile'))
    BY <1>5, <1>6, <1>7 DEF Held
  <1> QED  BY <1>2, <1>3, <1>6, <1>8 DEF Held, HeapOK

\* A new tile is held by the provider alone, and has no sink yet.
LEMMA NewTile ==
    ASSUME NEW heap \in [Tile -> TileType], NEW t \in Tile, heap[t].refs = 0
    PROVE  LET new == [heap EXCEPT ![t] = [Freed EXCEPT !.refs = 1]] IN
           /\ new \in [Tile -> TileType]
           /\ new[t].refs = 1 /\ \A s \in Tile \ {t} : new[s] = heap[s]
           /\ SunkIn(new) = SunkIn(heap)
  <1> DEFINE one == [Freed EXCEPT !.refs = 1]
             new == [heap EXCEPT ![t] = one]
  <1>1. one \in TileType /\ one.refs = 1 /\ ~one.events
    BY DEF Freed, TileType, Input, Genuine
  <1> HIDE DEF one
  <1>2. /\ new \in [Tile -> TileType] /\ new[t] = one
        /\ \A s \in Tile \ {t} : new[s] = heap[s]
    BY <1>1
  <1> HIDE DEF new
  <1>3. SunkIn(new) = SunkIn(heap)
    BY <1>1, <1>2 DEF SunkIn
  <1> QED  BY <1>1, <1>2, <1>3 DEF new, one

\* SetUsageScenario lets go of the old tile before there is a new one.
LEMMA ScenarioKeepsHeap ==
    ASSUME TypeOK, Held, SetUsageScenario PROVE HeapOK
  <1> DEFINE heap == HeapWithoutCredential
  <1>1. /\ heap \in [Tile -> TileType]
        /\ \A t \in Tile : heap[t].refs = One(t \in host.tiles)
        /\ IsFiniteSet(SunkIn(heap))
        /\ Cardinality(SunkIn(heap)) = Cardinality(SunkIn(tile)) - CredentialSinkRefs
    BY HeapIsTheScreens
  <1>2. Cardinality(SunkIn(heap)) \in Nat /\ Cardinality(SunkIn(tile)) \in Nat
    BY <1>1, FS_CardinalityType DEF Held
  <1>3. One(provider.events) \in Nat
    BY DEF One
  <1>4. CredentialSinkRefs \in Nat
    BY DEF CredentialSinkRefs, SinkRefsOf, One
  <1>5. sinkRefs' = One(provider.events) + Cardinality(SunkIn(heap))
    <2>1. sinkRefs' = sinkRefs - CredentialSinkRefs
      BY DEF SetUsageScenario
    <2> QED  BY <1>1, <1>2, <1>3, <1>4, <2>1 DEF Held
  <1>6. host'.tiles = host.tiles /\ host'.phase # "off" /\ provider \in ProviderType
    BY DEF SetUsageScenario, Enumerating, TypeOK, ProviderType
  <1> HIDE DEF heap
  <1>7. CASE tile' = heap /\ provider'.credential = Null /\ provider'.events = provider.events
    <2>1. \A t \in Tile : One(provider'.credential = t) = 0
      BY <1>7, ProviderAssumption DEF One
    <2>2. \A t \in Tile : One(t \in host.tiles) \in Nat
      BY DEF One
    <2> QED  BY <1>1, <1>5, <1>6, <1>7, <2>1, <2>2 DEF HeapOK, Held
  <1>8. ASSUME NEW t \in Tile, heap[t].refs = 0,
               tile' = [heap EXCEPT ![t] = [Freed EXCEPT !.refs = 1]],
               provider'.credential = t, provider'.events = provider.events
        PROVE  HeapOK
    <2>1. /\ tile' \in [Tile -> TileType] /\ SunkIn(tile') = SunkIn(heap)
          /\ tile'[t].refs = 1 /\ \A s \in Tile \ {t} : tile'[s] = heap[s]
      BY <1>1, <1>8, NewTile
    <2>2. t \notin host.tiles
      BY <1>1, <1>8 DEF One
    <2>3. \A s \in Tile : tile'[s].refs = One(provider'.credential = s)
                                          + One(s \in host'.tiles)
      <3> SUFFICES ASSUME NEW s \in Tile
                   PROVE  tile'[s].refs = One(provider'.credential = s)
                                          + One(s \in host'.tiles)
        OBVIOUS
      <3>1. CASE s = t
        <4>1. One(provider'.credential = s) = 1 /\ One(s \in host'.tiles) = 0
          BY <1>6, <1>8, <2>2, <3>1 DEF One
        <4> QED  BY <2>1, <3>1, <4>1
      <3>2. CASE s # t
        <4>1. One(provider'.credential = s) = 0 /\ One(s \in host'.tiles) \in Nat
          BY <1>8, <3>2 DEF One
        <4> QED  BY <1>1, <1>6, <2>1, <3>2, <4>1
      <3> QED  BY <3>1, <3>2
    <2> QED  BY <1>1, <1>5, <1>6, <1>8, <2>1, <2>3 DEF HeapOK, Held
  <1>9. \/ tile' = heap /\ provider'.credential = Null /\ provider'.events = provider.events
        \/ \E t \in Tile :
              /\ heap[t].refs = 0
              /\ tile' = [heap EXCEPT ![t] = [Freed EXCEPT !.refs = 1]]
              /\ provider'.credential = t /\ provider'.events = provider.events
    BY <1>6 DEF SetUsageScenario, ProviderType, heap
  <1> QED  BY <1>7, <1>8, <1>9

LEMMA FetchKeepsHeap ==
    ASSUME TypeOK, Held, Screen, GetCredentialAt PROVE HeapOK
  <1> DEFINE c == provider.credential
  <1>1. c \in Tile
    BY FetchedLives DEF GetCredentialAt
  <1>2. tile \in [Tile -> TileType] /\ host \in HostType
    BY DEF TypeOK, TileType, HostType
  <1>3. host'.tiles = host.tiles \union {c} /\ host'.phase # "off"
    BY <1>2 DEF GetCredentialAt, HostType
  <1>4. UNCHANGED <<provider, sinkRefs>>
    BY DEF GetCredentialAt
  <1>5. CASE c \in host.tiles
    BY <1>2, <1>3, <1>4, <1>5, SameRefs DEF GetCredentialAt
  <1>6. CASE c \notin host.tiles
    <2>1. tile' = [tile EXCEPT ![c].refs = @ + 1]
      BY <1>6 DEF GetCredentialAt
    <2>2. tile' \in [Tile -> TileType]
      BY <1>1, <1>2, <2>1 DEF TileType
    <2>3. /\ tile'[c].refs = tile[c].refs + 1 /\ tile'[c].events = tile[c].events
          /\ \A s \in Tile \ {c} : tile'[s] = tile[s]
      BY <1>1, <1>2, <2>1 DEF TileType
    <2>4. tile[c].refs = 1
      BY <1>1, <1>6 DEF Held, One
    <2>5. SunkIn(tile') = SunkIn(tile)
      BY <2>3, <2>4 DEF SunkIn
    <2>6. \A s \in Tile : tile'[s].refs = One(provider'.credential = s)
                                          + One(s \in host'.tiles)
      <3> SUFFICES ASSUME NEW s \in Tile
                   PROVE  tile'[s].refs = One(provider'.credential = s)
                                          + One(s \in host'.tiles)
        OBVIOUS
      <3>1. CASE s = c
        <4>1. One(provider'.credential = s) = 1 /\ One(s \in host'.tiles) = 1
          BY <1>3, <1>4, <3>1 DEF One
        <4> QED  BY <2>3, <2>4, <3>1, <4>1
      <3>2. CASE s # c
        <4>1. One(provider'.credential = s) = One(provider.credential = s)
              /\ One(s \in host'.tiles) = One(s \in host.tiles)
          BY <1>3, <1>4, <3>2 DEF One
        <4> QED  BY <2>3, <3>2, <4>1 DEF Held
      <3> QED  BY <3>1, <3>2
    <2> QED  BY <1>3, <1>4, <2>2, <2>5, <2>6 DEF HeapOK, Held
  <1> QED  BY <1>5, <1>6

LEMMA ReleaseTileKeepsHeap ==
    ASSUME TypeOK, Held, NEW t \in Tile, ReleaseTile(t) PROVE HeapOK
  <1>1. tile \in [Tile -> TileType] /\ host \in HostType
    BY DEF TypeOK, TileType, HostType
  <1>2. /\ t \in host.tiles /\ host'.tiles = host.tiles \ {t} /\ host'.phase # "off"
        /\ UNCHANGED provider
        /\ tile' = [tile EXCEPT ![t] = ReleaseOf(tile[t])]
        /\ sinkRefs' = sinkRefs - SinkRefsOf(tile[t])
    BY <1>1 DEF ReleaseTile, HostType
  <1>3. tile[t].refs = One(provider.credential = t) + 1
    BY <1>2 DEF Held, One
  <1>4. tile[t].refs > 0
    BY <1>3 DEF One
  <1>5. /\ tile' \in [Tile -> TileType]
        /\ tile'[t].refs = tile[t].refs - 1
        /\ IsFiniteSet(SunkIn(tile'))
        /\ Cardinality(SunkIn(tile')) = Cardinality(SunkIn(tile)) - SinkRefsOf(tile[t])
    BY <1>1, <1>2, <1>4, ReleaseOne DEF Held
  <1>6. \A s \in Tile \ {t} : tile'[s] = tile[s]
    BY <1>1, <1>2
  <1>7. /\ Cardinality(SunkIn(tile)) \in Nat
        /\ One(provider.events) \in Nat /\ SinkRefsOf(tile[t]) \in Nat
    BY FS_CardinalityType DEF Held, One, SinkRefsOf
  <1>8. sinkRefs' = One(provider'.events) + Cardinality(SunkIn(tile'))
    BY <1>2, <1>5, <1>7 DEF Held
  <1>9. \A s \in Tile : tile'[s].refs = One(provider'.credential = s)
                                        + One(s \in host'.tiles)
    <2> SUFFICES ASSUME NEW s \in Tile
                 PROVE  tile'[s].refs = One(provider'.credential = s)
                                        + One(s \in host'.tiles)
      OBVIOUS
    <2>1. CASE s = t
      <3>1. One(s \in host'.tiles) = 0 /\ One(provider.credential = s) \in Nat
        BY <1>2, <2>1 DEF One
      <3> QED  BY <1>2, <1>3, <1>5, <2>1, <3>1
    <2>2. CASE s # t
      <3>1. One(s \in host'.tiles) = One(s \in host.tiles)
        BY <1>2, <2>2 DEF One
      <3> QED  BY <1>2, <1>6, <2>2, <3>1 DEF Held
    <2> QED  BY <2>1, <2>2
  <1> QED  BY <1>2, <1>5, <1>8, <1>9 DEF HeapOK, Held

LEMMA ReleaseProviderKeepsHeap ==
    ASSUME TypeOK, Held, ReleaseProvider PROVE HeapOK
  <1>1. /\ tile' \in [Tile -> TileType]
        /\ \A t \in Tile : tile'[t].refs = One(t \in host.tiles)
        /\ IsFiniteSet(SunkIn(tile'))
        /\ Cardinality(SunkIn(tile')) = Cardinality(SunkIn(tile)) - CredentialSinkRefs
    BY HeapIsTheScreens DEF ReleaseProvider
  <1>2. /\ provider' = NoProvider /\ host.tiles = {} /\ host'.tiles = {}
        /\ sinkRefs' = sinkRefs - CredentialSinkRefs - One(provider.events)
    BY DEF ReleaseProvider, TypeOK
  <1>3. /\ Cardinality(SunkIn(tile)) \in Nat
        /\ One(provider.events) \in Nat /\ CredentialSinkRefs \in Nat
    BY FS_CardinalityType DEF Held, One, SinkRefsOf, CredentialSinkRefs
  <1>4. /\ One(provider'.events) = 0
        /\ \A t \in Tile : One(provider'.credential = t) = 0 /\ One(t \in host'.tiles) = 0
                           /\ One(t \in host.tiles) = 0
    BY <1>2, ProviderAssumption DEF NoProvider, One
  <1>5. Cardinality(SunkIn(tile')) \in Nat
    BY <1>1, FS_CardinalityType
  <1>6. sinkRefs' = Cardinality(SunkIn(tile'))
    BY <1>1, <1>2, <1>3 DEF Held
  <1> QED  BY <1>1, <1>2, <1>4, <1>5, <1>6 DEF HeapOK, Held

LEMMA HeapStep ==
    ASSUME TypeOK, Held, Screen, Next PROVE HeapOK
  <1>0. sinkRefs \in Nat
    BY DEF TypeOK
  <1>1. /\ tile \in [Tile -> TileType] /\ host \in HostType /\ provider \in ProviderType
        /\ \A t \in Tile : tile[t] \in TileType
    BY DEF TypeOK, TileType, HostType, ProviderType
  <1>2. CASE UNCHANGED <<provider, tile, sinkRefs>>
             /\ host'.tiles = host.tiles /\ host'.phase # "off"
    BY <1>1, <1>2, SameRefs
  <1>3. CASE Filter \/ SetUsageScenarioUngated \/ Initialize \/ Enumerated
             \/ GetCredentialCount \/ CredentialsChanged \/ CloseScreen
    <2>1. UNCHANGED <<provider, tile, sinkRefs>>
      BY <1>3 DEF Filter, SetUsageScenarioUngated, Initialize, Enumerated,
                  GetCredentialCount, CredentialsChanged, CloseScreen
    <2>2. host'.tiles = host.tiles /\ host'.phase # "off"
      <3>1. CASE Filter \/ SetUsageScenarioUngated
        BY <1>1, <3>1 DEF Filter, SetUsageScenarioUngated, Enumerating, HostType
      <3>2. CASE Initialize \/ Enumerated \/ GetCredentialCount
        BY <1>1, <3>2 DEF Initialize, Enumerated, GetCredentialCount, HostType
      <3>3. CASE CredentialsChanged \/ CloseScreen
        BY <1>1, <3>3 DEF CredentialsChanged, CloseScreen, HostType
      <3> QED  BY <1>3, <3>1, <3>2, <3>3
    <2> QED  BY <1>2, <2>1, <2>2
  <1>4. CASE GateMoves \/ CodesSold
    BY <1>1, <1>4, SameRefs DEF GateMoves, CodesSold
  <1>5. ASSUME NEW cpus \in Scenario, ShowScreen(cpus) PROVE HeapOK
    <2>1. provider = NoProvider /\ host'.tiles = host.tiles /\ host'.phase # "off"
      BY <1>1, <1>5 DEF ShowScreen, Held, HostType
    <2>2. /\ provider'.credential = provider.credential
          /\ provider'.events = provider.events /\ provider.events \in BOOLEAN
      BY <1>5, <2>1 DEF ShowScreen, NoProvider
    <2>3. UNCHANGED <<tile, sinkRefs>>
      BY <1>5 DEF ShowScreen
    <2> QED  BY <1>1, <2>1, <2>2, <2>3 DEF HeapOK, Held
  <1>6. CASE Advise
    <2>1. /\ provider'.credential = provider.credential /\ provider'.events = TRUE
          /\ host'.tiles = host.tiles /\ host'.phase # "off" /\ UNCHANGED tile
          /\ sinkRefs' = sinkRefs + 1 - One(provider.events)
      BY <1>1, <1>6 DEF Advise, Enumerating, HostType, ProviderType
    <2>2. One(provider'.events) = 1
      BY <2>1 DEF One
    <2> QED  BY <2>1, <2>2, ProviderSinkMoves
  <1>7. CASE UnAdvise
    <2>1. /\ provider'.credential = provider.credential /\ provider'.events = FALSE
          /\ host' = host /\ host.phase # "off" /\ UNCHANGED tile
          /\ sinkRefs' = sinkRefs - 1 /\ provider.events
      BY <1>1, <1>7 DEF UnAdvise, ProviderType
    <2>2. One(provider'.events) = 0 /\ One(provider.events) = 1
      BY <2>1 DEF One
    <2>3. sinkRefs' = sinkRefs + One(provider'.events) - One(provider.events)
      <3>1. sinkRefs' = sinkRefs - 1 /\ sinkRefs - 1 = sinkRefs + 0 - 1
        BY <1>0, <2>1
      <3> QED  BY <2>2, <3>1, Zenon
    <2> QED  BY <2>1, <2>3, ProviderSinkMoves
  <1>8. ASSUME NEW t \in Tile, AdviseTile(t) PROVE HeapOK
    <2>1. One(TRUE) = 1
      BY DEF One
    <2> QED  BY <1>8, <2>1, TileSinkMoves DEF AdviseTile, OnTile
  <1>9. ASSUME NEW t \in Tile, UnAdviseTile(t) PROVE HeapOK
    <2>1. One(FALSE) = 0 /\ One(tile[t].events) = 1
      BY <1>9 DEF UnAdviseTile, One
    <2>2. sinkRefs' = sinkRefs + One(FALSE) - One(tile[t].events)
      <3>1. sinkRefs' = sinkRefs - 1 /\ sinkRefs - 1 = sinkRefs + 0 - 1
        BY <1>0, <1>9 DEF UnAdviseTile
      <3> QED  BY <2>1, <3>1, Zenon
    <2> QED  BY <1>9, <2>2, TileSinkMoves DEF UnAdviseTile, OnTile
  <1>10. ASSUME NEW t \in Tile, NEW input \in Input,
                tile' = [tile EXCEPT ![t].code = input],
                UNCHANGED <<provider, sinkRefs, host>>
         PROVE  HeapOK
    <2>1. tile' \in [Tile -> TileType]
      BY <1>1, <1>10 DEF TileType
    <2>2. \A s \in Tile : tile'[s].refs = tile[s].refs /\ tile'[s].events = tile[s].events
      BY <1>1, <1>10 DEF TileType
    <2> QED  BY <1>10, <2>1, <2>2, SameRefs
  <1>11. ASSUME NEW t \in Tile,
                \/ \E input \in Input : SetStringValue(t, input)
                \/ SetDeselected(t)
         PROVE  HeapOK
    BY <1>10, <1>11 DEF SetStringValue, SetDeselected, Input
  <1>12. ASSUME NEW t \in Tile, GetSerializationAccepted(t) \/ GetSerializationRejected(t)
         PROVE  HeapOK
    <2>1. UNCHANGED <<provider, tile, sinkRefs>>
      BY <1>12 DEF GetSerializationAccepted, GetSerializationRejected
    <2>2. host'.tiles = host.tiles /\ host'.phase # "off"
      BY <1>1, <1>12 DEF GetSerializationAccepted, GetSerializationRejected, OnTile, HostType
    <2> QED  BY <1>2, <2>1, <2>2
  <1> QED
    BY <1>3, <1>4, <1>5, <1>6, <1>7, <1>8, <1>9, <1>11, <1>12, ScenarioKeepsHeap,
       FetchKeepsHeap, ReleaseTileKeepsHeap, ReleaseProviderKeepsHeap
    DEF Next, Enumerate, TakeDown

-----------------------------------------------------------------------------
\* The calls of an enumeration, in whatever order the host makes them.
LEMMA ScreenStep ==
    ASSUME TypeOK, Held, Screen, Next PROVE Screen'
  <1>1. /\ host \in HostType /\ provider \in ProviderType
        /\ gate \in {"open", "closed"} /\ steady \in BOOLEAN
    BY DEF TypeOK, HostType, ProviderType
  <1>2. host' \in HostType
    BY HostTyped
  <1>3. CASE UNCHANGED <<gate, provider, steady>>
             /\ host'.phase = host.phase /\ host'.cpus = host.cpus
             /\ host'.todo = host.todo /\ host'.others = host.others
             /\ host'.count = host.count
    BY <1>3 DEF Screen
  <1>4. ASSUME NEW cpus \in Scenario, ShowScreen(cpus) PROVE Screen'
    <2>1. /\ host'.phase = "enumerate" /\ host'.others = TRUE /\ host'.todo = Todo
          /\ provider'.locked = FALSE
      BY <1>1, <1>4 DEF ShowScreen, HostType, NoProvider
    <2> QED  BY <2>1 DEF Screen, Todo
  <1>5. CASE Filter
    <2>1. /\ host.phase = "enumerate" /\ host'.phase = "enumerate"
          /\ host'.todo = host.todo \ {"filter"} /\ host'.cpus = host.cpus
          /\ host'.others = (host.others /\ ~(GatesScenario(host.cpus) /\ gate = "closed"))
          /\ UNCHANGED <<gate, provider, steady>>
      BY <1>1, <1>5 DEF Filter, Enumerating, HostType
    <2>2. "scenario" \in host'.todo <=> "scenario" \in host.todo
      BY <2>1
    <2>3. ~host'.others => \/ ~host.others
                           \/ (GatesScenario(host.cpus) /\ gate = "closed")
      BY <2>1
    <2> QED  BY <2>1, <2>2, <2>3 DEF Screen
  <1>6. CASE Advise
    <2>1. /\ host.phase = "enumerate" /\ host'.phase = "enumerate"
          /\ host'.todo = host.todo \ {"advise"} /\ host'.cpus = host.cpus
          /\ host'.others = host.others /\ provider'.locked = provider.locked
          /\ UNCHANGED <<gate, steady>>
      BY <1>1, <1>6 DEF Advise, Enumerating, HostType, ProviderType
    <2>2. "scenario" \in host'.todo <=> "scenario" \in host.todo
      BY <2>1
    <2> QED  BY <2>1, <2>2 DEF Screen
  <1>7. CASE SetUsageScenarioUngated
    <2>1. /\ host.phase = "enumerate" /\ host'.phase = "enumerate"
          /\ host'.cpus = host.cpus /\ ~GatesScenario(host.cpus)
          /\ host'.others = host.others
          /\ UNCHANGED <<gate, provider, steady>>
      BY <1>1, <1>7 DEF SetUsageScenarioUngated, Enumerating, HostType
    <2> QED  BY <2>1 DEF Screen
  <1>8. CASE SetUsageScenario
    <2>1. /\ host.phase = "enumerate" /\ GatesScenario(host.cpus)
          /\ host'.cpus = host.cpus /\ host'.others = host.others
          /\ UNCHANGED <<gate, steady>>
          /\ provider'.locked = (gate = "closed")
          /\ \/ host'.phase = "enumerate"
             \/ host'.phase = "initialize" /\ gate = "closed"
                /\ provider'.credential \in Tile
      BY <1>1, <1>8 DEF SetUsageScenario, Enumerating, HostType, ProviderType
    <2> QED  BY <2>1, ProviderAssumption DEF Screen
  <1>9. CASE Initialize
    <2>1. /\ host.phase = "initialize" /\ host'.phase = "enumerate"
          /\ host'.cpus = host.cpus /\ host'.others = host.others
          /\ UNCHANGED <<gate, provider, steady>>
      BY <1>1, <1>9 DEF Initialize, HostType
    <2> QED  BY <2>1 DEF Screen
  <1>10. CASE Enumerated
    <2>1. /\ host.phase = "enumerate" /\ host'.phase = "count" /\ "scenario" \notin host.todo
          /\ host'.cpus = host.cpus /\ host'.others = host.others
          /\ UNCHANGED <<gate, provider, steady>>
      BY <1>1, <1>10 DEF Enumerated, HostType
    <2> QED  BY <2>1 DEF Screen
  <1>11. CASE GetCredentialCount
    <2>1. /\ host.phase = "count" /\ host'.count = CountOf(provider)
          /\ \/ host'.phase = "fetch" /\ CountOf(provider) = 1
             \/ host'.phase = "shown"
          /\ host'.cpus = host.cpus /\ host'.others = host.others
          /\ UNCHANGED <<gate, provider, steady>>
      BY <1>1, <1>11 DEF GetCredentialCount, HostType
    <2> QED  BY <2>1 DEF Screen
  <1>12. CASE GetCredentialAt
    <2>1. /\ host.phase = "fetch" /\ host'.phase = "shown" /\ host'.count = host.count
          /\ host'.cpus = host.cpus /\ host'.others = host.others
          /\ UNCHANGED <<gate, provider, steady>>
      BY <1>1, <1>12 DEF GetCredentialAt, HostType
    <2> QED  BY <2>1 DEF Screen
  <1>13. CASE CredentialsChanged
    <2>1. /\ host.phase = "shown" /\ host'.cpus = host.cpus
          /\ UNCHANGED <<gate, provider>>
          /\ \/ /\ HostRestarts /\ host'.phase = "enumerate" /\ host'.others = TRUE
                /\ "scenario" \in host'.todo
             \/ /\ ~HostRestarts /\ host'.phase = "count" /\ host'.others = host.others
                /\ steady' = steady
      BY <1>1, <1>13, ProviderAssumption DEF CredentialsChanged, HostType
    <2> QED  BY <2>1 DEF Screen
  <1>14. ASSUME NEW t \in Tile,
                \/ AdviseTile(t) \/ UnAdviseTile(t)
                \/ \E input \in Input : SetStringValue(t, input)
                \/ SetDeselected(t) \/ GetSerializationRejected(t) \/ ReleaseTile(t)
         PROVE  Screen'
    <2>1. CASE GetSerializationRejected(t) \/ ReleaseTile(t)
      BY <1>1, <1>3, <2>1 DEF GetSerializationRejected, ReleaseTile, HostType
    <2>2. CASE ~(GetSerializationRejected(t) \/ ReleaseTile(t))
      BY <1>3, <1>14, <2>2 DEF AdviseTile, UnAdviseTile, SetStringValue, SetDeselected
    <2> QED  BY <2>1, <2>2
  <1>15. ASSUME NEW t \in Tile, GetSerializationAccepted(t) PROVE Screen'
    <2>1. /\ host.phase = "shown" /\ host'.phase = "shown" /\ host'.count = host.count
          /\ host'.cpus = host.cpus /\ host'.others = host.others
          /\ UNCHANGED <<provider, steady>>
      BY <1>1, <1>15 DEF GetSerializationAccepted, OnTile, HostType
    <2> QED  BY <2>1 DEF Screen
  <1>16. CASE CloseScreen
    <2>1. /\ host'.phase = "closing" /\ host'.cpus = host.cpus /\ UNCHANGED provider
      BY <1>1, <1>16 DEF CloseScreen, HostType
    <2> QED  BY <2>1 DEF Screen
  <1>17. CASE UnAdvise
    <2>1. /\ host.phase = "closing" /\ host' = host /\ provider'.locked = provider.locked
      BY <1>1, <1>17 DEF UnAdvise, ProviderType
    <2> QED  BY <2>1 DEF Screen
  <1>18. CASE ReleaseProvider
    <2>1. host'.phase = "off" /\ provider'.locked = FALSE
      BY <1>1, <1>18 DEF ReleaseProvider, HostType, NoProvider
    <2> QED  BY <2>1 DEF Screen
  <1>19. CASE GateMoves
    <2>1. /\ UNCHANGED <<host, provider>>
          /\ steady' => steady /\ host.phase \in {"off", "shown"}
      BY <1>19 DEF GateMoves
    <2> QED  BY <2>1 DEF Screen
  <1>20. CASE CodesSold
    BY <1>3, <1>20 DEF CodesSold
  <1> QED
    BY <1>4, <1>5, <1>6, <1>7, <1>8, <1>9, <1>10, <1>11, <1>12, <1>13, <1>14, <1>15,
       <1>16, <1>17, <1>18, <1>19, <1>20
    DEF Next, Enumerate, TakeDown

LEMMA TypeStep ==
    ASSUME TypeOK, Held, Screen, Next PROVE TypeOK'
  <1>1. host' \in HostType
    BY HostTyped
  <1>2. tile' \in [Tile -> TileType] /\ Held'
    BY HeapStep DEF HeapOK
  <1>3. gate' \in {"open", "closed"} /\ fresh' \in SUBSET Genuine /\ steady' \in BOOLEAN
    BY ProviderAssumption
    DEF TypeOK, Next, Enumerate, TakeDown, ShowScreen, Filter, Advise,
        SetUsageScenarioUngated, SetUsageScenario, Initialize, Enumerated,
        GetCredentialCount, GetCredentialAt, CredentialsChanged, AdviseTile,
        UnAdviseTile, SetStringValue, SetDeselected, GetSerializationAccepted,
        GetSerializationRejected, CloseScreen, UnAdvise, ReleaseProvider, ReleaseTile,
        GateMoves, CodesSold
  <1>4. provider' \in ProviderType
    <2>1. provider \in ProviderType
      BY DEF TypeOK, ProviderType
    <2>2. \/ provider' = provider
          \/ \E cpus \in Scenario : ShowScreen(cpus)
          \/ Advise \/ SetUsageScenario \/ UnAdvise \/ ReleaseProvider
      BY DEF Next, Enumerate, TakeDown, Filter, SetUsageScenarioUngated, Initialize,
             Enumerated, GetCredentialCount, GetCredentialAt, CredentialsChanged,
             AdviseTile, UnAdviseTile, SetStringValue, SetDeselected,
             GetSerializationAccepted, GetSerializationRejected, CloseScreen,
             ReleaseTile, GateMoves, CodesSold
    <2>3. CASE \E cpus \in Scenario : ShowScreen(cpus)
      BY <2>3 DEF ShowScreen, NoProvider, ProviderType
    <2>4. CASE Advise \/ UnAdvise
      BY <2>1, <2>4 DEF Advise, UnAdvise, ProviderType
    <2>5. CASE SetUsageScenario
      BY <2>1, <2>5 DEF SetUsageScenario, ProviderType
    <2>6. CASE ReleaseProvider
      BY <2>6 DEF ReleaseProvider, NoProvider, ProviderType
    <2> QED  BY <2>1, <2>2, <2>3, <2>4, <2>5, <2>6
  <1>5. sinkRefs' \in Nat
    <2>1. Cardinality(SunkIn(tile'))  \in Nat /\ One(provider'.events) \in Nat
      BY <1>2, FS_CardinalityType DEF Held, One
    <2> QED  BY <1>2, <2>1 DEF Held
  <1> QED
    BY <1>1, <1>2, <1>3, <1>4, <1>5 DEF TypeOK, HostType, TileType, ProviderType

LEMMA InvStep == Inv /\ [Next]_vars => Inv'
  <1>1. ASSUME Inv, Next PROVE Inv'
    BY <1>1, TypeStep, HeapStep, ScreenStep DEF Inv, HeapOK
  <1>2. ASSUME Inv, UNCHANGED vars PROVE Inv'
    BY <1>2 DEF Inv, TypeOK, Held, Screen, SunkIn, vars
  <1> QED  BY <1>1, <1>2

LEMMA Invariance == Spec => []Inv
  BY InitKeeps, InvStep, PTL DEF Spec

-----------------------------------------------------------------------------
\* Every field keeps its type, whatever the host calls.
THEOREM TypeCorrect == Spec => []TypeOK
  BY Invariance, PTL DEF Inv

\* Every tile and every event sink lives exactly as long as somebody holds it,
\* for any number of tiles: Release never takes a count below zero, and nothing
\* is left behind.
THEOREM RefCountsExactEver == Spec => []RefCountsExact
  <1>1. Held => RefCountsExact
    BY DEF Held, RefCountsExact, SunkIn
  <1> QED  BY <1>1, Invariance, PTL DEF Inv

\* A screen that hides the others has a tile for the code, although the filter
\* and the provider ask the gate each for itself and in either order.
THEOREM TileWheneverHiddenEver == Spec => []TileWheneverHidden
  <1>1. ASSUME Inv PROVE TileWheneverHidden
    <2> SUFFICES ASSUME host.phase = "shown", ~host.others, steady
                 PROVE  host.count = 1 \/ (provider.locked /\ provider.credential = Null)
      BY DEF TileWheneverHidden
    <2>1. provider.locked /\ host.count = CountOf(provider)
      BY <1>1 DEF Inv, Screen
    <2> QED  BY <2>1 DEF CountOf, One
  <1> QED  BY <1>1, Invariance, PTL

\* A host that begins all over when it is told to contributes no tile while
\* the gate is open.
THEOREM NothingWhenActiveEver ==
    ASSUME HostRestarts
    PROVE  Spec => NothingWhenActive
  <1> DEFINE Nothing == host.phase = "count" /\ gate = "open" /\ steady => host'.count = 0
  <1>1. Inv /\ [Next]_vars => [Nothing]_host
    <2> SUFFICES ASSUME Inv, Next, host.phase = "count", gate = "open", steady,
                        host' # host
                 PROVE  host'.count = 0
      BY DEF vars
    <2>1. ~provider.locked
      BY DEF Inv, Screen
    <2>2. GetCredentialCount
      BY DEF Next, Enumerate, TakeDown, ShowScreen, Filter, Advise, Enumerating,
             SetUsageScenarioUngated, SetUsageScenario, Initialize, Enumerated,
             GetCredentialAt, CredentialsChanged, AdviseTile, UnAdviseTile, OnTile,
             SetStringValue, SetDeselected, GetSerializationAccepted,
             GetSerializationRejected, CloseScreen, UnAdvise, ReleaseProvider,
             ReleaseTile, GateMoves, CodesSold
    <2>3. host'.count = CountOf(provider)
      BY <2>2 DEF GetCredentialCount, Inv, TypeOK
    <2> QED  BY <2>1, <2>3 DEF CountOf, One
  <1> HIDE DEF Nothing
  <1>2. Spec => [][Nothing]_host
    BY <1>1, Invariance, PTL DEF Spec
  <1> QED  BY <1>2 DEF NothingWhenActive, Nothing

=============================================================================
