CONSTANTS
    t1 = t1  t2 = t2
    Null = Null
    Tile <- TwoTiles
    HostRestarts = TRUE
    MemoryFaults = TRUE
SPECIFICATION Spec
INVARIANT TypeOK
INVARIANT RefCountsExact
INVARIANT TileWheneverHidden
PROPERTY NothingWhenActive
PROPERTY HandsOff
