CONSTANTS
    w1 = w1  w2 = w2  r1 = r1  d1 = d1  d2 = d2
    Nobody = Nobody
    Absent = Absent
    Torn = Torn
    Proc <- OneSaverOneReader
    Saver <- OneSaver
    Device <- TwoRecords
    Kills = TRUE
    Cuts = TRUE
    Faults = TRUE
    WriteBack = FALSE
SPECIFICATION Spec
INVARIANT TypeOK
INVARIANT NeverCorrupt
PROPERTY IsAtomic
PROPERTY EveryCallReturns
