CONSTANTS
    w1 = w1  w2 = w2  r1 = r1  d1 = d1  d2 = d2
    Nobody = Nobody
    Absent = Absent
    Torn = Torn
    Proc <- TwoSavers
    Saver <- TwoSavers
    Device <- TwoRecords
    Kills = TRUE
    Cuts = FALSE
    Faults = FALSE
    WriteBack = FALSE
SPECIFICATION Spec
INVARIANT NeverCorrupt
