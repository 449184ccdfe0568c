CONSTANTS
    w1 = w1  w2 = w2  r1 = r1  s1 = s1
    Nobody = Nobody
    Absent = Absent
    Torn = Torn
    NoKey = NoKey
    NoToken = NoToken
    NoCode = NoCode
    Proc <- OneWriterOneReader
    Writer <- OneWriter
    Provisioner <- OneWriter
    Secret <- OneSecret
    Code <- ThreeCodes
    Sold <- SoldUpTo
    Day <- TwoDays
    Reprovision = TRUE
    Kills = TRUE
    Cuts = TRUE
    Faults = TRUE
    WriteBack = FALSE
    RegistryFaults = FALSE
SPECIFICATION Spec
INVARIANT TypeOK
INVARIANT HighestConsumed
PROPERTY ImplementsLock
