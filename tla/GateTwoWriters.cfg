CONSTANTS
    w1 = w1  w2 = w2  r1 = r1  s1 = s1
    Nobody = Nobody
    Absent = Absent
    Torn = Torn
    NoKey = NoKey
    NoToken = NoToken
    NoCode = NoCode
    Proc <- TwoWriters
    Writer <- TwoWriters
    Provisioner <- OneWriter
    Secret <- OneSecret
    Code <- ThreeCodes
    Sold <- SoldUpTo
    Day <- TwoDays
    Reprovision = FALSE
    Kills = TRUE
    Cuts = FALSE
    Faults = FALSE
    WriteBack = FALSE
    RegistryFaults = FALSE
SPECIFICATION Spec
INVARIANT NoUnsoldDays
INVARIANT OpenOnlyIfPaid
