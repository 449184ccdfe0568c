CONSTANTS
    w1 = w1  w2 = w2  r1 = r1  s1 = s1
    Nobody = Nobody
    Absent = Absent
    Torn = Torn
    NoKey = NoKey
    NoToken = NoToken
    NoCode = NoCode
    Proc <- OneWriterOneReader
    Writer <- OneWriter
    Provisioner <- OneWriter
    Secret <- OneSecret
    Code <- ThreeCodes
    Sold <- SoldUpTo
    Day <- ThreeDays
    Reprovision = FALSE
    Kills = TRUE
    Cuts = TRUE
    Faults = TRUE
    WriteBack = TRUE
    RegistryFaults = FALSE
SPECIFICATION Spec
PROPERTY OpenAnswerIsCurrent
PROPERTY FailClosed
