CONSTANTS
    p1 = p1
    Process <- OneProcess
    Commands <- Cycle
    Holdable = {"dll","exe"}
SPECIFICATION Spec
INVARIANT TypeOK
INVARIANT NothingDangles
INVARIANT UninstallComplete
INVARIANT FilterNeverAlone
PROPERTY ProtectionLast
