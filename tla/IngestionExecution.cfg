SPECIFICATION FairSpec
CONSTANTS
    NumUnits = 4
    MaxConcurrency = 3
CHECK_DEADLOCK FALSE
INVARIANTS
    TypeOK
    UnitsAtMostOnce
    ReportedIsDurable
    SuccessIsComplete
    CancelStopsSoon
PROPERTIES
    RunEnds
