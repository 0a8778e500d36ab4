SPECIFICATION FairSpec
CONSTANTS
    Runs <- SomeRuns
    BatchSize = 2
    MaxTime = 2
    MaxWrites = 3
    MaxCrashes = 1
INVARIANTS
    TypeOK
    HandledAtMostOnce
    OrderlyEndingIsNotMissed
PROPERTIES
    OrderlyEndingIsHandled
