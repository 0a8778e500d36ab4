SPECIFICATION FairSpec
CONSTANTS
    NumSteps = 4
    DatasetSteps = {1, 2, 4}
    ContinueOnError = {2}
    NumUnits = 2
CHECK_DEADLOCK FALSE
INVARIANTS
    TypeOK
    EvidenceIsDurable
    StepsInOrder
    OutcomeAgreesWithNodes
    LateWorkInOneStep
PROPERTIES
    DispatchSettles
