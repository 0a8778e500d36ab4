SPECIFICATION Spec
CONSTANTS
    NumUnits = 3
    MaxConcurrency = 2
CHECK_DEADLOCK FALSE
PROPERTIES
    SavedIsKept
