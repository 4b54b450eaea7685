CONSTANTS
    Radix = 8
    LittleEndian = TRUE
    Limit = 5
    ParamLists <- MCParamLists
    MaxBegin = 2
    MaxRecords = 2
    Answer <- MCAnswer
    Queries <- MCQueries
    MaxQueries = 2
SPECIFICATION Spec
INVARIANT EndIsSent
CHECK_DEADLOCK FALSE
