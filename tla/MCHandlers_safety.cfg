CONSTANTS
    Radix = 8
    LittleEndian = TRUE
    Limit = 5
    ParamLists <- MCParamLists
    MaxBegin = 2
    MaxRecords = 2
    Answer <- MCAnswer
    Queries <- MCQueries
    MaxQueries = 2
SPECIFICATION Spec
INVARIANTS TypeOK ParamsExact ParamsWithin InputsExact AnswersExact HandlersIInv
CHECK_DEADLOCK FALSE
