CONSTANTS
    MaxGets = 2
    MaxCancels = 2
SPECIFICATION FairSpec
INVARIANTS
    AnsweredByOwnChain
    OwnRequestIsSent
    CancelStopsTheChain
    CancelOutlivesItsGet
PROPERTIES
    GetIsAnswered
CHECK_DEADLOCK FALSE
