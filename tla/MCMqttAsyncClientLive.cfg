CONSTANTS
    Ops = {o1, o2, o3}
    NoOp = NoOp
    MaxMid = 1
    Failures = {}
    NDEBUG = FALSE
SPECIFICATION FairAsyncSpec
INVARIANTS
    HandlersAreOwned
PROPERTIES
    AnswerCompletes
CHECK_DEADLOCK FALSE
