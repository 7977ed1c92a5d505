CONSTANTS
    Ops = {o1, o2}
    NoOp = NoOp
    MaxMid = 2
    Failures = {"MOSQ_ERR_NO_CONN"}
    NDEBUG = TRUE
SPECIFICATION FairAsyncSpec
PROPERTIES
    AcknowledgedCompletes
CHECK_DEADLOCK FALSE
