CONSTANTS
    Ops = {o1, o2, o3}
    NoOp = NoOp
    MaxMid = 2
    Failures = {"MOSQ_ERR_NO_CONN"}
    NDEBUG = TRUE
SPECIFICATION AsyncSpec
INVARIANTS
    AsyncTypeOK
    HandlersAreOwned
    EventFollowsItsCall
    SuccessMeansAcknowledged
    CollisionOnlyOnConnection
PROPERTIES
    ImplementsAsyncOperation
SYMMETRY Symmetry
CHECK_DEADLOCK FALSE
