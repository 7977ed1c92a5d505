CONSTANTS
    MaxGets = 1
    MaxCancels = 1
SPECIFICATION Spec
INVARIANTS
    ResultIsSetOnce
CHECK_DEADLOCK FALSE
