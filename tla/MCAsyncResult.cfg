CONSTANTS
    Setters = {s1, s2, s3}
    Readers = {r1, r2}
    NoResult = NoResult
SPECIFICATION FairSpec
INVARIANTS
    TypeOK
    OneWinner
    EveryoneAgrees
    CalledBackOnce
PROPERTIES
    ReadersWake
CHECK_DEADLOCK FALSE
