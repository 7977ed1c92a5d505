CONSTANTS
    Ops = {o1, o2, o3}
    MaxMid = 1
    Failures = {"MOSQ_ERR_NO_CONN"}
SPECIFICATION PublisherSpec
INVARIANTS
    TypeOK
    FlagFollowsLink
    ObserversSeeTheFlag
    PublishedIsCurrent
SYMMETRY Symmetry
