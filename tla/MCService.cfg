CONSTANTS
    SubsystemsNum = 2
    Threads <- MCThreads
    Main = 0
    Signals = {"TERM", "HUP", "INT"}
    Set = {"TERM", "HUP"}
    Accepts = {"TERM"}
    NoSignal = "none"
    Term = "TERM"
    MaxRaises = 2
    Files <- MCFiles
    JarEnv = "test"
    Keys = {"port", "roles"}
    Contents <- MCContents
    Disks <- MCDisks
    Width = 4
    MaxEdits = 1
    Unset = Unset
    Absent = Absent
    Malformed = Malformed
SPECIFICATION FairSpec
INVARIANTS
    PhasesAreComplete
    HandlerProtects
    OneSignalIsGraceful
    InstanceIsThere
    
    LastFileWins
    NumbersAreKept
PROPERTIES
    TermEndsTheService
CHECK_DEADLOCK FALSE
