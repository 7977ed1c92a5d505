CONSTANTS
    WorkersNum = 3
    ThreadsNum = 2
    Tasks = {t1}
    NoTask = NoTask
    Width = 2
    MaxNext = 5
    MaxStarts = 2
SPECIFICATION FairSpec
INVARIANTS
    StopIsABarrier
    StartedIsWhole
    TakenInTurn
PROPERTIES
    TaskGetsDone
    StopReturns
CHECK_DEADLOCK FALSE
