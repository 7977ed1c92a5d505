CONSTANTS
    WorkersNum = 2
    ThreadsNum = 1
    Tasks = {t1}
    NoTask = NoTask
    Width = 4
    MaxNext = 4
    MaxStarts = 1
SPECIFICATION Spec
INVARIANTS
    CurrentExists
CHECK_DEADLOCK FALSE
