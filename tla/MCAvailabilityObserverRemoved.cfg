CONSTANTS
    Subjects = {s1, s2}
    MaxAdds = 2
SPECIFICATION Spec
INVARIANTS
    RemovedIsIgnored
CHECK_DEADLOCK FALSE
