CONSTANTS
    Subjects = {s1, s2, s3}
    MaxAdds = 5
SPECIFICATION Spec
INVARIANTS
    TypeOK
    EntriesAreCurrent
    ObserverAgrees
SYMMETRY Symmetry
CHECK_DEADLOCK FALSE
