SPECIFICATION Spec
CONSTANTS
    View = {v1, v2}
    Path = {p1}
    Content = {c1, c2}
    Absent = Absent
    NoTree = NoTree
    Publishes = TRUE
    MaxOps = 2
    MaxWrites = 1
    MaxFaults = 1
SYMMETRY MCSymmetry
INVARIANTS
    TypeOK
    OutcomeHonest
    SaveNeverLost
PROPERTIES
    ThirdVersionKept
CHECK_DEADLOCK FALSE
