SPECIFICATION FairSpec
CONSTANTS
    View = {v1, v2}
    Path = {p1}
    Content = {c1}
    Absent = Absent
    NoTree = NoTree
    Publishes = FALSE
    MaxOps = 1
    MaxWrites = 2
    MaxFaults = 1
PROPERTIES
    StuckOnlyIfBlocked
CHECK_DEADLOCK FALSE
