SPECIFICATION Spec
CONSTANTS
    Device = {d1, d2}
    Group = {g1}
    Nobody = Nobody
    NoIntent = NoIntent
    NoTx = NoTx
    MaxEdits = 3
    MaxOps = 4
    MaxFulls = 0
    MaxFaults = 1
SYMMETRY MCSymmetry
INVARIANTS
    NoProgressLost
CHECK_DEADLOCK FALSE
