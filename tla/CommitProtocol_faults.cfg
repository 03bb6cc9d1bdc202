SPECIFICATION Spec
CONSTANTS
    Device = {d1, d2}
    Group = {g1}
    Nobody = Nobody
    NoIntent = NoIntent
    NoTx = NoTx
    MaxEdits = 3
    MaxOps = 3
    MaxFulls = 1
    MaxFaults = 1
SYMMETRY MCSymmetry
INVARIANTS
    PublishedOnce
PROPERTIES
    FullSyncRepairs
CHECK_DEADLOCK FALSE
