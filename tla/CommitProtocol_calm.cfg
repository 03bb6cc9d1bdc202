SPECIFICATION FairSpec
CONSTANTS
    Device = {d1, d2}
    Group = {g1, g2}
    Nobody = Nobody
    NoIntent = NoIntent
    NoTx = NoTx
    MaxEdits = 3
    MaxOps = 4
    MaxFulls = 0
    MaxFaults = 0
INVARIANTS
    TypeOK
    NoProgressLost
    IndexHonest
PROPERTIES
    PublishedNeverRegresses
    SavesShared
    Converges
CHECK_DEADLOCK FALSE
