SPECIFICATION FairSpec
CONSTANTS
    g1 = g1
    g2 = g2
    Games = {g1, g2}
    NoGame = NoGame
    Unprovable = {g2}
    MaxWrites = 2
    MaxLaunches = 2
    MaxFaults = 1
    Observations = 2
    Retries = 1
INVARIANTS
    NothingForgotten
PROPERTIES
    PassesCareful
    SyncProceeds
CHECK_DEADLOCK FALSE
