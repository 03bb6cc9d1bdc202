CONSTANTS
    v1 = v1
    v2 = v2
    d1 = d1
    d2 = d2
    Devices = {v1}
    Domains = {d1}
    None = None
    MaxEdits = 2
    MaxFaults = 0
SPECIFICATION Spec
PROPERTY ConflictMeansBoth
CHECK_DEADLOCK FALSE
