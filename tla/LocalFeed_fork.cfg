SPECIFICATION Spec
CONSTANTS
    r1 = r1  r2 = r2
    Rooms = {r1}
    Contents = {m1}
    OldR1 = 1  OldR2 = 0
    Old <- MCOld
    Limit = 1
    MaxSyncs = 1
INVARIANT NoFork
CHECK_DEADLOCK FALSE
