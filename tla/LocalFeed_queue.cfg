SPECIFICATION FairSpec
CONSTANTS
    r1 = r1  r2 = r2
    Rooms = {r1, r2}
    Contents = {m1, m2, m3}
    OldR1 = 2  OldR2 = 0
    Old <- MCOld
    Limit = 1
    MaxSyncs = 1
INVARIANTS
    NothingLost
    PublishedOnce
PROPERTY QueueDrains
CHECK_DEADLOCK FALSE
