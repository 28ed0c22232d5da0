SPECIFICATION FairSpec
CONSTANTS
    lo = lo  hi = hi  None = None
    MaxAttempts = 3  MaxTimers = 2  MaxDrops = 1  MaxAsks = 1
INVARIANTS
    OneTunnelUnlessRaced
PROPERTIES
    EstablishedStays
    Converges
CHECK_DEADLOCK FALSE
