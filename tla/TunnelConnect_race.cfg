SPECIFICATION Spec
CONSTANTS
    lo = lo  hi = hi  None = None
    MaxAttempts = 2  MaxTimers = 1  MaxDrops = 0  MaxAsks = 0
INVARIANT OneTunnelRegardless
CHECK_DEADLOCK FALSE
