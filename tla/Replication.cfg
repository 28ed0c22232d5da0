SPECIFICATION FairSpec
CONSTANTS
    alice = alice  bob = bob
    LastA = 2  LastB = 0
    LastSeq <- MCLast
    ThreadsA = 2  ThreadsB = 1
    Threads <- MCThreads
    MaxFaults = 1  MaxLoad = 2
INVARIANTS
    PollingContinues
    NoClockStorm
    NoGapInFlight
PROPERTY OwnFeedsArrive
