SPECIFICATION FairSpec
CONSTANTS
    Hosts = {h1}
    Peers = {p1}
    None = None
    MaxEvents = 2
    MaxLag = 2
INVARIANTS
    ShownIsCurrent
PROPERTIES
    LoadingEnds
    FailuresShown
CHECK_DEADLOCK FALSE
