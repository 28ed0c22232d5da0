SPECIFICATION FairSpec
CONSTANTS
    a = a  b = b
    Peers = {a, b}
    QuotaA = 2  QuotaB = 1
    Quota <- MCQuota
    ValuesA = 0  ValuesB = 1
    Values <- MCValues
INVARIANTS
    StreamsFaithful
    EveryRequestHandled
PROPERTY LoneRequestAnswered
CHECK_DEADLOCK FALSE
