SPECIFICATION FairSpec
CONSTANTS
    o1 = o1
    i1 = i1
    NoDialog = NoDialog
    OutCalls = {o1}
    InCalls = {}
    IceCalls = {}
    Refreshers = {"none", "uac"}
    SessionTimers = TRUE
    EarlyHangUp = FALSE
    RefusesInDialog = FALSE
    OneAtATime = TRUE
    Reorder = TRUE
    MaxCSeq = 4
    MaxPeerReqs = 0
    MaxDups = 0
    MaxDeaths = 0
INVARIANTS
    HoldAgrees
    NoOrphan
PROPERTIES
    DialResolves
CHECK_DEADLOCK FALSE
