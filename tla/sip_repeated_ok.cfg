SPECIFICATION Spec
CONSTANTS
    o1 = o1
    i1 = i1
    NoDialog = NoDialog
    OutCalls = {o1}
    InCalls = {}
    IceCalls = {}
    Refreshers = {"none"}
    SessionTimers = TRUE
    EarlyHangUp = FALSE
    RefusesInDialog = FALSE
    OneAtATime = TRUE
    Reorder = FALSE
    MaxCSeq = 3
    MaxPeerReqs = 0
    MaxDups = 1
    MaxDeaths = 0
INVARIANT
    HoldAgrees
CHECK_DEADLOCK FALSE
