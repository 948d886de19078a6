SPECIFICATION Spec
CONSTANTS
    o1 = o1
    i1 = i1
    NoDialog = NoDialog
    OutCalls = {o1}
    InCalls = {}
    IceCalls = {}
    Refreshers = {"none", "uac"}
    SessionTimers = TRUE
    EarlyHangUp = FALSE
    RefusesInDialog = TRUE
    OneAtATime = TRUE
    Reorder = FALSE
    MaxCSeq = 4
    MaxPeerReqs = 0
    MaxDups = 0
    MaxDeaths = 0
INVARIANT
    NoOrphan
CHECK_DEADLOCK FALSE
