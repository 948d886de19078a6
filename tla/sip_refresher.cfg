SPECIFICATION Spec
CONSTANTS
    o1 = o1
    i1 = i1
    NoDialog = NoDialog
    OutCalls = {}
    InCalls = {i1}
    IceCalls = {}
    Refreshers = {"uas"}
    SessionTimers = TRUE
    EarlyHangUp = FALSE
    RefusesInDialog = FALSE
    OneAtATime = TRUE
    Reorder = FALSE
    MaxCSeq = 4
    MaxPeerReqs = 0
    MaxDups = 0
    MaxDeaths = 0
INVARIANT
    RefresherFollowsRoles
CHECK_DEADLOCK FALSE
