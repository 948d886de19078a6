SPECIFICATION Spec
CONSTANTS
    o1 = o1
    i1 = i1
    NoDialog = NoDialog
    OutCalls = {o1}
    InCalls = {}
    IceCalls = {}
    Refreshers = {"none", "uac"}
    SessionTimers = TRUE
    EarlyHangUp = FALSE
    RefusesInDialog = TRUE
    OneAtATime = FALSE
    Reorder = TRUE
    MaxCSeq = 3
    MaxPeerReqs = 0
    MaxDups = 1
    MaxDeaths = 1
INVARIANTS
    NoLimbo
    OneConnect
    AnswersAcked
    HoldIsKnown
    RefresherFollowsRoles
PROPERTIES
    PromiseKept
CHECK_DEADLOCK FALSE
