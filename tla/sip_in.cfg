SPECIFICATION FairSpec
CONSTANTS
    o1 = o1
    i1 = i1
    NoDialog = NoDialog
    OutCalls = {}
    InCalls = {i1}
    IceCalls = {}
    Refreshers = {"none", "uac"}
    SessionTimers = TRUE
    EarlyHangUp = FALSE
    RefusesInDialog = FALSE
    OneAtATime = FALSE
    Reorder = FALSE
    MaxCSeq = 2
    MaxPeerReqs = 1
    MaxDups = 0
    MaxDeaths = 0
INVARIANTS
    TypeOK
    NoOrphan
PROPERTIES
    DialResolves
    HangUpResolves
    AnswersOnlyAccepted
CHECK_DEADLOCK FALSE
