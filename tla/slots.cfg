SPECIFICATION Spec
CONSTANTS
    o1 = o1
    o2 = o2
    i1 = i1
    i2 = i2
    NoCall = NoCall
    OutCalls = {o1, o2}
    InCalls = {i1}
    MaxAsks = 2
    MaxFailures = 1
INVARIANTS
    TypeOK
    NoCallLost
    NoDeadCall
    AudioFollowsFocus
    OthersOnHold
    HeldIsShown
    RecordedOnce
PROPERTIES
    ShownPromise
CHECK_DEADLOCK FALSE
