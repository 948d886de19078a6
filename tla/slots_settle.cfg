SPECIFICATION FairSpec
CONSTANTS
    o1 = o1
    o2 = o2
    i1 = i1
    i2 = i2
    NoCall = NoCall
    OutCalls = {o1, o2}
    InCalls = {i1}
    MaxAsks = 1
    MaxFailures = 0
PROPERTY
    CallsSettle
CHECK_DEADLOCK FALSE
