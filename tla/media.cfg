SPECIFICATION Spec
CONSTANTS
    Scenarios <- MCScenarios
    MaxStarts = 3
    MaxAttempts = 1
    SeqNumbers = 4
    MaxLosses = 1
INVARIANTS
    TypeOK
    OfferAnswerAgree
    Intelligible
    SecurePaired
    RestartsBind
    KeysAgree
    SecureIsShared
    OneFrameAtATime
PROPERTIES
    MismatchSilences
    SecureUnlessLost
CHECK_DEADLOCK FALSE
