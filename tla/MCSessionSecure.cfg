SPECIFICATION Spec
CONSTANTS
    Secure = TRUE
    MaxDelta = 2
    SeqMod = 8
    MaxSessions = 2
    MaxSends = 1
    MaxEmits = 3
    MaxCancels = 0
    MaxLine = 2
INVARIANT TypeOK
PROPERTY AcceptedInOrder
PROPERTY AcceptedInSession
CHECK_DEADLOCK FALSE
