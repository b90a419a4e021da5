SPECIFICATION Spec
CONSTANTS
    Secure = FALSE
    MaxDelta = 2
    SeqMod = 8
    MaxSessions = 2
    MaxSends = 1
    MaxEmits = 2
    MaxCancels = 2
    MaxLine = 1
INVARIANT QuietLineIsFresh
INVARIANT CancelInv
PROPERTY CancelBeforeNextRecv
CHECK_DEADLOCK FALSE
