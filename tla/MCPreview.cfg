SPECIFICATION Spec
CONSTANTS
    Handles <- MCHandles
    MaxStarts = 3
INVARIANT PreviewTypeOK
INVARIANT UsedCallbackIsAlive
INVARIANT PausedImageNotShown
PROPERTY StopReturns
