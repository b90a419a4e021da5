SPECIFICATION Spec
CONSTANTS
    NModules = 2
    Outdated = {1}
    NBlocks = 1
    ReadBufferSize = 14
    Mute = {"block"}
INVARIANT LineTypeOK
INVARIANT AnswerIsOwn
PROPERTY CallsEnd
