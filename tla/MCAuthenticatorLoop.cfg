SPECIFICATION Spec
CONSTANTS
    Secure = FALSE
    Ops = {"Authenticate"}
    Loops = {"Authenticate"}
    MaxDown = 2
    MaxLine = 1
PROPERTY OperationEnds
PROPERTY LoopStops
