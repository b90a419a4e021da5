SPECIFICATION Spec
CONSTANTS
    NModules = 1
    Blocks = 2
    OldModules <- MCOldModules
PROPERTY AttemptEnds
