SPECIFICATION ToolSpec
CONSTANTS
    NModules = 2
    Blocks = 2
    OldModules <- MCOldModules
    Majors <- MCMajors
    Files <- MCFiles
    BlockSize = 8
    PageSize = 4
    Word = 2
    AutoDetect = TRUE
    MinWait = 1
    MaxWait = 2
INVARIANT ToolTypeOK
INVARIANT CleanAttemptSucceeds
INVARIANT NoNeedlessBurn
INVARIANT SuccessIsStored
INVARIANT OpfwIsFirst
PROPERTY RefusedIsKept
