SPECIFICATION Spec
CONSTANTS
    Secure = TRUE
    Ops = {"Get"}
    Db <- MCDb
    Import <- MCImport
    Removed = 3
    Asked = 3
    ChunkSize = 1
    Configs = {1}
    Chunks = 2
    MaxSent = 2
    MaxBack = 1
    MaxReboots = 0
INVARIANT ExportComplete
