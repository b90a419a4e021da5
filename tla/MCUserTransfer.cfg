SPECIFICATION Spec
CONSTANTS
    Secure = TRUE
    Ops = {"Get", "Set", "Ids", "Config", "Image", "RemoveUser", "RemoveAll", "Pair", "Unpair"}
    Db <- MCDb
    Import <- MCImport
    Removed = 3
    Asked = 3
    ChunkSize = 1
    Configs = {0, 1}
    Chunks = 2
    MaxSent = 2
    MaxBack = 1
    MaxReboots = 1
INVARIANT TypeOK
INVARIANT ExportedInPlace
INVARIANT IdsInOrder
INVARIANT AllImported
INVARIANT ImageComplete
INVARIANT SettingsTaken
