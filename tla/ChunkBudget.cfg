CONSTANTS
    MaxBlocks = 3
    MaxOnPage = 2
    MaxUploadSize = 1
    Files <- MCFiles
    Configs <- MCConfigs
SPECIFICATION IndexSpec
CHECK_DEADLOCK FALSE
INVARIANT ChunksFitBudget
