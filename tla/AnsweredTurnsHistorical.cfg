SPECIFICATION Spec
CONSTANTS
    grace5 = grace5
    grace7 = grace7
    overlap7 = overlap7
    faq5 = faq5
    phrase = phrase
    NoId = NoId
    NoTool = NoTool
    Chunks <- MCChunks
    Docs <- MCDocs
    Source <- MCSource
    Id <- MCId
    Family <- MCFamily
    Status <- MCStatus
    Date <- MCDate
    Version <- MCVersion
    Says <- MCSays
    Macros = "support_macros"
    Backend = "local"
    Requests <- MCRequests
    TopK = 2
    ManyK = 3
    KeepCap = 3
    SupportCap = 2
    MaxIterations = 3
INVARIANTS
    HistoricalKeepsOld
CHECK_DEADLOCK FALSE
