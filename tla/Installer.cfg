CONSTANTS
    Prefix <- MCPrefix
    MaxLinks = 4
    RuntimeOwner = "brew"
    MimeFixed = {"cache"}
    MimeTypes = {"text"}
    LoaderNames = {"png", "svg"}
    CacheBlocks <- MCBlocks
    InstallOrders <- MCOrders
    BasePrefix <- MCBasePrefix
    BaseLoader <- MCBaseLoader
    Pour <- MCPour
    MaxEdits = 2
    Records <- MCRecords
    Content <- MCContent
    Assembles <- MCAssembles
    MaxSource = 3
    MaxPreparation = 4
    MaxDelta = 4
    MaxMaterialization = 7
    Framing = 1
    MaxFaults = 2
INIT MCInit
NEXT MCNext
CHECK_DEADLOCK FALSE
INVARIANTS
    PrefixSound
    GeneratedSound
    LookupSound
    LoaderCacheRead
    ReceiptSafe
    BuildDelivers
PROPERTY
    InstallKeeps
