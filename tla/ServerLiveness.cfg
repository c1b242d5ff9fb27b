SPECIFICATION FairSpec
CONSTANTS
    FolderUris <- MCFolderUris
    FileUris <- MCFileUris
    NullUri <- MCNullUri
    NameOf <- MCNameOf
    Configs = {"c0"}
    DefaultConfig = "c0"
    Unset = "unset"
    MaxRequests = 9
    Ids = {i1, i2}
    NoId = none
    Methods <- AllMethods
    InitialFolders <- MCFolders
    FolderChanges <- AddLib
    Capabilities = {TRUE}
    ReuseIds = FALSE
    MaxMessages = 3
    MaxShutdowns = 2
PROPERTIES
    RequestsAreAnswered
    ShutdownIsAnswered
CHECK_DEADLOCK FALSE
