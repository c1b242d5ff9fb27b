SPECIFICATION Spec
CONSTANTS
    FolderUris <- MCFolderUris
    FileUris <- MCFileUris
    NullUri <- MCNullUri
    NameOf <- MCNameOf
    Configs = {"c0"}
    DefaultConfig = "c0"
    Unset = "unset"
    MaxRequests = 9
    Ids = {i1, i2}
    NoId = none
    Methods <- EditsAndFolders
    InitialFolders <- MCFolders
    FolderChanges <- AddLib
    Capabilities = {TRUE, FALSE}
    ReuseIds = FALSE
    MaxMessages = 4
    MaxShutdowns = 1
INVARIANTS
    TypeOK
    AtMostOneReply
    OpenRequestsAreKept
PROPERTIES
    KeepsContract
    WorkFollowsTheMessages
CHECK_DEADLOCK FALSE
