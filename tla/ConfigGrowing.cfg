SPECIFICATION FairSpec
CONSTANTS
    FolderUris <- NestedRoots
    FileUris <- MCFileUris
    NullUri <- MCNullUri
    NameOf <- MCNameOf
    Configs <- MCConfigs
    DefaultConfig = "c0"
    Unset = "unset"
    MaxRequests = 3
    OpenedFolders <- OpenAny
    AddedFolders <- AddOne
    MayRemoveFolders = FALSE
    Capabilities = {TRUE}
    Replies = {"full", "short", "malformed", "error"}
INVARIANTS
    TypeOK
    ConfiguredFolderHasOwnConfiguration
    SettingsAreCurrent
PROPERTIES
    EveryFolderGetsConfigured
CHECK_DEADLOCK FALSE
