SPECIFICATION Spec
CONSTANTS
    FolderUris <- NestedRoots
    FileUris <- MCFileUris
    NullUri <- MCNullUri
    NameOf <- MCNameOf
    Configs <- MCConfigs
    DefaultConfig = "c0"
    Unset = "unset"
    MaxRequests = 3
    OpenedFolders <- OpenBoth
    AddedFolders <- AddSome
    MayRemoveFolders = TRUE
    Capabilities = {TRUE}
    Replies = {"full"}
INVARIANTS
    OpenFoldersAreServed
CHECK_DEADLOCK FALSE
