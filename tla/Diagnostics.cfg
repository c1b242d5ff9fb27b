SPECIFICATION Spec
CONSTANTS
    Files <- MCFiles
    Requires <- MCRequires
    Ignored = {"lib"}
    Configs <- MCConfigs
    InitialDisks <- MCDisks
    Rewrites = FALSE
    OpensEarly = FALSE
    Creates = FALSE
    Discards = FALSE
    MaxEdits = 2
    MaxRequests = 2
    MaxEvents = 2
INVARIANTS
    OpenRequestIsKept
    PublishedDiagnosticsAreCurrent
    UnreportedFilesShowNothing
    WorkspaceDiagnosticsAreCurrent
CHECK_DEADLOCK FALSE
