SPECIFICATION Spec
CONSTANTS
    Files <- MCFiles
    FilesIn <- MCFilesIn
    Directory = "directory"
    External = {}
    Requires <- MCRequires
    Openable = {"main"}
    UserSettings <- PluginSettings
    Scripts <- MCScripts
    Texts = {"old", "new"}
    Loads = {"old"}
    InitialDisks <- MCDisks
    MaxPending = 2
    MaxEdits = 3
    VersionsRestart = FALSE
    TogglesPlugins = FALSE
    EditorClosesFirst = TRUE
INVARIANTS
    TypeOK
    TextsReadAreCurrent
    LoadedPluginIsCurrent
    DeletedModuleIsGone
CHECK_DEADLOCK FALSE
