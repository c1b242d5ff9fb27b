SPECIFICATION Spec
CONSTANTS
    Lower <- MCLower
    Paths <- MCPaths
    Requirable <- MCRequirable
    Aliases <- MCAliases
    Settable <- MCSettable
    Renamable <- MCRenamable
    Deletable <- MCDeletable
    InitialDisks <- MCDisks
    MaxChanges = 2
INVARIANTS
    ConfigurationsAreCurrent
    SuggestedRequiresResolve
    RequiresAreCurrent
PROPERTIES
    RenamedRequiresFollow
