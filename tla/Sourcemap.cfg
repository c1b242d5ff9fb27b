SPECIFICATION FairSpec
CONSTANTS
    Sourcemaps <- MCSourcemaps
    DataModels <- MCDataModels
    ServiceClasses = {"RS", "ServerStorage"}
    Modules <- MCModules
    Trees <- MCTrees
    Aliased <- MCAliased
    MaxNodes = 20
    MaxChanges = 4
INVARIANTS
    TypesFollowTheTree
    MapsFollowTheTree
    PluginInstancesAreKept
    WrittenPathsResolve
PROPERTIES
    EventsSettle
CHECK_DEADLOCK FALSE
