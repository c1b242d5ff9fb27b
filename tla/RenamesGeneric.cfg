SPECIFICATION MCSpec
CONSTANTS
    Workspaces <- MCGenericWorkspaces
    NewNames = {x, y}
SYMMETRY MCSymmetry
INVARIANTS
    RenamesKeepMeaning
CHECK_DEADLOCK FALSE
