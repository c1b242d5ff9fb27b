SPECIFICATION MCSpec
CONSTANTS
    Workspaces <- MCWorkspaces
    NewNames = {x, y}
SYMMETRY MCSymmetry
INVARIANTS
    RenamesKeepMeaning
    ImportsAreSound
    NamesAreFound
CHECK_DEADLOCK FALSE
