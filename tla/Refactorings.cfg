SPECIFICATION MCSpec
CONSTANTS
    Documents <- MCDocuments
    Classes <- MCClasses
    MaxTraits = 2
INVARIANTS
    RefactoringsAreSound
    ExtractedTraitsAreSound
    FixesAreSound
CHECK_DEADLOCK FALSE
