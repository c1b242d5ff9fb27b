SPECIFICATION MCSpec
CONSTANTS
    Characters <- MCCharacters
    InitialBuffers <- MCBuffers
    Insertions <- MCInsertions
    Encodings = {"utf-8", "utf-16", "utf-32"}
    MaxLength = 3
    NewTexts <- MCNewTexts
    Transformable <- MCTransformable
INVARIANTS
    CopyIsTheBuffer
    PositionsComeBack
    TransformedPlacesAreExact
    UrisFollowTheFiles
    LayoutsOnlyMoveLines
