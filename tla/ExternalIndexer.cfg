SPECIFICATION FairSpec
CONSTANTS
    PipeCapacity = 2
    BlockSize = 2
    Texts <- MCTexts
    Commands = {"copies", "answers", "repeats"}
INVARIANTS
    TypeOK
    KeysOfOwnLine
    LineInFlight
    JamsOnlyIfTooLong
    NoChildLeft
PROPERTY IndexerEnds
CHECK_DEADLOCK FALSE
