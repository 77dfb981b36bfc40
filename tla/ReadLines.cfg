SPECIFICATION FairZSpec
CONSTANTS
    WindowSize = 3
    ChunkSize = 2
    Files <- AllFiles
    IndexEverys = {2, 100}
    SkipFirsts = {0}
    Indexers = {"a"}
    Sparses = {TRUE, FALSE}
    MaxLength = 100
INVARIANTS
    ReaderTypeOK DeliveredExactly CachedContextInSync FailsOnlyAtMemberEnds
    FoundIffKept NthLineOfFile KeyedLineIsDelivered
PROPERTY CallsReturn
CHECK_DEADLOCK FALSE
