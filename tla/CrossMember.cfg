SPECIFICATION FairZSpec
CONSTANTS
    WindowSize = 3
    ChunkSize = 3
    Files <- TwoMemberFiles
    IndexEverys = {100}
    SkipFirsts = {0}
    Indexers = {"a"}
    Sparses = {FALSE}
    MaxLength = 100
INVARIANT FoundIsDelivered
CHECK_DEADLOCK FALSE
