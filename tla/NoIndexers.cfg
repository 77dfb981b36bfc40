SPECIFICATION FairSpec
CONSTANTS
    WindowSize = 3
    ChunkSize = 2
    Files <- WholeFiles
    IndexEverys = {0, 100}
    SkipFirsts = {0}
    Indexers = {}
    Sparses = {TRUE, FALSE}
INVARIANT LineIndexWithoutIndexers
CHECK_DEADLOCK FALSE
