SPECIFICATION FairSpec
CONSTANTS
    WindowSize = 3
    ChunkSize = 2
    Files <- EmptyMiddleFiles
    IndexEverys = {0, 100}
    SkipFirsts = {0}
    Indexers = {}
    Sparses = {TRUE, FALSE}
INVARIANT IntactFileIsIndexed
CHECK_DEADLOCK FALSE
