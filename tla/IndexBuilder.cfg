SPECIFICATION FairSpec
CONSTANTS
    WindowSize = 3
    ChunkSize = 2
    Files <- BuildFiles
    IndexEverys = {0, 2, 100}
    SkipFirsts = {0, 1}
    Indexers = {"a"}
    Sparses = {TRUE, FALSE}
INVARIANTS
    TypeOK PointsAreDecodable NoPointSpansMembers PointsTileText PointsAreSpaced
    RowsAreLines IndexedIffIntact
PROPERTIES IndexersSeeEveryLine BuildEnds
CHECK_DEADLOCK FALSE
