SPECIFICATION FairSpec
CONSTANTS
    Base = 3
    Word = 8
    MaxMatches = 3
    Configs <- MCConfigs
    Texts <- MCTexts
    SkipFirsts = {0, 1}
INVARIANTS
    TypeOK RowsAreTheMatches QueriesFindTheirLines BuildFailsForCause
PROPERTIES IndexingEnds
CHECK_DEADLOCK FALSE
