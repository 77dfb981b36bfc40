SPECIFICATION FairSpec
CONSTANTS
    Word = 16
    Lines = {1, 2, 5}
    Befores = {0}
    Afters = {1}
    LineModes = {FALSE}
    AnyOrders = {FALSE}
    MaxQueries = 2
PROPERTY OverlapsRemoved
CHECK_DEADLOCK FALSE
