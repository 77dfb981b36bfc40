SPECIFICATION FairSpec
CONSTANTS
    Word = 16
    Lines = {0, 1, 2, 3, 5, 7}
    Befores = {0, 1, 3}
    Afters = {0, 1, 2}
    LineModes = {TRUE, FALSE}
    AnyOrders = {TRUE, FALSE}
    MaxQueries = 2
INVARIANTS TypeOK RangesPrinted
PROPERTIES MergedInOrder FetchReturns
CHECK_DEADLOCK FALSE
