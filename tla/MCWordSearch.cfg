SPECIFICATION FairSpec
CONSTANTS
    Words = {1, 2, 3}
    MaxRows = 5
    Queries = 2
INVARIANTS RowsKept FoundIffThere CountIsRight
PROPERTY SearchEnds
CHECK_DEADLOCK FALSE
