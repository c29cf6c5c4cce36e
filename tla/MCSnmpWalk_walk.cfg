CONSTANTS
    ColumnEnd = 3
    MibEnd = 4
    RepsMax = 4
    MaxRows <- MCMaxRows
SPECIFICATION FairSpec
INVARIANTS
    RowsAreHonest
    StableRowsReturned
PROPERTY WalkEnds
