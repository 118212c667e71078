CONSTANTS
    r1 = r1
    r2 = r2
    Ids <- MCIds
    Nameless = {2}
    Revisions = {r1, r2}
    AtFirst = {r1, Missing}
    RowsOf <- MCRowsOf
    Shipped <- MCShipped
    BatchSize = 2
    MaxAttempts = 2
    MaxRuns = 2
    MaxEdits = 1
    MaxMoves = 2
    Absent = Absent
    Torn = Torn
    Missing = Missing
    Blank = Blank
    Null = Null
SPECIFICATION FairSpec
PROPERTIES FetchedOnce RunEnds SettledStays Survives

CHECK_DEADLOCK FALSE
