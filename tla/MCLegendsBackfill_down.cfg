SPECIFICATION Spec
CONSTANTS
    Moves = {m1, m2}
    Levels = {0}
    Masteries = {a}
    Null = Null
    NoRow = NoRow
    NoEntry = NoEntry
    NoFile = NoFile
    Torn = Torn
    OtherMethod = "tutor"
    MaxRuns = 2
    MaxEdits = 1
INVARIANT DownUndoesUp
CHECK_DEADLOCK FALSE
