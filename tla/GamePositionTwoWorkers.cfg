SPECIFICATION SystemSpec
CONSTANTS
    Columns = 4
    Rows = 1
    CellWidth = 1
    CellHeight = 1
    MinX = 0
    MinY = 0
    NaN = NaN
    NaNCast = 0
    RoundsUp = {}
    Connections = {1, 2}
    MaxOpen = 2
    Accounts = {a}
    Shared = a
    NoAccount = NoAccount
    Start <- MCStart
    Positions <- MCPositions
    Workers = {w1, w2}
    QueueCapacity = 3
    MaxLogins = 2
    MaxMoves = 1
    MaxFaults = 0
    Asks <- MCAsksAny
CHECK_DEADLOCK FALSE
INVARIANTS
    LastPositionSaved
