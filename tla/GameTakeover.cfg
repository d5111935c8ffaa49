SPECIFICATION SystemSpec
CONSTANTS
    Columns = 4
    Rows = 1
    CellWidth = 1
    CellHeight = 1
    MinX = 0
    MinY = 0
    NaN = NaN
    NaNCast = 0
    RoundsUp = {}
    Connections = {1, 2, 3}
    MaxOpen = 3
    Accounts = {a, b}
    Shared = a
    NoAccount = NoAccount
    Start <- MCStart
    Positions <- MCPositions
    Workers = {w1}
    QueueCapacity = 1
    MaxLogins = 3
    MaxMoves = 0
    MaxFaults = 0
    Asks <- MCAsksLast
CHECK_DEADLOCK FALSE
INVARIANTS
    SystemTypeOK
    TablesAgree
    ClientsSeeTheWorld
    PendingIsServed
