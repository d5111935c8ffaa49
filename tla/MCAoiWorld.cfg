SPECIFICATION WorldSpec
CONSTANTS
    Columns = 3
    Rows = 2
    CellWidth = 2
    CellHeight = 2
    MinX = 0
    MinY = 0
    NaN = NaN
    NaNCast = 0
    RoundsUp = {3, 5}
    PlayerIds = {p1, p2, p3}
    Coordinates <- MCCoordinates
INVARIANTS
    WorldTypeOK
    GridsMatchPlayers
    VisibleIsNineCells
    EveryoneToldTheTruth
SYMMETRY MCSymmetry
