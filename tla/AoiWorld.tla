------------------------------ MODULE AoiWorld ------------------------------
(***************************************************************************)
(* The area-of-interest world as the game service uses it: players enter,  *)
(* move and leave, and after each step the players around are told what    *)
(* the world returned.  told[p] is what player p has been told, by the     *)
(* rules of GameService (FinishLogin, HandleMove, OnDisconnected).         *)
(***************************************************************************)
EXTENDS AoiGrid

CONSTANTS
    PlayerIds,   \* the players
    Coordinates  \* the coordinates clients send, in both axes; NaN among them

\* A double is a number, here in units of the coordinate, or it is not one.
ASSUME CoordinatesAssumption == Coordinates \subseteq Int \cup {NaN}

VARIABLES
    world,  \* players_ and grids_
    told    \* history: the players each player believes to be around

worldVars == <<world, told>>

Positions == [x : Coordinates, y : Coordinates]

PlayersIn == DOMAIN world.players

\* Every player of AoiWorld has a cell that is a valid index of grids_, whatever
\* GridIndex was given.
WorldTypeOK ==
    /\ PlayersIn \subseteq PlayerIds
    /\ world.players \in [PlayersIn -> [position : Positions, grid : Grids]]
    /\ world.grids \in [Grids -> SUBSET PlayerIds]
    /\ told \in [PlayerIds -> SUBSET PlayerIds]

WorldInit ==
    /\ world = EmptyWorld
    /\ told = [p \in PlayerIds |-> {}]

-----------------------------------------------------------------------------
Enter(id, p) ==
    /\ CanAdd(world, id, p)
    /\ world' = AddPlayer(world, id, p)
    /\ LET visible == VisiblePlayers(world', id)
       IN  told' = [q \in PlayerIds |->
                      IF q = id THEN visible
                      ELSE IF q \in visible THEN told[q] \cup {id}
                      ELSE told[q]]

\* Mutant of Move: only the mover is told of those that left its view.
MoveTellsMover(id, p) ==
    /\ CanMove(world, id, p)
    /\ world' = MovePlayer(world, id, p)
    /\ LET delta == ViewDelta(world, world', id)
       IN  told' = [q \in PlayerIds |->
                      IF q = id THEN (told[id] \cup delta.entered) \ delta.left
                      ELSE IF q \in delta.entered THEN told[q] \cup {id}
                      ELSE told[q]]

Move(id, p) ==
    /\ CanMove(world, id, p)
    /\ world' = MovePlayer(world, id, p)
    /\ LET delta == ViewDelta(world, world', id)
       IN  told' = [q \in PlayerIds |->
                      IF q = id THEN (told[id] \cup delta.entered) \ delta.left
                      ELSE IF q \in delta.entered THEN told[q] \cup {id}
                      ELSE IF q \in delta.left THEN told[q] \ {id}
                      ELSE told[q]]

Leave(id) ==
    /\ Contains(world, id)
    /\ world' = RemovePlayer(world, id)
    /\ LET visible == VisiblePlayers(world, id)
       IN  told' = [q \in PlayerIds |->
                      IF q = id THEN {}
                      ELSE IF q \in visible THEN told[q] \ {id}
                      ELSE told[q]]

WorldNext ==
    \E id \in PlayerIds :
        \/ Leave(id)
        \/ \E p \in Positions : Enter(id, p) \/ Move(id, p)

WorldSpec == WorldInit /\ [][WorldNext]_worldVars

-----------------------------------------------------------------------------
(* Properties.                                                             *)

\* The two indices agree: a cell holds exactly the players whose stored cell
\* it is, and that is the cell of their position.  VisiblePlayersAt reads
\* the cells, MovePlayer and RemovePlayer the stored index (lines 43, 58-66).
GridsMatchPlayers ==
    /\ \A g \in Grids :
         world.grids[g] = {id \in PlayersIn : world.players[id].grid = g}
    /\ \A id \in PlayersIn :
         world.players[id].grid = GridIndexFor(world.players[id].position)

\* The reference: two players see each other when neither their columns nor
\* their rows are more than one apart.
Near(a, b) == a - b \in {-1, 0, 1}

\* "the player's current cell plus its eight neighboring cells ... returned
\* sets never include the queried player" (aoi_world.h:39-40): the row-major
\* indices of NeighborGridIndices are the nine cells of the plane, also at
\* the edges of the grid, for positions that were rounded and for NaN.
VisibleIsNineCells ==
    \A id \in PlayersIn :
        VisiblePlayers(world, id) =
            { q \in PlayersIn \ {id} :
                LET g == world.players[id].grid
                    h == world.players[q].grid
                IN  /\ Near(g \div Columns, h \div Columns)
                    /\ Near(g % Columns, h % Columns) }

\* Telling only those in the delta is enough: after any number of moves,
\* entries and departures everyone has been told of exactly the players it
\* can see, although a move informs the others only through the mover's own
\* before-and-after view.  This is where visibility has to be symmetric.
EveryoneToldTheTruth ==
    \A id \in PlayersIn : told[id] = VisiblePlayers(world, id)
=============================================================================
