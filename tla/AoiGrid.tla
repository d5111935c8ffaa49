------------------------------- MODULE AoiGrid -------------------------------
(***************************************************************************)
(* The data structure of src/game/aoi_world.cpp: a map from players to     *)
(* their position and cell, and one set of players per cell of a grid of   *)
(* Columns by Rows cells.  Its methods are operators on a world record     *)
(* [players, grids]; the ones that change it return the new world.         *)
(*                                                                         *)
(* Coordinates are integers in units finer than a cell, so a cell holds    *)
(* several positions.  Two facts about doubles are kept: NaN compares      *)
(* false with everything, and a quotient just below a whole number may be  *)
(* rounded up to it.                                                       *)
(***************************************************************************)
EXTENDS Integers

CONSTANTS
    Columns, Rows,          \* config_.columns, config_.rows
    CellWidth, CellHeight,  \* cell_width_, cell_height_, in coordinate units
    MinX, MinY,             \* config_.min_x, config_.min_y
    NaN,                    \* the coordinate that is not a number
    NaNCast,                \* what the build's cast of NaN to size_t yields
    RoundsUp                \* offsets from the minimum whose quotient by the
                            \* cell size is rounded up to the next number

\* The constructor throws for an empty world (line 10).  RoundsUp is about
\* offsets so close to a cell's end that no coordinate lies in between.
ASSUME GridAssumption ==
    /\ Columns \in Nat \ {0} /\ Rows \in Nat \ {0}
    /\ CellWidth \in Nat \ {0} /\ CellHeight \in Nat \ {0}
    /\ MinX \in Int /\ MinY \in Int
    /\ NaN \notin Int
    /\ NaNCast \in Nat
    /\ RoundsUp \subseteq Nat

Grids == 0 .. Columns * Rows - 1

\* std::nullopt in place of a cell's index.
NoGrid == -1

Outside(v, min, size) == v # NaN /\ (v < min \/ v >= min + size)

\* static_cast<std::size_t>((v - min) / cell)
CellOf(v, min, cell) ==
    IF v = NaN THEN NaNCast
    ELSE (v - min) \div cell + (IF v - min \in RoundsUp THEN 1 ELSE 0)

\* Mutant of GridIndexFor: the second bounds check, on the cell, is left out.
GridIndexUnchecked(p) ==
    IF \/ Outside(p.x, MinX, Columns * CellWidth)
       \/ Outside(p.y, MinY, Rows * CellHeight)
      THEN NoGrid
      ELSE CellOf(p.y, MinY, CellHeight) * Columns + CellOf(p.x, MinX, CellWidth)

GridIndexFor(p) ==
    LET column == CellOf(p.x, MinX, CellWidth)
        row    == CellOf(p.y, MinY, CellHeight)
    IN  IF \/ Outside(p.x, MinX, Columns * CellWidth)
           \/ Outside(p.y, MinY, Rows * CellHeight)
           \/ column >= Columns \/ row >= Rows
          THEN NoGrid
          ELSE row * Columns + column

\* Mutant of NeighborGridIndices: the rows are not clipped column-wise, so a
\* cell at the edge has neighbours at the other end of the next row.
NeighborGridWrapped(g) ==
    {n \in Grids : \E r, c \in {-1, 0, 1} : n = g + r * Columns + c}

NeighborGridIndices(g) ==
    LET row    == g \div Columns
        column == g % Columns
    IN  { r * Columns + c :
            r \in (row - 1 .. row + 1) \cap (0 .. Rows - 1),
            c \in (column - 1 .. column + 1) \cap (0 .. Columns - 1) }

-----------------------------------------------------------------------------
EmptyWorld == [players |-> <<>>, grids |-> [g \in Grids |-> {}]]

Contains(w, id) == id \in DOMAIN w.players

VisiblePlayersAt(w, p) ==
    IF GridIndexFor(p) = NoGrid
      THEN {}
      ELSE UNION {w.grids[n] : n \in NeighborGridIndices(GridIndexFor(p))}

\* The caller has checked that the world contains the player; without that
\* VisiblePlayers returns nullopt, and .value() throws in every caller.
VisiblePlayers(w, id) == VisiblePlayersAt(w, w.players[id].position) \ {id}

CanAdd(w, id, p) == ~Contains(w, id) /\ GridIndexFor(p) # NoGrid

AddPlayer(w, id, p) ==
    [players |-> [i \in DOMAIN w.players \cup {id} |->
                    IF i = id THEN [position |-> p, grid |-> GridIndexFor(p)]
                              ELSE w.players[i]],
     grids   |-> [w.grids EXCEPT ![GridIndexFor(p)] = @ \cup {id}]]

RemovePlayer(w, id) ==
    [players |-> [i \in DOMAIN w.players \ {id} |-> w.players[i]],
     grids   |-> [w.grids EXCEPT ![w.players[id].grid] = @ \ {id}]]

CanMove(w, id, p) == Contains(w, id) /\ GridIndexFor(p) # NoGrid

\* Mutant of MovePlayer: the player's stored cell is not brought up to date.
MovePlayerKeepsGrid(w, id, p) ==
    LET old == w.players[id].grid
        new == GridIndexFor(p)
    IN  [players |-> [w.players EXCEPT ![id].position = p],
         grids   |-> [g \in Grids |->
                        IF g = new THEN w.grids[g] \cup {id}
                        ELSE IF g = old THEN w.grids[g] \ {id}
                        ELSE w.grids[g]]]

MovePlayer(w, id, p) ==
    LET old == w.players[id].grid
        new == GridIndexFor(p)
    IN  [players |-> [w.players EXCEPT ![id] = [position |-> p, grid |-> new]],
         grids   |-> [g \in Grids |->
                        IF g = new THEN w.grids[g] \cup {id}
                        ELSE IF g = old THEN w.grids[g] \ {id}
                        ELSE w.grids[g]]]

\* The ViewDelta of a move from world v to world w.
ViewDelta(v, w, id) ==
    LET oldVisible == VisiblePlayers(v, id)
        newVisible == VisiblePlayers(w, id)
    IN  [entered |-> newVisible \ oldVisible,
         left    |-> oldVisible \ newVisible,
         stayed  |-> oldVisible \cap newVisible]
=============================================================================
