---------------------------- MODULE AoiGridProofs ---------------------------
(***************************************************************************)
(* The operators of the area-of-interest world, for every grid: GridIndex  *)
(* gives a cell or nothing, the neighbours of a cell are those of the      *)
(* plane, adding, moving and removing a player keep the two indices in     *)
(* agreement, and seeing is mutual.                                        *)
(***************************************************************************)
EXTENDS AoiGrid, TLAPS

-----------------------------------------------------------------------------
(* The row-major index and the plane.                                      *)

\* A multiple of the column count that is larger by a row is larger by at
\* least a whole row of cells.
LEMMA RowsApart ==
    ASSUME NEW a \in Int, NEW b \in Int, a < b
    PROVE  a * Columns + Columns <= b * Columns
<1>1. PICK k \in Nat : b = a + 1 + k
    <2>1. b - a - 1 \in Nat /\ b = a + 1 + (b - a - 1)
        OBVIOUS
    <2> QED  BY <2>1
<1>2. b * Columns = a * Columns + Columns + k * Columns
    BY <1>1, GridAssumption
<1>3. k * Columns >= 0
    BY <1>1, GridAssumption
<1>4. a * Columns \in Int /\ b * Columns \in Int /\ k * Columns \in Int /\ Columns \in Int
    BY <1>1, GridAssumption
<1> QED  BY <1>2, <1>3, <1>4

\* What the code computes with / and % is the only row and column an index
\* can stand for.
LEMMA IndexSplits ==
    ASSUME NEW n \in Int
    PROVE  /\ n \div Columns \in Int
           /\ n % Columns \in 0 .. Columns - 1
           /\ n = (n \div Columns) * Columns + (n % Columns)
BY GridAssumption

\* Row and column of an index that was put together from them.
LEMMA IndexOf ==
    ASSUME NEW r \in Int, NEW c \in 0 .. Columns - 1
    PROVE  /\ r * Columns + c \in Int
           /\ (r * Columns + c) \div Columns = r
           /\ (r * Columns + c) % Columns = c
<1> DEFINE n == r * Columns + c
           q == n \div Columns
           d == n % Columns
<1>1. n \in Int /\ r * Columns \in Int /\ Columns \in Int
    BY GridAssumption
<1>2. q \in Int /\ d \in 0 .. Columns - 1 /\ n = q * Columns + d
    BY <1>1, IndexSplits
<1>3. q * Columns \in Int
    BY <1>1, <1>2
<1> HIDE DEF q, d
<1>4. ~(q < r)
    <2>1. SUFFICES ASSUME q < r PROVE FALSE
        OBVIOUS
    <2>2. q * Columns + Columns <= r * Columns
        BY <2>1, <1>2, RowsApart
    <2> QED  BY <2>2, <1>1, <1>2, <1>3
<1>5. ~(r < q)
    <2>1. SUFFICES ASSUME r < q PROVE FALSE
        OBVIOUS
    <2>2. r * Columns + Columns <= q * Columns
        BY <2>1, <1>2, RowsApart
    <2> QED  BY <2>2, <1>1, <1>2, <1>3
<1>6. q = r
    BY <1>2, <1>4, <1>5
<1>7. d = c
    BY <1>1, <1>2, <1>6
<1> QED  BY <1>1, <1>6, <1>7 DEF q, d

\* A row and a column of the grid give one of its cells.
LEMMA CellInGrids ==
    ASSUME NEW r \in 0 .. Rows - 1, NEW c \in 0 .. Columns - 1
    PROVE  r * Columns + c \in Grids
<1>1. r * Columns + Columns <= Rows * Columns
    BY RowsApart, GridAssumption
<1>2. r * Columns \in Nat /\ Rows * Columns \in Int /\ Columns * Rows = Rows * Columns
    BY GridAssumption
<1> QED  BY <1>1, <1>2, GridAssumption DEF Grids

\* And a cell has a row and a column of the grid.
LEMMA CellFromGrids ==
    ASSUME NEW g \in Grids
    PROVE  /\ g \in Int
           /\ g \div Columns \in 0 .. Rows - 1
           /\ g % Columns \in 0 .. Columns - 1
           /\ g = (g \div Columns) * Columns + (g % Columns)
<1> DEFINE q == g \div Columns
           d == g % Columns
<1>1. g \in Int /\ 0 <= g /\ g < Rows * Columns /\ Rows * Columns \in Int
    BY GridAssumption DEF Grids
<1>2. q \in Int /\ d \in 0 .. Columns - 1 /\ g = q * Columns + d
    BY <1>1, IndexSplits
<1>3. q * Columns \in Int /\ Columns \in Int /\ Rows \in Int
    BY <1>2, GridAssumption
<1> HIDE DEF q, d
<1>4. ~(q < 0)
    <2>1. SUFFICES ASSUME q < 0 PROVE FALSE
        OBVIOUS
    <2>2. q * Columns + Columns <= 0 * Columns
        BY <2>1, <1>2, RowsApart
    <2> QED  BY <2>2, <1>1, <1>2, <1>3
<1>5. ~(Rows <= q)
    <2>1. SUFFICES ASSUME Rows <= q PROVE FALSE
        OBVIOUS
    <2>2. Rows * Columns <= q * Columns
        <3>1. CASE Rows = q
            BY <3>1, <1>3
        <3>2. CASE Rows < q
            BY <3>2, <1>2, <1>3, RowsApart, GridAssumption
        <3> QED  BY <2>1, <3>1, <3>2, <1>2, <1>3
    <2> QED  BY <2>2, <1>1, <1>2, <1>3
<1>6. q \in 0 .. Rows - 1
    BY <1>2, <1>3, <1>4, <1>5
<1> QED  BY <1>1, <1>2, <1>6 DEF q, d

\* Two cells are neighbours when neither their rows nor their columns are more
\* than one apart.
Beside(a, b) == a - b \in {-1, 0, 1}

AreNeighbors(g, h) ==
    /\ Beside(g \div Columns, h \div Columns)
    /\ Beside(g % Columns, h % Columns)

\* The row-major indices NeighborGridIndices returns are the cells of the
\* grid that touch this one, or are it, in the plane: the clipping keeps the
\* last column and the first of the next row apart.
LEMMA NeighborsInThePlane ==
    ASSUME NEW g \in Grids, NEW h
    PROVE  h \in NeighborGridIndices(g) <=> h \in Grids /\ AreNeighbors(g, h)
<1> DEFINE row == g \div Columns
           column == g % Columns
           rs == (row - 1 .. row + 1) \cap (0 .. Rows - 1)
           cs == (column - 1 .. column + 1) \cap (0 .. Columns - 1)
<1>1. row \in 0 .. Rows - 1 /\ column \in 0 .. Columns - 1 /\ Columns \in Int /\ Rows \in Int
    BY CellFromGrids, GridAssumption
<1>2. h \in NeighborGridIndices(g) <=> \E r \in rs, c \in cs : h = r * Columns + c
    BY DEF NeighborGridIndices
<1> HIDE DEF row, column
<1>3. ASSUME NEW r \in rs, NEW c \in cs, h = r * Columns + c
      PROVE  h \in Grids /\ AreNeighbors(g, h)
    <2>1. r \in 0 .. Rows - 1 /\ c \in 0 .. Columns - 1
        OBVIOUS
    <2>2. h \in Grids
        BY <2>1, <1>3, CellInGrids
    <2>3. h \div Columns = r /\ h % Columns = c
        BY <2>1, <1>1, <1>3, IndexOf
    <2>4. row - r \in {-1, 0, 1} /\ column - c \in {-1, 0, 1}
        BY <1>1
    <2> QED  BY <2>2, <2>3, <2>4 DEF AreNeighbors, Beside, row, column
<1>4. ASSUME h \in Grids, AreNeighbors(g, h)
      PROVE  \E r \in rs, c \in cs : h = r * Columns + c
    <2> DEFINE r == h \div Columns
               c == h % Columns
    <2>1. r \in 0 .. Rows - 1 /\ c \in 0 .. Columns - 1 /\ h = r * Columns + c
        BY <1>4, CellFromGrids
    <2>2. row - r \in {-1, 0, 1} /\ column - c \in {-1, 0, 1}
        BY <1>4 DEF AreNeighbors, Beside, row, column
    <2> HIDE DEF r, c
    <2>3. r \in rs /\ c \in cs
        BY <1>1, <2>1, <2>2
    <2> QED  BY <2>1, <2>3
<1> QED  BY <1>2, <1>3, <1>4

\* To be a neighbour is mutual.
LEMMA NeighborsMutual ==
    ASSUME NEW g \in Grids, NEW h \in Grids
    PROVE  AreNeighbors(g, h) <=> AreNeighbors(h, g)
<1>1. /\ g \div Columns \in Int /\ h \div Columns \in Int
      /\ g % Columns \in Int /\ h % Columns \in Int
    BY CellFromGrids, GridAssumption
<1>2. \A a, b \in Int : Beside(a, b) <=> Beside(b, a)
    BY DEF Beside
<1> QED  BY <1>1, <1>2 DEF AreNeighbors

\* The positions a client can send: a double is a number, here in units of the
\* coordinate, or it is not one.
Places == [x : Int \cup {NaN}, y : Int \cup {NaN}]

\* GridIndex returns the index of a cell or nothing, whatever position it is
\* given: NaN, a coordinate outside, or one that the division rounds up.
LEMMA GridIndexInGrids ==
    ASSUME NEW p \in Places
    PROVE  GridIndexFor(p) \in Grids \cup {NoGrid}
<1> DEFINE column == CellOf(p.x, MinX, CellWidth)
           row == CellOf(p.y, MinY, CellHeight)
           refused == \/ Outside(p.x, MinX, Columns * CellWidth)
                      \/ Outside(p.y, MinY, Rows * CellHeight)
                      \/ column >= Columns \/ row >= Rows
<1>1. p.x \in Int \cup {NaN} /\ p.y \in Int \cup {NaN}
    BY DEF Places
<1>2. ASSUME NEW v \in Int \cup {NaN}, NEW min \in Int, NEW cell \in Nat \ {0},
             NEW size \in Int, ~Outside(v, min, size)
      PROVE  CellOf(v, min, cell) \in Nat
    <2>1. CASE v = NaN
        BY <2>1, GridAssumption DEF CellOf
    <2>2. CASE v # NaN
        <3>1. v \in Int /\ v - min \in Nat
            BY <2>2, <1>2 DEF Outside
        <3>2. (v - min) \div cell \in Nat
            BY <3>1
        <3> QED  BY <2>2, <3>2 DEF CellOf
    <2> QED  BY <2>1, <2>2
<1>3. CASE refused
    BY <1>3 DEF GridIndexFor
<1>4. CASE ~refused
    <2>1. Columns * CellWidth \in Int /\ Rows * CellHeight \in Int
        BY GridAssumption
    <2>2. column \in Nat /\ row \in Nat
        BY <1>1, <1>2, <1>4, <2>1, GridAssumption
    <2>3. GridIndexFor(p) = row * Columns + column
        BY <1>4 DEF GridIndexFor
    <2>4. ~(column >= Columns) /\ ~(row >= Rows)
        BY <1>4
    <2> HIDE DEF column, row
    <2>5. column \in 0 .. Columns - 1 /\ row \in 0 .. Rows - 1
        BY <2>2, <2>4, GridAssumption
    <2> QED  BY <2>3, <2>5, CellInGrids
<1> QED  BY <1>3, <1>4

-----------------------------------------------------------------------------
(* The two indices.                                                        *)

\* A world whose players and cells agree: what the methods of AoiWorld rely
\* on, and what each of them has to keep.
Coherent(w) ==
    /\ w.players \in [DOMAIN w.players -> [position : Places, grid : Grids]]
    /\ w.grids \in [Grids -> SUBSET DOMAIN w.players]
    /\ \A g \in Grids :
         w.grids[g] = {id \in DOMAIN w.players : w.players[id].grid = g}
    /\ \A id \in DOMAIN w.players :
         w.players[id].grid = GridIndexFor(w.players[id].position)

\* The players around one, by the cells they are stored with.
Around(w, id) ==
    {q \in DOMAIN w.players \ {id} :
       AreNeighbors(w.players[id].grid, w.players[q].grid)}

\* A query of a coherent world answers with the players of the nine cells.
LEMMA VisibleIsAround ==
    ASSUME NEW w, Coherent(w), NEW id \in DOMAIN w.players
    PROVE  VisiblePlayers(w, id) = Around(w, id)
<1>1. PICK g \in Grids : w.players[id].grid = g /\ GridIndexFor(w.players[id].position) = g
    BY DEF Coherent
<1>2. g # NoGrid
    BY GridAssumption DEF Grids, NoGrid
<1>3. VisiblePlayers(w, id) = (UNION {w.grids[n] : n \in NeighborGridIndices(g)}) \ {id}
    BY <1>1, <1>2 DEF VisiblePlayers, VisiblePlayersAt
<1>4. ASSUME NEW q
      PROVE  q \in UNION {w.grids[n] : n \in NeighborGridIndices(g)}
               <=> q \in DOMAIN w.players /\ AreNeighbors(g, w.players[q].grid)
    <2>1. q \in UNION {w.grids[n] : n \in NeighborGridIndices(g)}
            <=> \E n \in NeighborGridIndices(g) : q \in w.grids[n]
        OBVIOUS
    <2>2. ASSUME NEW n \in NeighborGridIndices(g), q \in w.grids[n]
          PROVE  q \in DOMAIN w.players /\ AreNeighbors(g, w.players[q].grid)
        <3>1. n \in Grids /\ AreNeighbors(g, n)
            BY NeighborsInThePlane
        <3>2. q \in DOMAIN w.players /\ w.players[q].grid = n
            BY <2>2, <3>1 DEF Coherent
        <3> QED  BY <3>1, <3>2
    <2>3. ASSUME q \in DOMAIN w.players, AreNeighbors(g, w.players[q].grid)
          PROVE  \E n \in NeighborGridIndices(g) : q \in w.grids[n]
        <3>1. w.players[q].grid \in Grids
            BY <2>3 DEF Coherent
        <3>2. w.players[q].grid \in NeighborGridIndices(g)
            BY <2>3, <3>1, NeighborsInThePlane
        <3>3. q \in w.grids[w.players[q].grid]
            BY <2>3, <3>1 DEF Coherent
        <3> QED  BY <3>2, <3>3
    <2> QED  BY <2>1, <2>2, <2>3
<1> QED  BY <1>1, <1>3, <1>4 DEF Around

\* Seeing is mutual: who is around a player has the player around it.
LEMMA AroundIsMutual ==
    ASSUME NEW w, Coherent(w), NEW a \in DOMAIN w.players, NEW b \in DOMAIN w.players
    PROVE  a \in Around(w, b) <=> b \in Around(w, a)
<1>1. w.players[a].grid \in Grids /\ w.players[b].grid \in Grids
    BY DEF Coherent
<1>2. AreNeighbors(w.players[a].grid, w.players[b].grid)
        <=> AreNeighbors(w.players[b].grid, w.players[a].grid)
    BY <1>1, NeighborsMutual
<1> QED  BY <1>2 DEF Around

\* A position that is accepted has a cell.
LEMMA AcceptedHasCell ==
    ASSUME NEW p \in Places, GridIndexFor(p) # NoGrid
    PROVE  GridIndexFor(p) \in Grids
BY GridIndexInGrids

\* AddPlayer puts the player into both indices.
LEMMA AddKeepsCoherent ==
    ASSUME NEW w, Coherent(w), NEW id, NEW p \in Places, CanAdd(w, id, p)
    PROVE  LET v == AddPlayer(w, id, p)
           IN  /\ Coherent(v)
               /\ DOMAIN v.players = DOMAIN w.players \cup {id}
               /\ id \notin DOMAIN w.players
               /\ \A q \in DOMAIN w.players : v.players[q] = w.players[q]
               /\ v.players[id].position = p
<1> DEFINE v == AddPlayer(w, id, p)
           new == GridIndexFor(p)
<1>1. new \in Grids /\ id \notin DOMAIN w.players
    BY AcceptedHasCell DEF CanAdd, Contains
<1>2. /\ v.players = [i \in DOMAIN w.players \cup {id} |->
                        IF i = id THEN [position |-> p, grid |-> new] ELSE w.players[i]]
      /\ v.grids = [w.grids EXCEPT ![new] = @ \cup {id}]
    BY DEF AddPlayer
<1> HIDE DEF v, new
<1>3. /\ DOMAIN v.players = DOMAIN w.players \cup {id}
      /\ v.players[id] = [position |-> p, grid |-> new]
      /\ \A q \in DOMAIN w.players : v.players[q] = w.players[q]
    BY <1>1, <1>2
<1>4. v.players \in [DOMAIN v.players -> [position : Places, grid : Grids]]
    BY <1>1, <1>2, <1>3 DEF Coherent
<1>5. /\ v.grids \in [Grids -> SUBSET DOMAIN v.players]
      /\ \A g \in Grids : v.grids[g] = IF g = new THEN w.grids[g] \cup {id} ELSE w.grids[g]
    <2>1. w.grids \in [Grids -> SUBSET DOMAIN w.players]
        BY DEF Coherent
    <2>2. \A g \in Grids : v.grids[g] = IF g = new THEN w.grids[g] \cup {id} ELSE w.grids[g]
        BY <1>1, <1>2, <2>1
    <2>3. DOMAIN v.grids = Grids /\ v.grids = [g \in DOMAIN v.grids |-> v.grids[g]]
        BY <1>1, <1>2, <2>1
    <2>4. \A g \in Grids : v.grids[g] \in SUBSET DOMAIN v.players
        BY <1>3, <2>1, <2>2
    <2> QED  BY <2>2, <2>3, <2>4
<1>6. ASSUME NEW g \in Grids
      PROVE  v.grids[g] = {i \in DOMAIN v.players : v.players[i].grid = g}
    <2>1. w.grids[g] = {i \in DOMAIN w.players : w.players[i].grid = g}
        BY DEF Coherent
    <2>2. v.players[id].grid = new
        BY <1>3
    <2>3. CASE g = new
        BY <1>1, <1>3, <1>5, <2>1, <2>2, <2>3
    <2>4. CASE g # new
        <3>1. v.grids[g] = w.grids[g]
            BY <1>5, <2>4
        <3>2. \A i \in DOMAIN v.players :
                v.players[i].grid = g <=> i \in DOMAIN w.players /\ w.players[i].grid = g
            BY <1>1, <1>3, <2>2, <2>4
        <3> QED  BY <2>1, <1>3, <3>1, <3>2
    <2> QED  BY <2>3, <2>4
<1>7. ASSUME NEW i \in DOMAIN v.players
      PROVE  v.players[i].grid = GridIndexFor(v.players[i].position)
    BY <1>1, <1>3 DEF Coherent, new
<1>8. Coherent(v)
    BY <1>4, <1>5, <1>6, <1>7 DEF Coherent
<1> QED  BY <1>1, <1>3, <1>8 DEF v

\* MovePlayer moves the player in both indices, also within a cell.
LEMMA MoveKeepsCoherent ==
    ASSUME NEW w, Coherent(w), NEW id, NEW p \in Places, CanMove(w, id, p)
    PROVE  LET v == MovePlayer(w, id, p)
           IN  /\ Coherent(v)
               /\ DOMAIN v.players = DOMAIN w.players
               /\ id \in DOMAIN w.players
               /\ \A q \in DOMAIN w.players \ {id} : v.players[q] = w.players[q]
               /\ v.players[id].position = p
<1> DEFINE v == MovePlayer(w, id, p)
           old == w.players[id].grid
           new == GridIndexFor(p)
<1>1. new \in Grids /\ id \in DOMAIN w.players
    BY AcceptedHasCell DEF CanMove, Contains
<1>2. /\ v.players = [w.players EXCEPT ![id] = [position |-> p, grid |-> new]]
      /\ v.grids = [g \in Grids |-> IF g = new THEN w.grids[g] \cup {id}
                                    ELSE IF g = old THEN w.grids[g] \ {id} ELSE w.grids[g]]
    BY DEF MovePlayer
<1> HIDE DEF v, new
<1>3. /\ DOMAIN v.players = DOMAIN w.players
      /\ v.players[id] = [position |-> p, grid |-> new]
      /\ \A q \in DOMAIN w.players \ {id} : v.players[q] = w.players[q]
    BY <1>1, <1>2 DEF Coherent
<1>4. v.players \in [DOMAIN v.players -> [position : Places, grid : Grids]]
    BY <1>1, <1>2, <1>3 DEF Coherent
<1>5. v.grids \in [Grids -> SUBSET DOMAIN v.players]
    BY <1>1, <1>2 DEF Coherent
<1>6. ASSUME NEW g \in Grids
      PROVE  v.grids[g] = {i \in DOMAIN v.players : v.players[i].grid = g}
    <2>1. w.grids[g] = {i \in DOMAIN w.players : w.players[i].grid = g}
        BY DEF Coherent
    <2>2. v.players[id].grid = new
        BY <1>3
    <2>3. v.grids[g] = IF g = new THEN w.grids[g] \cup {id}
                       ELSE IF g = old THEN w.grids[g] \ {id} ELSE w.grids[g]
        BY <1>2
    <2> QED  BY <1>1, <1>3, <2>1, <2>2, <2>3
<1>7. ASSUME NEW i \in DOMAIN v.players
      PROVE  v.players[i].grid = GridIndexFor(v.players[i].position)
    BY <1>1, <1>3 DEF Coherent, new
<1>8. Coherent(v)
    BY <1>4, <1>5, <1>6, <1>7 DEF Coherent
<1> QED  BY <1>1, <1>3, <1>8 DEF v

\* RemovePlayer takes the player out of both indices.
LEMMA RemoveKeepsCoherent ==
    ASSUME NEW w, Coherent(w), NEW id, Contains(w, id)
    PROVE  LET v == RemovePlayer(w, id)
           IN  /\ Coherent(v)
               /\ DOMAIN v.players = DOMAIN w.players \ {id}
               /\ id \in DOMAIN w.players
               /\ \A q \in DOMAIN w.players \ {id} : v.players[q] = w.players[q]
<1> DEFINE v == RemovePlayer(w, id)
           old == w.players[id].grid
<1>1. id \in DOMAIN w.players /\ old \in Grids
    BY DEF Contains, Coherent
<1>2. /\ v.players = [i \in DOMAIN w.players \ {id} |-> w.players[i]]
      /\ v.grids = [w.grids EXCEPT ![old] = @ \ {id}]
    BY DEF RemovePlayer
<1> HIDE DEF v
<1>3. /\ DOMAIN v.players = DOMAIN w.players \ {id}
      /\ \A q \in DOMAIN w.players \ {id} : v.players[q] = w.players[q]
    BY <1>1, <1>2
<1>4. v.players \in [DOMAIN v.players -> [position : Places, grid : Grids]]
    BY <1>2, <1>3 DEF Coherent
<1>5. /\ v.grids \in [Grids -> SUBSET DOMAIN v.players]
      /\ \A g \in Grids : v.grids[g] = IF g = old THEN w.grids[g] \ {id} ELSE w.grids[g]
    <2>1. w.grids \in [Grids -> SUBSET DOMAIN w.players] /\ DOMAIN w.grids = Grids
        BY DEF Coherent
    <2>2. \A g \in Grids : v.grids[g] = IF g = old THEN w.grids[g] \ {id} ELSE w.grids[g]
        BY <1>1, <1>2, <2>1
    <2>3. DOMAIN v.grids = Grids /\ v.grids = [g \in DOMAIN v.grids |-> v.grids[g]]
        BY <1>1, <1>2, <2>1
    <2>4. ASSUME NEW g \in Grids PROVE v.grids[g] \in SUBSET DOMAIN v.players
        <3>1. w.grids[g] = {i \in DOMAIN w.players : w.players[i].grid = g}
            BY DEF Coherent
        <3>2. CASE g = old
            BY <1>3, <2>2, <3>1, <3>2
        <3>3. CASE g # old
            <4>1. v.grids[g] = w.grids[g]
                BY <2>2, <3>3
            <4>2. \A i \in w.grids[g] : i \in DOMAIN w.players /\ i # id
                BY <3>1, <3>3
            <4> QED  BY <1>3, <4>1, <4>2
        <3> QED  BY <3>2, <3>3
    <2> QED  BY <2>2, <2>3, <2>4
<1>6. ASSUME NEW g \in Grids
      PROVE  v.grids[g] = {i \in DOMAIN v.players : v.players[i].grid = g}
    <2>1. w.grids[g] = {i \in DOMAIN w.players : w.players[i].grid = g}
        BY DEF Coherent
    <2>2. v.grids[g] = IF g = old THEN w.grids[g] \ {id} ELSE w.grids[g]
        BY <1>5
    <2>3. \A i \in DOMAIN v.players : v.players[i].grid = w.players[i].grid
        BY <1>3
    <2>4. {i \in DOMAIN v.players : v.players[i].grid = g} = w.grids[g] \ {id}
        BY <1>3, <2>1, <2>3
    <2>5. g # old => w.grids[g] \ {id} = w.grids[g]
        BY <2>1
    <2> QED  BY <2>2, <2>4, <2>5
<1>7. ASSUME NEW i \in DOMAIN v.players
      PROVE  v.players[i].grid = GridIndexFor(v.players[i].position)
    BY <1>3 DEF Coherent
<1>8. Coherent(v)
    BY <1>4, <1>5, <1>6, <1>7 DEF Coherent
<1> QED  BY <1>1, <1>3, <1>8 DEF v

\* Two worlds that have the same players in the same places, but for one who
\* is new, elsewhere or gone.
AlikeBut(w, v, id) ==
    /\ DOMAIN v.players \ {id} = DOMAIN w.players \ {id}
    /\ \A i \in DOMAIN w.players \ {id} : v.players[i] = w.players[i]

\* The others' views differ by that player alone.
LEMMA OthersSeeTheSame ==
    ASSUME NEW w, NEW v, NEW id, AlikeBut(w, v, id), NEW q \in DOMAIN w.players, q # id
    PROVE  Around(v, q) \ {id} = Around(w, q) \ {id}
<1> USE DEF AlikeBut
<1>1. v.players[q] = w.players[q]
    OBVIOUS
<1>2. ASSUME NEW i
      PROVE  i \in Around(v, q) \ {id} <=> i \in Around(w, q) \ {id}
    <2>1. CASE i = id
        BY <2>1
    <2>2. CASE i # id /\ i \in DOMAIN w.players
        <3>1. i \in DOMAIN v.players /\ v.players[i] = w.players[i]
            BY <2>2
        <3> QED  BY <2>2, <3>1, <1>1 DEF Around
    <2>3. CASE i # id /\ i \notin DOMAIN w.players
        <3>1. i \notin DOMAIN v.players
            BY <2>3
        <3> QED  BY <2>3, <3>1 DEF Around
    <2> QED  BY <2>1, <2>2, <2>3
<1> QED  BY <1>2
=============================================================================
