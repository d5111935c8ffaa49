--------------------------- MODULE AoiWorldProofs ---------------------------
(***************************************************************************)
(* The area-of-interest world, for every grid, every set of players and    *)
(* every set of coordinates: its two indices agree, a query answers with   *)
(* the nine cells around a player, and telling only those whom the delta   *)
(* names keeps everyone's view right.                                      *)
(***************************************************************************)
EXTENDS AoiWorld, AoiGridProofs

-----------------------------------------------------------------------------
(* The invariant.                                                          *)

\* The inductive invariant: the indices agree, and everyone has been told of
\* exactly those around.  Nothing is known of what those outside were told.
WorldInv ==
    /\ WorldTypeOK
    /\ GridsMatchPlayers
    /\ EveryoneToldTheTruth

\* The same in terms of the operators on worlds.
CoherentAndTold ==
    /\ Coherent(world)
    /\ DOMAIN world.players \subseteq PlayerIds
    /\ \A id \in DOMAIN world.players : world.players[id].position \in Positions
    /\ told \in [PlayerIds -> SUBSET PlayerIds]
    /\ \A id \in DOMAIN world.players : told[id] = VisiblePlayers(world, id)

LEMMA PositionsArePlaces == Positions \subseteq Places
BY CoordinatesAssumption DEF Positions, Places

LEMMA InvIsCoherent == WorldInv <=> CoherentAndTold
<1>1. Positions \subseteq Places
    BY PositionsArePlaces
<1>2. ASSUME WorldInv PROVE CoherentAndTold
    <2>1. /\ world.players \in [DOMAIN world.players -> [position : Positions, grid : Grids]]
          /\ world.grids \in [Grids -> SUBSET PlayerIds]
          /\ \A g \in Grids : world.grids[g] = {id \in PlayersIn : world.players[id].grid = g}
        BY <1>2 DEF WorldInv, WorldTypeOK, GridsMatchPlayers, PlayersIn
    <2>2. world.players \in [DOMAIN world.players -> [position : Places, grid : Grids]]
        BY <1>1, <2>1
    <2>3. world.grids \in [Grids -> SUBSET DOMAIN world.players]
        BY <2>1 DEF PlayersIn
    <2>4. Coherent(world)
        BY <1>2, <2>2, <2>3 DEF WorldInv, GridsMatchPlayers, Coherent, PlayersIn
    <2> QED
        BY <1>2, <2>1, <2>4
        DEF CoherentAndTold, WorldInv, WorldTypeOK, EveryoneToldTheTruth, PlayersIn
<1>3. ASSUME CoherentAndTold PROVE WorldInv
    <2>1. /\ world.players \in [DOMAIN world.players -> [position : Places, grid : Grids]]
          /\ \A id \in DOMAIN world.players : world.players[id].position \in Positions
          /\ world.grids \in [Grids -> SUBSET DOMAIN world.players]
          /\ DOMAIN world.players \subseteq PlayerIds
        BY <1>3 DEF CoherentAndTold, Coherent
    <2>2. world.players \in [DOMAIN world.players -> [position : Positions, grid : Grids]]
        BY <2>1
    <2>3. world.grids \in [Grids -> SUBSET PlayerIds]
        BY <2>1
    <2> QED
        BY <1>3, <2>1, <2>2, <2>3
        DEF CoherentAndTold, WorldInv, WorldTypeOK, GridsMatchPlayers, EveryoneToldTheTruth,
            Coherent, PlayersIn
<1> QED  BY <1>2, <1>3

\* Those around a player are players.
LEMMA AroundArePlayers ==
    ASSUME NEW w, DOMAIN w.players \subseteq PlayerIds, NEW id
    PROVE  Around(w, id) \in SUBSET PlayerIds
BY DEF Around

LEMMA InitWorldInv == WorldInit => WorldInv
<1> SUFFICES ASSUME WorldInit PROVE WorldInv
    OBVIOUS
<1>1. world.players = <<>> /\ world.grids = [g \in Grids |-> {}]
    BY DEF WorldInit, EmptyWorld
<1>2. DOMAIN world.players = {}
    BY <1>1
<1>3. world.players \in [{} -> [position : Places, grid : Grids]]
    BY <1>1
<1>4. Coherent(world)
    BY <1>1, <1>2, <1>3 DEF Coherent
<1>5. told \in [PlayerIds -> SUBSET PlayerIds]
    BY DEF WorldInit
<1> QED  BY <1>2, <1>4, <1>5, InvIsCoherent DEF CoherentAndTold

\* FinishLogin: the newcomer is told of those around, and they of it.
LEMMA EnterKeepsInv ==
    ASSUME WorldInv, NEW id \in PlayerIds, NEW p \in Positions, Enter(id, p)
    PROVE  WorldInv'
<1>1. /\ Coherent(world) /\ DOMAIN world.players \subseteq PlayerIds
      /\ \A q \in DOMAIN world.players : world.players[q].position \in Positions
      /\ told \in [PlayerIds -> SUBSET PlayerIds]
      /\ \A q \in DOMAIN world.players : told[q] = Around(world, q)
    BY InvIsCoherent, VisibleIsAround DEF CoherentAndTold
<1>2. /\ Coherent(world') /\ DOMAIN world'.players \subseteq PlayerIds
      /\ \A q \in DOMAIN world'.players : world'.players[q].position \in Positions
      /\ DOMAIN world'.players = DOMAIN world.players \cup {id}
      /\ id \notin DOMAIN world.players
      /\ \A q \in DOMAIN world.players : world'.players[q] = world.players[q]
    <2>1. /\ Coherent(world')
          /\ DOMAIN world'.players = DOMAIN world.players \cup {id}
          /\ id \notin DOMAIN world.players
          /\ \A q \in DOMAIN world.players : world'.players[q] = world.players[q]
          /\ world'.players[id].position = p
        BY <1>1, PositionsArePlaces, AddKeepsCoherent DEF Enter
    <2> QED  BY <1>1, <2>1
<1>3. VisiblePlayers(world', id) = Around(world', id)
    BY <1>2, VisibleIsAround
<1>4. told' = [q \in PlayerIds |->
                 IF q = id THEN Around(world', id)
                 ELSE IF q \in Around(world', id) THEN told[q] \cup {id}
                 ELSE told[q]]
    BY <1>3 DEF Enter
<1>5. told' \in [PlayerIds -> SUBSET PlayerIds]
    BY <1>1, <1>2, <1>4, AroundArePlayers
<1>6. ASSUME NEW q \in DOMAIN world'.players
      PROVE  told'[q] = Around(world', q)
    <2>1. q \in PlayerIds
        BY <1>2
    <2>2. CASE q = id
        BY <1>4, <2>1, <2>2
    <2>3. CASE q # id
        <3>1. q \in DOMAIN world.players /\ told[q] = Around(world, q)
            BY <1>1, <1>2, <2>3
        <3>2. Around(world', q) \ {id} = Around(world, q) \ {id}
            <4>1. AlikeBut(world, world', id)
                BY <1>2 DEF AlikeBut
            <4> QED  BY <2>3, <3>1, <4>1, OthersSeeTheSame
        <3>3. id \notin Around(world, q)
            BY <1>2 DEF Around
        <3>4. id \in Around(world', q) <=> q \in Around(world', id)
            BY <1>2, AroundIsMutual
        <3>5. told'[q] = IF q \in Around(world', id) THEN told[q] \cup {id} ELSE told[q]
            BY <1>4, <2>1, <2>3
        <3> QED  BY <3>1, <3>2, <3>3, <3>4, <3>5
    <2> QED  BY <2>2, <2>3
<1>7. \A q \in DOMAIN world'.players : told'[q] = VisiblePlayers(world', q)
    BY <1>2, <1>6, VisibleIsAround
<1>8. CoherentAndTold'
    BY <1>2, <1>5, <1>7 DEF CoherentAndTold
<1> QED  BY <1>8, InvIsCoherent, PTL

\* HandleMove: the mover learns of those that entered and left its view, and
\* they of the mover; those that stayed in view are told the new position.
LEMMA MoveKeepsInv ==
    ASSUME WorldInv, NEW id \in PlayerIds, NEW p \in Positions, Move(id, p)
    PROVE  WorldInv'
<1>1. /\ Coherent(world) /\ DOMAIN world.players \subseteq PlayerIds
      /\ \A q \in DOMAIN world.players : world.players[q].position \in Positions
      /\ told \in [PlayerIds -> SUBSET PlayerIds]
      /\ \A q \in DOMAIN world.players : told[q] = Around(world, q)
    BY InvIsCoherent, VisibleIsAround DEF CoherentAndTold
<1>2. /\ Coherent(world') /\ DOMAIN world'.players \subseteq PlayerIds
      /\ \A q \in DOMAIN world'.players : world'.players[q].position \in Positions
      /\ DOMAIN world'.players = DOMAIN world.players
      /\ id \in DOMAIN world.players
      /\ \A q \in DOMAIN world.players \ {id} : world'.players[q] = world.players[q]
    <2>1. /\ Coherent(world')
          /\ DOMAIN world'.players = DOMAIN world.players
          /\ id \in DOMAIN world.players
          /\ \A q \in DOMAIN world.players \ {id} : world'.players[q] = world.players[q]
          /\ world'.players[id].position = p
        BY <1>1, PositionsArePlaces, MoveKeepsCoherent DEF Move
    <2> QED  BY <1>1, <2>1
<1> DEFINE entered == Around(world', id) \ Around(world, id)
           left == Around(world, id) \ Around(world', id)
<1>3. /\ VisiblePlayers(world, id) = Around(world, id)
      /\ VisiblePlayers(world', id) = Around(world', id)
    BY <1>1, <1>2, VisibleIsAround
<1>4. told' = [q \in PlayerIds |->
                 IF q = id THEN (told[id] \cup entered) \ left
                 ELSE IF q \in entered THEN told[q] \cup {id}
                 ELSE IF q \in left THEN told[q] \ {id}
                 ELSE told[q]]
    BY <1>3 DEF Move, ViewDelta
<1>5. told' \in [PlayerIds -> SUBSET PlayerIds]
    <2>1. Around(world', id) \in SUBSET PlayerIds
        BY <1>2, AroundArePlayers
    <2>2. ASSUME NEW q \in PlayerIds
          PROVE  told'[q] \in SUBSET PlayerIds
        BY <1>1, <1>4, <2>1
    <2> QED  BY <1>4, <2>2
<1>6. ASSUME NEW q \in DOMAIN world'.players
      PROVE  told'[q] = Around(world', q)
    <2>1. q \in PlayerIds
        BY <1>2
    <2>2. CASE q = id
        <3>1. told'[q] = (Around(world, id) \cup entered) \ left
            BY <1>1, <1>2, <1>4, <2>1, <2>2
        <3> QED  BY <2>2, <3>1
    <2>3. CASE q # id
        <3>1. q \in DOMAIN world.players /\ told[q] = Around(world, q)
            BY <1>1, <1>2
        <3>2. Around(world', q) \ {id} = Around(world, q) \ {id}
            <4>1. AlikeBut(world, world', id)
                BY <1>2 DEF AlikeBut
            <4> QED  BY <2>3, <3>1, <4>1, OthersSeeTheSame
        <3>3. id \in Around(world, q) <=> q \in Around(world, id)
            BY <1>1, <1>2, <3>1, AroundIsMutual
        <3>4. id \in Around(world', q) <=> q \in Around(world', id)
            BY <1>2, AroundIsMutual
        <3>5. told'[q] = IF q \in entered THEN told[q] \cup {id}
                         ELSE IF q \in left THEN told[q] \ {id} ELSE told[q]
            BY <1>4, <2>1, <2>3
        <3> QED  BY <3>1, <3>2, <3>3, <3>4, <3>5
    <2> QED  BY <2>2, <2>3
<1>7. \A q \in DOMAIN world'.players : told'[q] = VisiblePlayers(world', q)
    BY <1>2, <1>6, VisibleIsAround
<1>8. CoherentAndTold'
    BY <1>2, <1>5, <1>7 DEF CoherentAndTold
<1> QED  BY <1>8, InvIsCoherent, PTL

\* OnDisconnected: those around are told that the player is gone.
LEMMA LeaveKeepsInv ==
    ASSUME WorldInv, NEW id \in PlayerIds, Leave(id)
    PROVE  WorldInv'
<1>1. /\ Coherent(world) /\ DOMAIN world.players \subseteq PlayerIds
      /\ \A q \in DOMAIN world.players : world.players[q].position \in Positions
      /\ told \in [PlayerIds -> SUBSET PlayerIds]
      /\ \A q \in DOMAIN world.players : told[q] = Around(world, q)
    BY InvIsCoherent, VisibleIsAround DEF CoherentAndTold
<1>2. /\ Coherent(world') /\ DOMAIN world'.players \subseteq PlayerIds
      /\ \A q \in DOMAIN world'.players : world'.players[q].position \in Positions
      /\ DOMAIN world'.players = DOMAIN world.players \ {id}
      /\ id \in DOMAIN world.players
      /\ \A q \in DOMAIN world.players \ {id} : world'.players[q] = world.players[q]
    <2>1. /\ Coherent(world')
          /\ DOMAIN world'.players = DOMAIN world.players \ {id}
          /\ id \in DOMAIN world.players
          /\ \A q \in DOMAIN world.players \ {id} : world'.players[q] = world.players[q]
        BY <1>1, PositionsArePlaces, RemoveKeepsCoherent DEF Leave
    <2> QED  BY <1>1, <2>1
<1>3. VisiblePlayers(world, id) = Around(world, id)
    BY <1>1, <1>2, VisibleIsAround
<1>4. told' = [q \in PlayerIds |->
                 IF q = id THEN {}
                 ELSE IF q \in Around(world, id) THEN told[q] \ {id}
                 ELSE told[q]]
    BY <1>3 DEF Leave
<1>5. told' \in [PlayerIds -> SUBSET PlayerIds]
    BY <1>1, <1>4
<1>6. ASSUME NEW q \in DOMAIN world'.players
      PROVE  told'[q] = Around(world', q)
    <2>1. q \in PlayerIds /\ q # id
        BY <1>2
    <2>2. q \in DOMAIN world.players /\ told[q] = Around(world, q)
        BY <1>1, <1>2
    <2>3. Around(world', q) \ {id} = Around(world, q) \ {id}
        <3>1. AlikeBut(world, world', id)
            BY <1>2 DEF AlikeBut
        <3> QED  BY <2>1, <2>2, <3>1, OthersSeeTheSame
    <2>4. id \notin Around(world', q)
        BY <1>2 DEF Around
    <2>5. id \in Around(world, q) <=> q \in Around(world, id)
        BY <1>1, <1>2, <2>2, AroundIsMutual
    <2>6. told'[q] = IF q \in Around(world, id) THEN told[q] \ {id} ELSE told[q]
        BY <1>4, <2>1
    <2> QED  BY <2>2, <2>3, <2>4, <2>5, <2>6
<1>7. \A q \in DOMAIN world'.players : told'[q] = VisiblePlayers(world', q)
    BY <1>2, <1>6, VisibleIsAround
<1>8. CoherentAndTold'
    BY <1>2, <1>5, <1>7 DEF CoherentAndTold
<1> QED  BY <1>8, InvIsCoherent, PTL

\* The invariant holds in every state of the world.
THEOREM WorldInvariant == WorldSpec => []WorldInv
<1>1. WorldInv /\ [WorldNext]_worldVars => WorldInv'
    <2> SUFFICES ASSUME WorldInv, [WorldNext]_worldVars PROVE WorldInv'
        OBVIOUS
    <2>1. CASE UNCHANGED worldVars
        BY <2>1 DEF worldVars, WorldInv, WorldTypeOK, GridsMatchPlayers,
                    EveryoneToldTheTruth, PlayersIn
    <2>2. CASE WorldNext
        BY <2>2, EnterKeepsInv, MoveKeepsInv, LeaveKeepsInv DEF WorldNext
    <2> QED  BY <2>1, <2>2
<1> QED  BY InitWorldInv, <1>1, PTL DEF WorldSpec

\* Whatever GridIndex was given, every player has a cell that is an index of
\* grids_ (aoi_world.cpp:118-137).
THEOREM WorldTypeCorrect == WorldSpec => []WorldTypeOK
<1>1. WorldInv => WorldTypeOK
    BY DEF WorldInv
<1> QED  BY WorldInvariant, <1>1, PTL

\* players_ and grids_ agree after every sequence of AddPlayer, MovePlayer
\* and RemovePlayer (aoi_world.cpp:31-101).
THEOREM WorldGridsMatchPlayers == WorldSpec => []GridsMatchPlayers
<1>1. WorldInv => GridsMatchPlayers
    BY DEF WorldInv
<1> QED  BY WorldInvariant, <1>1, PTL

\* VisiblePlayers answers with the player's cell and its eight neighbours in
\* the plane, for a grid of any size.
THEOREM WorldVisibleIsNineCells == WorldSpec => []VisibleIsNineCells
<1>1. WorldInv => VisibleIsNineCells
    <2> SUFFICES ASSUME WorldInv, NEW id \in PlayersIn
                 PROVE  VisiblePlayers(world, id) =
                          { q \in PlayersIn \ {id} :
                              AreNeighbors(world.players[id].grid, world.players[q].grid) }
        BY DEF VisibleIsNineCells, AreNeighbors, Beside, Near
    <2>1. Coherent(world) /\ id \in DOMAIN world.players
        BY InvIsCoherent DEF PlayersIn, CoherentAndTold
    <2> QED  BY <2>1, VisibleIsAround DEF Around, PlayersIn
<1> QED  BY WorldInvariant, <1>1, PTL

\* Everyone in the world has been told of exactly the players it can see,
\* after any number of logins, moves and departures.
THEOREM WorldEveryoneToldTheTruth == WorldSpec => []EveryoneToldTheTruth
<1>1. WorldInv => EveryoneToldTheTruth
    BY DEF WorldInv
<1> QED  BY WorldInvariant, <1>1, PTL
=============================================================================
