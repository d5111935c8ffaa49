----------------------------- MODULE Presence ------------------------------
(***************************************************************************)
(* What the server promises about who is in the world: a player comes on a *)
(* connection of its own, moves, may be taken over by another connection   *)
(* without leaving its place, and leaves; one of these at a time.          *)
(***************************************************************************)
CONSTANTS Player, Connection, Position, None

VARIABLE place  \* where a player is and on which connection, or None

Used == {place[p].conn : p \in {q \in Player : place[q] # None}}

PresenceInit == place = [p \in Player |-> None]

Enter(p) ==
    /\ place[p] = None
    /\ \E c \in Connection \ Used, at \in Position :
         place' = [place EXCEPT ![p] = [conn |-> c, position |-> at]]

Move(p) ==
    /\ place[p] # None
    /\ \E at \in Position : place' = [place EXCEPT ![p].position = at]

TakeOver(p) ==
    /\ place[p] # None
    /\ \E c \in Connection \ Used : place' = [place EXCEPT ![p].conn = c]

Leave(p) ==
    /\ place[p] # None
    /\ place' = [place EXCEPT ![p] = None]

PresenceNext == \E p \in Player : Enter(p) \/ Move(p) \/ TakeOver(p) \/ Leave(p)

PresenceSpec == PresenceInit /\ [][PresenceNext]_place
=============================================================================
