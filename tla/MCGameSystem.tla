---------------------------- MODULE MCGameSystem ----------------------------
(* Model-checking instances of GameSystem.  The world is a row of cells one *)
(* coordinate wide, so that a player sees its own cell and the two beside   *)
(* it; position n is the n-th cell.                                         *)
EXTENDS GameSystem, TLC

CONSTANT Shared  \* one of the accounts

At(n) == [x |-> n, y |-> 0]

MCStart == At(1)

\* One step away, out of sight, and out of the world.
MCPositions == {At(2), At(3), At(4)}

\* One position, where only that the player has moved matters.
MCElsewhere == {At(3)}

\* Everyone logs in to any account.
MCAsksAny == [c \in Connections |-> Accounts]

\* All log in to one account, and only the last to connect to any.
MCAsksLast ==
    [c \in Connections |->
       IF \A d \in Connections : d <= c THEN Accounts ELSE {Shared}]

\* Workers are interchangeable, and so are accounts.
MCSymmetry == Permutations(Workers) \cup Permutations(Accounts)
=============================================================================
