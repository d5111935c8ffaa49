----------------------------- MODULE MCAoiWorld -----------------------------
(* Model-checking instance of AoiWorld: a grid of three columns and two    *)
(* rows of two coordinates each, the coordinates just inside and just      *)
(* outside of it, and NaN.  Offset 5, the last of the third column, rounds *)
(* up to a fourth column there is none of.                                 *)
EXTENDS AoiWorld, TLC

MCCoordinates == {-1, 0, 2, 3, 4, 5, NaN}

\* The players are interchangeable.
MCSymmetry == Permutations(PlayerIds)
=============================================================================
